----------------------------- MODULE WorkQueue -----------------------------
(***************************************************************************)
(* The work queue of FragQue.Dll/FragQue.cpp.  A record is written or      *)
(* deleted by one worker thread per process, which the first request       *)
(* starts and which ends itself after a time without work; the caller,     *)
(* who may be inside an enumeration with a file locked, waits for neither. *)
(***************************************************************************)
EXTENDS QueueFile

CONSTANTS
    Owner,              \* Owner[n]: the process that queues the file n
    MaxCalls            \* bound: the files queued and the enumerations

VARIABLES
    WorkThreadInitialized,  \* 0 no, 1 being created, 2 yes
    WorkQueue,          \* WorkQueue[p]: the work items
    WorkQueueLock,      \* the processes whose critical section is held over a step
    WorkNotificationEvent,  \* the processes whose event is set
    client,             \* client[p]: where the client is
    call,               \* call[p]: the item it queues
    calls,              \* the calls so far
    opened,             \* the processes whose client has its handle
    worker,             \* worker[p]: where the worker is
    item,               \* item[p]: the item it executes
    QueueRefs,          \* ReferenceCount of the queue context
    asked               \* asked[n]: the item queued last

workVars == <<WorkThreadInitialized, WorkQueue, WorkQueueLock, WorkNotificationEvent, worker, item>>
clientVars == <<client, call, calls, opened, asked>>

WorkInit ==
    /\ WorkThreadInitialized = [p \in Processes |-> 0]
    /\ WorkQueue = [p \in Processes |-> <<>>]
    /\ WorkQueueLock = {} /\ WorkNotificationEvent = {} /\ opened = Processes
    /\ client = [p \in Processes |-> "idle"] /\ call = [p \in Processes |-> None]
    /\ calls = 0
    /\ worker = [p \in Processes |-> "none"] /\ item = [p \in Processes |-> None]
    /\ QueueRefs = [p \in Processes |-> 1]
    /\ asked = [n \in Names |-> IF LastModified[n] > 0 THEN "WRITERECORD" ELSE "DELETERECORD"]

\* The items of FqiBuildWorkItem.
WorkItems == [type : {"WRITERECORD", "DELETERECORD"}, name : Names]

ClientAt(p, l) == client' = [client EXCEPT ![p] = l]
WorkerAt(p, l) == worker' = [worker EXCEPT ![p] = l]
AddRefs(p, i) == QueueRefs' = [QueueRefs EXCEPT ![p] = @ + i]

\* The client is not inside the library, or in a callback of its enumeration.
Calls(p) ==
    /\ p \in opened /\ client[p] = "idle" /\ calls < MaxCalls
    /\ scan[Client(p)].at \in {"idle", "callback"}
    /\ calls' = calls + 1

-----------------------------------------------------------------------------
(* The caller.                                                             *)

FqiBuildWorkItem(p, type) ==
    \E n \in Names : Owner[n] = p /\ call' = [call EXCEPT ![p] = [type |-> type, name |-> n]]

\* FqInsertFile and FqRemoveFile: a reference for the call and one for the item.
FqInsertFile(p) ==
    /\ Calls(p)
    /\ \E type \in {"WRITERECORD", "DELETERECORD"} : FqiBuildWorkItem(p, type)
    /\ AddRefs(p, 2) /\ ClientAt(p, "enter")
    /\ UNCHANGED <<opened, asked, workVars, fileVars, scan, failures>>

\* Mutant of InsertItem: to the head of the queue.
InsertFirst(p) ==
    /\ WorkQueue' = [WorkQueue EXCEPT ![p] = <<call[p]>> \o @]
    /\ asked' = [asked EXCEPT ![call[p].name] = call[p].type]
    /\ ClientAt(p, "signal")

InsertItem(p) ==
    /\ WorkQueue' = [WorkQueue EXCEPT ![p] = Append(@, call[p])]
    /\ asked' = [asked EXCEPT ![call[p].name] = call[p].type]
    /\ ClientAt(p, "signal")

\* FqiQueueWorkItem enters the lock.  If there is no worker it is created, and
\* the lock kept until it runs; the state 1 is seen by nobody else.
EnterQueue(p) ==
    /\ client[p] = "enter" /\ p \notin WorkQueueLock
    /\ \/ /\ WorkThreadInitialized[p] = 2
          /\ InsertItem(p)
          /\ UNCHANGED <<WorkThreadInitialized, WorkQueueLock, worker, call, QueueRefs, failures>>
       \/ /\ WorkThreadInitialized[p] = 0
          /\ WorkThreadInitialized' = [WorkThreadInitialized EXCEPT ![p] = 1]
          /\ WorkQueueLock' = WorkQueueLock \union {p}
          /\ WorkerAt(p, "starting") /\ ClientAt(p, "starting")
          /\ UNCHANGED <<WorkQueue, call, asked, QueueRefs, failures>>
       \/ /\ WorkThreadInitialized[p] = 0 /\ Fails
          /\ ClientAt(p, "idle") /\ call' = [call EXCEPT ![p] = None] /\ AddRefs(p, -2)
          /\ UNCHANGED <<WorkThreadInitialized, WorkQueue, WorkQueueLock, worker, asked>>
    /\ UNCHANGED <<calls, opened, WorkNotificationEvent, item, fileVars, scan>>

\* FqiInitializeWorkerThread goes on when the worker has said that it runs.
WorkerStarted(p) ==
    /\ client[p] = "starting" /\ worker[p] # "starting"
    /\ WorkThreadInitialized' = [WorkThreadInitialized EXCEPT ![p] = 2]
    /\ InsertItem(p) /\ WorkQueueLock' = WorkQueueLock \ {p}
    /\ UNCHANGED <<WorkNotificationEvent, worker, item, call, calls, opened, QueueRefs,
                   fileVars, scan, failures>>

\* The event is set, after the lock is left, and the call returns.
SignalWorker(p) ==
    /\ client[p] = "signal"
    /\ WorkNotificationEvent' = WorkNotificationEvent \union {p}
    /\ ClientAt(p, "idle") /\ call' = [call EXCEPT ![p] = None] /\ AddRefs(p, -1)
    /\ UNCHANGED <<WorkThreadInitialized, WorkQueue, WorkQueueLock, worker, item, calls, opened,
                   asked, fileVars, scan, failures>>

Queueing(p) == EnterQueue(p) \/ WorkerStarted(p) \/ SignalWorker(p)

-----------------------------------------------------------------------------
(* The worker.                                                             *)

workerOther == <<clientVars, scan>>

WorkerStarts(p) ==
    /\ worker[p] = "starting" /\ WorkerAt(p, "wait")
    /\ UNCHANGED <<WorkThreadInitialized, WorkQueue, WorkQueueLock, WorkNotificationEvent, item,
                   QueueRefs, workerOther, fileVars, failures>>

\* The wait: the event is an auto-reset one; a wait that fails ends the thread,
\* outside the lock and whatever is on the queue.
WorkerWaits(p) ==
    /\ worker[p] = "wait"
    /\ \/ /\ p \in WorkNotificationEvent
          /\ WorkNotificationEvent' = WorkNotificationEvent \ {p} /\ WorkerAt(p, "next")
          /\ UNCHANGED <<WorkThreadInitialized, failures>>
       \/ /\ Fails
          /\ WorkThreadInitialized' = [WorkThreadInitialized EXCEPT ![p] = 0]
          /\ WorkerAt(p, "none") /\ UNCHANGED WorkNotificationEvent
    /\ UNCHANGED <<WorkQueue, WorkQueueLock, item, QueueRefs, workerOther, fileVars>>

WorkerTimesOut(p) ==
    /\ worker[p] = "wait" /\ p \notin WorkNotificationEvent
    /\ WorkerAt(p, "timeout")
    /\ UNCHANGED <<WorkThreadInitialized, WorkQueue, WorkQueueLock, WorkNotificationEvent, item,
                   QueueRefs, workerOther, fileVars, failures>>

\* Mutant of WorkerEnds: the queue is not looked at.
WorkerEndsAnyway(p) ==
    /\ worker[p] = "timeout" /\ p \notin WorkQueueLock
    /\ WorkThreadInitialized' = [WorkThreadInitialized EXCEPT ![p] = 0]
    /\ WorkerAt(p, "none")
    /\ UNCHANGED <<WorkQueue, WorkQueueLock, WorkNotificationEvent, item, QueueRefs,
                   workerOther, fileVars, failures>>

\* In the lock: with nothing on the queue the thread ends.
WorkerEnds(p) ==
    /\ worker[p] = "timeout" /\ p \notin WorkQueueLock
    /\ IF WorkQueue[p] = <<>>
       THEN /\ WorkThreadInitialized' = [WorkThreadInitialized EXCEPT ![p] = 0]
            /\ WorkerAt(p, "none")
       ELSE WorkerAt(p, "wait") /\ UNCHANGED WorkThreadInitialized
    /\ UNCHANGED <<WorkQueue, WorkQueueLock, WorkNotificationEvent, item, QueueRefs,
                   workerOther, fileVars, failures>>

\* In the lock: the first item is taken, or the thread waits again.
WorkerNext(p) ==
    /\ worker[p] = "next" /\ p \notin WorkQueueLock
    /\ IF WorkQueue[p] = <<>>
       THEN WorkerAt(p, "wait") /\ UNCHANGED <<WorkQueue, item>>
       ELSE /\ WorkQueue' = [WorkQueue EXCEPT ![p] = Tail(@)]
            /\ item' = [item EXCEPT ![p] = Head(WorkQueue[p])]
            /\ WorkerAt(p, "open")
    /\ UNCHANGED <<WorkThreadInitialized, WorkQueueLock, WorkNotificationEvent, QueueRefs,
                   workerOther, fileVars, failures>>

-----------------------------------------------------------------------------
(* FqiExecuteWorkItem.                                                     *)

executeOther == <<WorkThreadInitialized, WorkQueue, WorkQueueLock, WorkNotificationEvent, workerOther>>

Name(p) == item[p].name
Bucket(p) == FqiCreateFileNameHash[Name(p)]

\* Mutant of FqiDestroyWorkItem: an item that has been taken keeps its reference.
FqiDestroyWorkItemOnly(p) ==
    item' = [item EXCEPT ![p] = None] /\ WorkerAt(p, "next") /\ UNCHANGED QueueRefs

\* The item is done with, whatever came of it.
FqiDestroyWorkItem(p) ==
    item' = [item EXCEPT ![p] = None] /\ WorkerAt(p, "next") /\ AddRefs(p, -1)

\* The item is without effect.
Drops(p) == lost' = lost \union {Name(p)}

\* CreateFile: FqiWriteFileQueueFile creates the file if it has to, and
\* FqiDeleteFileQueueFile has nothing to do without one.  Neither opens a file
\* that is being deleted, and nobody learns of it.
WorkerOpens(p) ==
    LET b == Bucket(p) IN
    /\ worker[p] = "open"
    /\ \/ /\ files[b] # "deleting"
          /\ files[b] = "none" => item[p].type = "WRITERECORD"
          /\ files' = [files EXCEPT ![b] = "present"]
          /\ IF files[b] = "none" THEN Changes ELSE UNCHANGED changed
          /\ OpenFile(Worker(p), b) /\ WorkerAt(p, "lock")
          /\ UNCHANGED <<item, QueueRefs, lost, failures>>
       \/ /\ files[b] # "present" /\ item[p].type = "DELETERECORD"
          /\ lost' = lost \ {Name(p)}
          /\ FqiDestroyWorkItem(p) /\ UNCHANGED <<files, handles, changed, failures>>
       \/ /\ \/ files[b] = "deleting" /\ item[p].type = "WRITERECORD" /\ UNCHANGED failures
             \/ Fails
          /\ Drops(p) /\ FqiDestroyWorkItem(p) /\ UNCHANGED <<files, handles, changed>>
    /\ UNCHANGED <<LastModified, corrupt, locks, clock, watched, executeOther>>

WorkerLocks(p) ==
    /\ worker[p] = "lock"
    /\ LockFile(Worker(p), Bucket(p), "exclusive") /\ WorkerAt(p, "write")
    /\ UNCHANGED <<files, LastModified, corrupt, handles, clock, watched, changed, lost, failures,
                   item, QueueRefs, executeOther>>

\* The record is written over the one of the same name, which may be found in
\* front of what is corrupt, or behind the last; in a file that is being deleted
\* it is written for nothing.
WriteRecord(p) ==
    /\ item[p].type = "WRITERECORD" /\ WorkerAt(p, "close")
    /\ Readable(Bucket(p)) \/ LastModified[Name(p)] > 0
    /\ clock' = FqGetLastModifiedTime
    /\ LastModified' = [LastModified EXCEPT ![Name(p)] = clock']
    /\ IF files[Bucket(p)] = "present" THEN lost' = lost \ {Name(p)} ELSE Drops(p)
    /\ Changes /\ UNCHANGED <<files, corrupt, failures>>

\* The other records of the file are written back, or if there are none the
\* file is deleted.  A short write leaves it corrupt.
DeleteRecord(p) ==
    LET b == Bucket(p)
        others == {n \in NamesIn(b) \ {Name(p)} : LastModified[n] > 0} IN
    /\ item[p].type = "DELETERECORD" /\ Readable(b)
    /\ \/ /\ others = {} /\ WorkerAt(p, "close")
          /\ files' = [files EXCEPT ![b] = "deleting"]
          /\ UNCHANGED <<LastModified, corrupt, changed, failures>>
       \/ /\ others # {} /\ WorkerAt(p, "close")
          /\ LastModified' = [LastModified EXCEPT ![Name(p)] = 0]
          /\ Changes /\ UNCHANGED <<files, corrupt, failures>>
       \/ /\ others # {} /\ Fails /\ WorkerAt(p, "corrupt")
          /\ corrupt' = corrupt \union {b}
          /\ Changes /\ UNCHANGED <<files, LastModified>>
    /\ lost' = (lost \ {Name(p)}) \union (IF corrupt' # corrupt THEN others ELSE {})
    /\ UNCHANGED clock

\* With the file locked.  One that cannot be read or written is left as it is.
WorkerWrites(p) ==
    /\ worker[p] = "write"
    /\ \/ WriteRecord(p) \/ DeleteRecord(p)
       \/ /\ \/ ~Readable(Bucket(p)) /\ WorkerAt(p, "corrupt") /\ UNCHANGED failures
             \/ Fails /\ WorkerAt(p, "close")
          /\ Drops(p)
          /\ UNCHANGED <<files, LastModified, corrupt, clock, changed>>
    /\ UNCHANGED <<handles, locks, watched, item, QueueRefs, executeOther>>

WorkerCloses(p) ==
    /\ worker[p] \in {"close", "corrupt"}
    /\ UnlockAndClose(Worker(p), Bucket(p))
    /\ IF worker[p] = "corrupt" THEN WorkerAt(p, "delete") /\ UNCHANGED <<item, QueueRefs>>
       ELSE FqiDestroyWorkItem(p)
    /\ UNCHANGED <<clock, watched, lost, failures, executeOther>>

WorkerDeletes(p) ==
    /\ worker[p] = "delete"
    /\ DeleteCorrupt(Bucket(p)) /\ FqiDestroyWorkItem(p)
    /\ UNCHANGED <<failures, executeOther>>

Work(p) ==
    \/ WorkerStarts(p) \/ WorkerWaits(p) \/ WorkerEnds(p) \/ WorkerNext(p)
    \/ WorkerOpens(p) \/ WorkerLocks(p) \/ WorkerWrites(p) \/ WorkerCloses(p)
    \/ WorkerDeletes(p)
=============================================================================
