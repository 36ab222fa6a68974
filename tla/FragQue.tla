------------------------------ MODULE FragQue ------------------------------
(***************************************************************************)
(* The notification queue library FragQue.Dll: its clients queue files and *)
(* take them off, enumerate the queue, and have a thread tell them of what *)
(* is queued.  The queue context counts its users, and so does the         *)
(* notification context, which is one of them.                             *)
(***************************************************************************)
EXTENDS WorkQueue, Functions

CONSTANTS
    Enumerators,        \* the processes whose client enumerates the queue
    Watchers,           \* the processes whose client registers
    Slack               \* how much a scan goes back (100 * 1000)

ASSUME QueueAssumption ==
    /\ FqiCreateFileNameHash \in [Names -> Buckets] /\ Owner \in [Names -> Processes]
    /\ {MaxCalls, MaxFailures, Slack} \subseteq Nat
    /\ Watchers \union Enumerators \subseteq Processes
    /\ Earlier \subseteq Names /\ None \notin Names \union WorkItems

VARIABLES
    notifier,           \* notifier[p]: where the notification thread is
    handle,             \* handle[p]: the client's handle: "none", "held", "leaked", "released"
    NotificationEvent,  \* the processes whose thread is to end
    StartTime,          \* the time before the last scan
    NotifyRefs,         \* ReferenceCount of the notification context
    told,               \* told[p][n]: the last time the client was told for n
    late                \* the callbacks since the client unregistered

notifyVars == <<notifier, handle, NotificationEvent, StartTime, NotifyRefs, told, late>>
queueVars == <<fileVars, scan, failures, workVars, clientVars, QueueRefs, notifyVars>>

QueueInit ==
    /\ FileInit /\ WorkInit
    /\ notifier = [p \in Processes |-> "none"] /\ handle = [p \in Processes |-> "none"]
    /\ NotificationEvent = {}
    /\ StartTime = [p \in Processes |-> 0] /\ NotifyRefs = [p \in Processes |-> 0]
    /\ told = [p \in Processes |-> [n \in Names |-> 0]]
    /\ late = [p \in Processes |-> 0]

NotifierAt(p, l) == notifier' = [notifier EXCEPT ![p] = l]

\* FqiReleaseNotificationContext: the last reference gives up the queue context.
ReleaseNotify(p) ==
    /\ NotifyRefs' = [NotifyRefs EXCEPT ![p] = @ - 1]
    /\ IF NotifyRefs[p] = 1 THEN AddRefs(p, -1) ELSE UNCHANGED QueueRefs

-----------------------------------------------------------------------------
(* The client's other calls.                                               *)

FqEnumerateQueue(p) ==
    /\ p \in Enumerators /\ Calls(p) /\ scan[Client(p)].at = "idle"
    /\ StartScan(Client(p), 0) /\ AddRefs(p, 1)
    /\ UNCHANGED <<fileVars, failures, workVars, client, call, opened, asked, notifyVars>>

EnumCallback(p) ==
    /\ ScanRecord(Client(p), "callback")
    /\ UNCHANGED <<fileVars, failures, workVars, clientVars, QueueRefs, notifyVars>>

EnumCallbackReturns(p) ==
    /\ scan[Client(p)].at = "callback" /\ client[p] = "idle"
    /\ \E continue \in BOOLEAN : CallbackReturns(Client(p), continue)
    /\ UNCHANGED <<fileVars, failures, workVars, clientVars, QueueRefs, notifyVars>>

EnumReturns(p) ==
    /\ ScanEnds(Client(p))
    /\ scan' = [scan EXCEPT ![Client(p)] = NoScan] /\ AddRefs(p, -1)
    /\ UNCHANGED <<fileVars, failures, workVars, clientVars, notifyVars>>

\* The thread gets the context with a reference for the caller and one for this
\* function.  If it cannot be started the caller's is never given back.  A
\* client that passes no time knows the records up to now.
FqRegisterQueueNotification(p) ==
    /\ p \in Watchers /\ p \in opened /\ client[p] = "idle"
    /\ scan[Client(p)].at = "idle" /\ handle[p] = "none"
    /\ \/ /\ \E now \in BOOLEAN :
                /\ clock' = IF now THEN FqGetLastModifiedTime ELSE clock
                /\ StartTime' = [StartTime EXCEPT ![p] = IF now THEN clock' ELSE 0]
                /\ told' = [told EXCEPT ![p] = [n \in Names |-> StartTime'[p]]]
          /\ NotifyRefs' = [NotifyRefs EXCEPT ![p] = 2]
          /\ AddRefs(p, 2)
          /\ NotifierAt(p, "starting") /\ ClientAt(p, "registering")
          /\ UNCHANGED <<handle, failures>>
       \/ /\ Fails
          /\ NotifyRefs' = [NotifyRefs EXCEPT ![p] = 1]
          /\ AddRefs(p, 1)
          /\ handle' = [handle EXCEPT ![p] = "leaked"]
          /\ UNCHANGED <<clock, StartTime, told, notifier, client>>
    /\ UNCHANGED <<files, LastModified, corrupt, handles, locks, watched, changed, lost, scan,
                   workVars, call, calls, opened, asked, NotificationEvent, late>>

RegisterReturns(p) ==
    /\ client[p] = "registering" /\ notifier[p] # "starting"
    /\ NotifyRefs' = [NotifyRefs EXCEPT ![p] = @ - 1] /\ AddRefs(p, -1)
    /\ handle' = [handle EXCEPT ![p] = "held"] /\ ClientAt(p, "idle")
    /\ UNCHANGED <<fileVars, failures, scan, workVars, call, calls, opened, asked, notifier,
                   NotificationEvent, StartTime, told, late>>

FqUnregisterQueueNotification(p) ==
    /\ handle[p] = "held" /\ client[p] = "idle"
    /\ NotificationEvent' = NotificationEvent \union {p}
    /\ ReleaseNotify(p)
    /\ handle' = [handle EXCEPT ![p] = "released"]
    /\ UNCHANGED <<fileVars, failures, scan, workVars, clientVars, notifier, StartTime, told, late>>

FqUninitialize(p) ==
    /\ Calls(p) /\ scan[Client(p)].at = "idle"
    /\ opened' = opened \ {p} /\ AddRefs(p, -1)
    /\ UNCHANGED <<fileVars, failures, scan, workVars, client, call, asked, notifyVars>>

CallClient(p) ==
    \/ FqInsertFile(p) /\ UNCHANGED notifyVars
    \/ FqEnumerateQueue(p)
    \/ FqRegisterQueueNotification(p) \/ FqUnregisterQueueNotification(p) \/ FqUninitialize(p)

\* The steps of a call under way.
InCall(p) ==
    \/ Queueing(p) /\ UNCHANGED notifyVars
    \/ EnumCallback(p) \/ EnumCallbackReturns(p) \/ EnumReturns(p) \/ RegisterReturns(p)

-----------------------------------------------------------------------------
(* The notification thread.                                                *)

notifierOther == <<workVars, clientVars, handle, NotificationEvent>>

\* FindFirstChangeNotification; its failure is not noticed.
NotifierStarts(p) ==
    /\ notifier[p] = "starting" /\ NotifierAt(p, "scan")
    /\ NotifyRefs' = [NotifyRefs EXCEPT ![p] = @ + 1]
    /\ watched' = watched \union {p}
    /\ UNCHANGED <<files, LastModified, corrupt, handles, locks, clock, changed, lost, scan,
                   failures, QueueRefs, StartTime, told, late, notifierOther>>

\* Mutant of NotifierScans: what was read since the last scan is taken for old.
NotifierScansFromNow(p) ==
    /\ notifier[p] = "scan"
    /\ clock' = FqGetLastModifiedTime /\ StartTime' = [StartTime EXCEPT ![p] = clock']
    /\ StartScan(Notifier(p), clock')
    /\ NotifierAt(p, "scanning")
    /\ UNCHANGED <<files, LastModified, corrupt, handles, locks, watched, changed, lost,
                   failures, QueueRefs, NotifyRefs, told, late, notifierOther>>

\* The time is read before the scan.  Without the client's token there is none.
NotifierScans(p) ==
    /\ notifier[p] = "scan"
    /\ clock' = FqGetLastModifiedTime /\ StartTime' = [StartTime EXCEPT ![p] = clock']
    /\ \/ /\ StartScan(Notifier(p), IF StartTime[p] > Slack THEN StartTime[p] - Slack ELSE 0)
          /\ UNCHANGED failures
       \/ Fails /\ Step(Notifier(p), [scan[Notifier(p)] EXCEPT !.at = "files"])
    /\ NotifierAt(p, "scanning")
    /\ UNCHANGED <<files, LastModified, corrupt, handles, locks, watched, changed, lost,
                   QueueRefs, NotifyRefs, told, late, notifierOther>>

\* Mutant of NotifierChecks: without the check.
NotifierTells(p) ==
    /\ ScanRecord(Notifier(p), "callback")
    /\ UNCHANGED <<fileVars, failures, QueueRefs, notifier, StartTime, NotifyRefs, told, late,
                   notifierOther>>

\* FqiNotificationThreadEnumQueueRoutine: with the last reference its own the
\* thread tells nobody.
NotifierChecks(p) ==
    /\ IF NotifyRefs[p] = 1
       THEN /\ scan[Notifier(p)].at = "read" /\ scan[Notifier(p)].names # {}
            /\ CallbackReturns(Notifier(p), FALSE)
       ELSE ScanRecord(Notifier(p), "callback")
    /\ UNCHANGED <<fileVars, failures, QueueRefs, notifier, StartTime, NotifyRefs, told, late,
                   notifierOther>>

NotificationCallback(p) ==
    LET n == scan[Notifier(p)].name IN
    /\ scan[Notifier(p)].at = "callback"
    /\ CallbackReturns(Notifier(p), TRUE)
    /\ told' = [told EXCEPT ![p][n] = LastModified[n]]
    /\ late' = [late EXCEPT ![p] = IF handle[p] = "released" THEN @ + 1 ELSE @]
    /\ UNCHANGED <<fileVars, failures, QueueRefs, notifier, StartTime, NotifyRefs, notifierOther>>

\* FindNextChangeNotification.
NotifierScanned(p) ==
    /\ notifier[p] = "scanning" /\ ScanEnds(Notifier(p))
    /\ scan' = [scan EXCEPT ![Notifier(p)] = NoScan]
    /\ NotifierAt(p, "wait")
    /\ UNCHANGED <<fileVars, failures, QueueRefs, StartTime, NotifyRefs, told, late, notifierOther>>

\* The event goes before the change; an error ends the thread.
NotifierWaits(p) ==
    /\ notifier[p] = "wait"
    /\ \/ /\ p \in NotificationEvent
          /\ NotifierAt(p, "exit") /\ UNCHANGED <<changed, failures>>
       \/ /\ p \notin NotificationEvent /\ p \in changed
          /\ changed' = changed \ {p} /\ NotifierAt(p, "scan") /\ UNCHANGED failures
       \/ Fails /\ NotifierAt(p, "exit") /\ UNCHANGED changed
    /\ UNCHANGED <<files, LastModified, corrupt, handles, locks, clock, watched, lost, scan,
                   QueueRefs, StartTime, NotifyRefs, told, late, notifierOther>>

NotifierExits(p) ==
    /\ notifier[p] = "exit" /\ NotifierAt(p, "none")
    /\ watched' = watched \ {p} /\ changed' = changed \ {p}
    /\ ReleaseNotify(p)
    /\ UNCHANGED <<files, LastModified, corrupt, handles, locks, clock, lost, scan, failures,
                   StartTime, told, late, notifierOther>>

Notify(p) ==
    \/ NotifierStarts(p) \/ NotifierScans(p) \/ NotifierChecks(p) \/ NotificationCallback(p)
    \/ NotifierScanned(p) \/ NotifierWaits(p) \/ NotifierExits(p)

-----------------------------------------------------------------------------
ScanFiles(s) ==
    Scan(s) /\ UNCHANGED <<workVars, clientVars, QueueRefs, notifyVars>>

QueueNext ==
    \E p \in Processes :
        \/ CallClient(p) \/ InCall(p) \/ Notify(p)
        \/ ScanFiles(Client(p)) \/ ScanFiles(Notifier(p))
        \/ (Work(p) \/ WorkerTimesOut(p)) /\ UNCHANGED notifyVars

QueueSpec == QueueInit /\ [][QueueNext]_queueVars

\* Threads are scheduled and callbacks return.  Nobody has to call, and a wait
\* does not have to time out.
Fairness ==
    \A p \in Processes :
        /\ WF_queueVars(InCall(p) \/ ScanFiles(Client(p)))
        /\ WF_queueVars(Notify(p) \/ ScanFiles(Notifier(p)))
        /\ WF_queueVars(Work(p) /\ UNCHANGED notifyVars)

QueueFairSpec == QueueSpec /\ Fairness

-----------------------------------------------------------------------------
(* Properties.                                                             *)

Count(condition) == IF condition THEN 1 ELSE 0

\* The contexts count their users: none is freed while a call, a work item or
\* the thread uses it, and none is kept without one.
ContextsCounted ==
    \A p \in Processes :
        /\ QueueRefs[p] =
              Count(p \in opened) + Count(scan[Client(p)].at # "idle")
              + Count(client[p] # "idle") + Count(client[p] \in {"enter", "starting"})
              + Len(WorkQueue[p]) + Count(item[p] # None) + Count(NotifyRefs[p] > 0)
        /\ NotifyRefs[p] =
              Count(handle[p] \in {"held", "leaked"}) + 2 * Count(client[p] = "registering")
              + Count(notifier[p] \notin {"none", "starting"})

Pending(p, n) == \E i \in {item[p]} \union Range(WorkQueue[p]) : i # None /\ i.name = n

\* When the worker is done with a file, it is queued if and only if the client
\* asked for that last.  Items are lost by a failure, a corrupt file, or a file
\* being deleted while somebody else had it open.
FilesAsAsked ==
    \A n \in Names :
        Pending(Owner[n], n) \/ n \in lost
            \/ (Recorded(n) <=> asked[n] = "WRITERECORD")

\* A thread that waits has told its client of every record: what was written
\* while it scanned wakes it again, and is not too old for the next scan.
AllTold ==
    \A p \in Watchers, n \in Names :
        /\ notifier[p] = "wait" /\ p \notin changed
        /\ handle[p] = "held" /\ failures = 0 /\ Recorded(n)
        => told[p][n] >= LastModified[n]

\* Once the client has unregistered, at most one more callback arrives.
LateOnce == \A p \in Processes : late[p] <= 1

\* Every item is executed in the end, although its client holds a lock on the
\* file when it queues it from a callback, and the worker may be about to end.
ItemsExecuted ==
    <>[](failures > 0 \/ \A p \in Processes : WorkQueue[p] = <<>> /\ item[p] = None)
=============================================================================
