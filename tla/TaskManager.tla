---------------------------- MODULE TaskManager ----------------------------
(***************************************************************************)
(* The queue manager's task engine, FragMgx.Exe/TaskMgr.cpp, driven by its *)
(* dialog, FragMgx.Exe/TaskDlg2.cpp.                                       *)
(*                                                                         *)
(* Three threads: the dialog's (ui), which inserts files, pauses, cancels, *)
(* answers the messages the others send it and at last tears the engine    *)
(* down; the defrag thread (d), which takes records off the queue and has  *)
(* the service defragment them; and the directory thread (e), which the    *)
(* defrag thread starts for the first directory and which inserts what it  *)
(* finds there.  An update from the service runs while the defrag thread   *)
(* is inside DefragmentFile and is a part of that thread here.             *)
(*                                                                         *)
(* A step is what one thread does up to the next access to shared state    *)
(* that another thread can tell apart; a section under a spin lock is one  *)
(* step.  Left out: texts and timers of the dialog (its auto-close is a    *)
(* shutdown like any other), insertions by COM clients, and a service that *)
(* gives up a call while its update is still in the client.                *)
(***************************************************************************)
EXTENDS Naturals, Sequences, FiniteSets, SequencesExt

CONSTANTS
    Files,      \* files the user adds
    Dirs,       \* directories the user adds
    Children,   \* files to be found in the directories
    NoRecord    \* no QUEUEFILE record

Records == Files \union Dirs \union Children

ASSUME RecordsAssumption ==
    /\ Files \intersect Dirs = {} /\ Children \intersect (Files \union Dirs) = {}
    /\ NoRecord \notin Records

VARIABLES
    queue,              \* _DefragQueue
    dirQueue,           \* _DirectoryQueue
    flushing,           \* the work queue of _FlushDefragQueue
    cur,                \* the record the defrag thread has taken
    dirCur,             \* the record the directory thread has taken
    freed,              \* records destroyed
    defragSignal,       \* _hDefragSignal, manual reset
    enumSignal,         \* _hEnumDirSignal, manual reset
    suspendEvent,       \* _hSuspend, auto reset
    suspendRequested,   \* _dwWaitTimeout is INFINITE, not 0
    dwState,            \* _dwState
    hooked,             \* _pQueueCallback and _pDefragCallback are set
    shutdown,           \* the dialog's status is TSF_SHUTDOWN
    window,             \* the dialog's window exists
    bSuspend, bCancel, bCancelAll,
    controls,           \* the Pause and Cancel buttons are enabled
    log,                \* log[r]: the last update the dialog took for r
    dAt, dCode, dResult, dMultiple,
    eAt, eMultiple,
    uiAt

recordVars == <<queue, dirQueue, flushing, cur, dirCur, freed>>
signalVars == <<defragSignal, enumSignal>>
suspendVars == <<suspendEvent, suspendRequested>>
engineVars == <<dwState, hooked>>
dlgVars == <<shutdown, window, bSuspend, bCancel, bCancelAll, controls, log>>
dVars == <<dAt, dCode, dResult, dMultiple>>
eVars == <<eAt, eMultiple>>
vars == <<recordVars, signalVars, suspendVars, engineVars, dlgVars, dVars,
          eVars, uiAt>>

DefragPCs == {"wait", "backoff", "drain", "pop", "post", "sleep", "sent",
              "answered", "service", "signal", "pause", "delay", "suspended", "exited"}
EnumPCs == {"none", "wait", "pop", "enum", "signal", "sent", "pause", "delay",
            "suspended"}
DialogPCs == {"loop", "insert", "suspend", "resume", "flush", "flushing",
              "asleep", "unhook", "peek", "destroy",
              "terminate", "resume0", "setSuspend", "setDefrag", "join", "empty",
              "finish", "closed"}
Codes == {"initializing", "defragmenting", "completed"}
Results == {"ok", "failed", "retry"}

Terminating == dwState = "terminating"
DefragGoto(to) == dAt' = to /\ UNCHANGED <<dCode, dResult, dMultiple>>
EnumGoto(to) == eAt' = to /\ UNCHANGED eMultiple

Known == ToSet(queue) \union ToSet(dirQueue) \union ToSet(flushing)
             \union {cur, dirCur} \union freed

KnownTotal == Cardinality(Known \ {NoRecord})

Init ==
    /\ queue = <<>> /\ dirQueue = <<>> /\ flushing = <<>>
    /\ cur = NoRecord /\ dirCur = NoRecord /\ freed = {}
    /\ defragSignal = FALSE /\ enumSignal = FALSE
    /\ suspendEvent = FALSE /\ suspendRequested = FALSE
    /\ dwState = "initialized" /\ hooked = TRUE
    /\ shutdown = FALSE /\ window = TRUE
    /\ bSuspend = FALSE /\ bCancel = FALSE /\ bCancelAll = FALSE
    /\ controls = FALSE
    /\ log = [r \in Records |-> "none"]
    /\ dAt = "wait" /\ dCode = "completed" /\ dResult = "ok" /\ dMultiple = FALSE
    /\ eAt = "none" /\ eMultiple = FALSE
    /\ uiAt = "loop"

-----------------------------------------------------------------------------
(* The defrag thread: _DefragThreadHandler and _ProcessDefragQueue.        *)

\* The wait ends with the signal or after TM_WAIT_INTERVAL.
DefragWake ==
    /\ dAt \in {"wait", "backoff"}
    /\ IF Terminating
       THEN DefragGoto("exited") /\ UNCHANGED defragSignal
       ELSE DefragGoto("drain") /\ defragSignal' = FALSE
    /\ UNCHANGED <<recordVars, enumSignal, suspendVars, engineVars, dlgVars, eVars, uiAt>>

DefragDrain ==
    /\ dAt = "drain" /\ queue = <<>>
    /\ DefragGoto("wait")
    /\ UNCHANGED <<recordVars, signalVars, suspendVars, engineVars, dlgVars, eVars, uiAt>>

\* FSxManagerQueryService and SetCallbackInterface; the queue stays as it is
\* when they fail, until the next wait times out ("backoff").
Connect ==
    /\ dAt = "drain" /\ queue # <<>>
    /\ DefragGoto("pop")
    /\ UNCHANGED <<recordVars, signalVars, suspendVars, engineVars, dlgVars, eVars, uiAt>>

ConnectFails ==
    /\ dAt = "drain" /\ queue # <<>>
    /\ DefragGoto("backoff")
    /\ UNCHANGED <<recordVars, signalVars, suspendVars, engineVars, dlgVars, eVars, uiAt>>

DefragPop ==
    /\ dAt = "pop"
    /\ IF Terminating \/ queue = <<>>
       THEN /\ DefragGoto("wait")
            /\ UNCHANGED <<queue, cur>>
       ELSE /\ cur' = Head(queue)
            /\ queue' = Tail(queue)
            /\ dMultiple' = (Len(queue) > 1)
            /\ dAt' = "post" /\ dCode' = "initializing"
            /\ UNCHANGED dResult
    /\ UNCHANGED <<dirQueue, flushing, dirCur, freed, signalVars, suspendVars,
                   engineVars, dlgVars, eVars, uiAt>>

\* _TaskDefragUpdateRoutine: SendMessage, unless the dialog shuts down.
SendUpdate ==
    /\ IF shutdown
       THEN dAt' = "answered" /\ dResult' = "failed"
       ELSE dAt' = "sent" /\ UNCHANGED dResult
    /\ UNCHANGED <<dCode, dMultiple>>

\* One turn of the loop of _PostDefragUpdate: _DoWaitResume(0), then the routine.
WaitAndSend ==
    /\ suspendRequested' = FALSE
    /\ IF suspendRequested THEN DefragGoto("sleep") ELSE SendUpdate

DefragPost ==
    /\ dAt = "post"
    /\ IF Terminating \/ ~hooked
       THEN /\ dAt' = "answered" /\ dResult' = "failed"
            /\ UNCHANGED <<dCode, dMultiple, suspendRequested>>
       ELSE WaitAndSend
    /\ UNCHANGED <<recordVars, signalVars, suspendEvent, engineVars, dlgVars, eVars, uiAt>>

DefragResumed ==
    /\ suspendEvent
    /\ suspendEvent' = FALSE
    /\ \/ dAt = "sleep" /\ SendUpdate
       \/ dAt = "suspended" /\ DefragGoto("pop")
    /\ UNCHANGED <<recordVars, signalVars, suspendRequested, engineVars, dlgVars,
                   eVars, uiAt>>

\* SendMessage to a window that is gone returns 0.
DefragSendLost ==
    /\ dAt = "sent" /\ ~window
    /\ dAt' = "answered" /\ dResult' = "ok"
    /\ UNCHANGED <<dCode, dMultiple, recordVars, signalVars, suspendVars,
                   engineVars, dlgVars, eVars, uiAt>>

Retry ==
    /\ dAt = "answered" /\ dResult = "retry" /\ ~Terminating
    /\ WaitAndSend
    /\ UNCHANGED <<recordVars, signalVars, suspendEvent, engineVars, dlgVars, eVars, uiAt>>

\* The engine is terminating: the record is destroyed and the loop left.
Abandon ==
    /\ cur' = NoRecord
    /\ freed' = freed \union {cur}
    /\ DefragGoto("wait")
    /\ UNCHANGED <<queue, dirQueue, flushing, dirCur>>

PostCompleted(result) ==
    /\ dAt' = "post" /\ dCode' = "completed" /\ dResult' = result
    /\ UNCHANGED <<dMultiple, recordVars>>

\* The file was announced; DefragmentFile, if that went well.
Initialized ==
    /\ dAt = "answered" /\ dCode = "initializing"
    /\ \/ Terminating /\ Abandon
       \/ ~Terminating /\ dResult = "ok" /\ DefragGoto("service") /\ UNCHANGED recordVars
       \/ ~Terminating /\ dResult # "ok" /\ PostCompleted(dResult)
    /\ UNCHANGED <<signalVars, suspendVars, engineVars, dlgVars, eVars, uiAt>>

\* OnDefragmentFileUpdate, called by the service ...
ServiceUpdates ==
    /\ dAt = "service" /\ dResult = "ok"
    /\ dAt' = "post" /\ dCode' = "defragmenting"
    /\ UNCHANGED <<dResult, dMultiple, recordVars, signalVars, suspendVars,
                   engineVars, dlgVars, eVars, uiAt>>

\* ... and back in it.
Updated ==
    /\ dAt = "answered" /\ dCode = "defragmenting"
    /\ dResult = "retry" => Terminating
    /\ DefragGoto("service")
    /\ UNCHANGED <<recordVars, signalVars, suspendVars, engineVars, dlgVars, eVars, uiAt>>

\* Mutant: a file that failed is not reported.
ServiceReturnsQuietly ==
    /\ dAt = "service"
    /\ IF Terminating
       THEN Abandon
       ELSE \/ dResult = "ok" /\ PostCompleted("ok")
            \/ /\ dAt' = "answered" /\ dCode' = "completed" /\ dResult' = "failed"
               /\ UNCHANGED <<dMultiple, recordVars>>
    /\ UNCHANGED <<signalVars, suspendVars, engineVars, dlgVars, eVars, uiAt>>

\* The service is done, or failed, or gave up because an update did.
ServiceReturns ==
    /\ dAt = "service"
    /\ IF Terminating
       THEN Abandon
       ELSE (dResult = "ok" /\ PostCompleted("ok")) \/ PostCompleted("failed")
    /\ UNCHANGED <<signalVars, suspendVars, engineVars, dlgVars, eVars, uiAt>>

AfterRecord == IF dMultiple THEN "pause" ELSE "pop"

\* Mutant: a directory's record is destroyed as well as handed on.
RouteAndDestroy ==
    /\ dAt = "answered" /\ dCode = "completed" /\ cur \in Dirs
    /\ eAt' = IF eAt = "none" THEN "wait" ELSE eAt
    /\ dirQueue' = Append(dirQueue, cur)
    /\ freed' = freed \union {cur}
    /\ cur' = NoRecord
    /\ DefragGoto("signal")
    /\ UNCHANGED <<queue, flushing, dirCur, signalVars, suspendVars,
                   engineVars, dlgVars, eMultiple, uiAt>>

\* The record of a directory the user added goes to the directory thread ...
RouteToEnum ==
    /\ dAt = "answered" /\ dCode = "completed" /\ cur \in Dirs
    /\ eAt' = IF eAt = "none" THEN "wait" ELSE eAt
    /\ dirQueue' = Append(dirQueue, cur)
    /\ cur' = NoRecord
    /\ DefragGoto("signal")
    /\ UNCHANGED <<queue, flushing, dirCur, freed, signalVars, suspendVars,
                   engineVars, dlgVars, eMultiple, uiAt>>

\* Mutant: if the thread cannot be started, the directory is tried again later.
RouteRequeue ==
    /\ dAt = "answered" /\ dCode = "completed"
    /\ cur \notin Dirs \/ eAt = "none"
    /\ queue' = IF cur \in Dirs THEN Append(queue, cur) ELSE queue
    /\ freed' = IF cur \in Dirs THEN freed ELSE freed \union {cur}
    /\ cur' = NoRecord
    /\ DefragGoto(AfterRecord)
    /\ UNCHANGED <<dirQueue, flushing, dirCur, signalVars, suspendVars,
                   engineVars, dlgVars, eVars, uiAt>>

\* ... and any other is destroyed, that one too if the thread cannot be started.
RouteDestroy ==
    /\ dAt = "answered" /\ dCode = "completed"
    /\ cur \notin Dirs \/ eAt = "none"
    /\ freed' = freed \union {cur}
    /\ cur' = NoRecord
    /\ DefragGoto(AfterRecord)
    /\ UNCHANGED <<queue, dirQueue, flushing, dirCur, signalVars, suspendVars,
                   engineVars, dlgVars, eVars, uiAt>>

SignalEnum ==
    /\ dAt = "signal"
    /\ enumSignal' = TRUE
    /\ DefragGoto(AfterRecord)
    /\ UNCHANGED <<recordVars, defragSignal, suspendVars, engineVars, dlgVars, eVars, uiAt>>

\* _DoWaitResume(TM_DELAY_INTERVAL): at least the delay, or until resumed.
DefragPause ==
    /\ dAt = "pause"
    /\ suspendRequested' = FALSE
    /\ DefragGoto(IF suspendRequested THEN "suspended" ELSE "delay")
    /\ UNCHANGED <<recordVars, signalVars, suspendEvent, engineVars, dlgVars, eVars, uiAt>>

\* The delay ends early with the event, which it consumes.
DefragDelay ==
    /\ dAt = "delay"
    /\ suspendEvent' = FALSE
    /\ DefragGoto("pop")
    /\ UNCHANGED <<recordVars, signalVars, suspendRequested, engineVars, dlgVars,
                   eVars, uiAt>>

-----------------------------------------------------------------------------
(* The directory thread: _EnumDirThreadHandler, _ProcessDirectoryQueue and *)
(* _EnumDirectoryCallback.  It runs until the process exits.               *)

Running == uiAt # "closed"

EnumWake ==
    /\ Running /\ eAt = "wait"
    /\ enumSignal' = FALSE
    /\ EnumGoto("pop")
    /\ UNCHANGED <<recordVars, defragSignal, suspendVars, engineVars, dlgVars, dVars, uiAt>>

EnumPop ==
    /\ Running /\ eAt = "pop"
    /\ IF dirQueue = <<>>
       THEN /\ EnumGoto("wait")
            /\ UNCHANGED <<dirQueue, dirCur>>
       ELSE /\ dirCur' = Head(dirQueue)
            /\ dirQueue' = Tail(dirQueue)
            /\ eMultiple' = (Len(dirQueue) > 1)
            /\ eAt' = "enum"
    /\ UNCHANGED <<queue, flushing, cur, freed, signalVars, suspendVars,
                   engineVars, dlgVars, dVars, uiAt>>

\* FpEnumDirectoryInformation finds a file: _InsertDefragQueueFile queues it ...
EnumFind ==
    /\ Running /\ eAt = "enum"
    /\ \E child \in Children \ Known : queue' = Append(queue, child)
    /\ EnumGoto("signal")
    /\ UNCHANGED <<dirQueue, flushing, cur, dirCur, freed, signalVars,
                   suspendVars, engineVars, dlgVars, dVars, uiAt>>

\* ... signals the defrag thread and sends the dialog a message.
EnumSignal ==
    /\ Running /\ eAt = "signal"
    /\ defragSignal' = TRUE
    /\ EnumGoto(IF Terminating \/ ~hooked \/ shutdown THEN "enum" ELSE "sent")
    /\ UNCHANGED <<recordVars, enumSignal, suspendVars, engineVars, dlgVars, dVars, uiAt>>

EnumSendLost ==
    /\ Running /\ eAt = "sent" /\ ~window
    /\ EnumGoto("enum")
    /\ UNCHANGED <<recordVars, signalVars, suspendVars, engineVars, dlgVars, dVars, uiAt>>

EnumDone ==
    /\ Running /\ eAt = "enum"
    /\ freed' = freed \union {dirCur}
    /\ dirCur' = NoRecord
    /\ EnumGoto(IF eMultiple THEN "pause" ELSE "pop")
    /\ UNCHANGED <<queue, dirQueue, flushing, cur, signalVars, suspendVars,
                   engineVars, dlgVars, dVars, uiAt>>

\* _DoWaitResume(TM_DELAY_INTERVAL) again, on the same event.
EnumPause ==
    /\ Running /\ eAt = "pause"
    /\ suspendRequested' = FALSE
    /\ EnumGoto(IF suspendRequested THEN "suspended" ELSE "delay")
    /\ UNCHANGED <<recordVars, signalVars, suspendEvent, engineVars, dlgVars, dVars, uiAt>>

EnumResumed ==
    /\ Running
    /\ eAt = "delay" \/ (eAt = "suspended" /\ suspendEvent)
    /\ suspendEvent' = FALSE
    /\ EnumGoto("pop")
    /\ UNCHANGED <<recordVars, signalVars, suspendRequested, engineVars, dlgVars,
                   dVars, uiAt>>

-----------------------------------------------------------------------------
(* The dialog, when the user acts.                                         *)

\* _EnableOperationControls(FALSE): "If we're in a suspend state, we can't
\* disable the controls".
DisableControls == controls' = (controls /\ bSuspend)

\* _UpdateFileCounters: "disable the controls that don't need to be now".
\* _cFileTotal follows from the records known, _cFileComplete from the log.
CountInserted(total) ==
    IF Cardinality({r \in Records : log[r] = "completed"}) >= total
    THEN DisableControls
    ELSE UNCHANGED controls

\* InsertQueueFile: the record is queued, then the defrag thread signaled.
Insert ==
    /\ uiAt = "loop"
    /\ \E r \in (Files \union Dirs) \ Known : queue' = Append(queue, r)
    /\ uiAt' = "insert"
    /\ UNCHANGED <<dirQueue, flushing, cur, dirCur, freed, signalVars,
                   suspendVars, engineVars, dlgVars, dVars, eVars>>

\* Mutant: the thread is left to find the file when its wait times out.
InsertSilent ==
    /\ uiAt = "insert"
    /\ CountInserted(IF eAt \in {"signal", "sent"} THEN KnownTotal - 1 ELSE KnownTotal)
    /\ uiAt' = "loop"
    /\ UNCHANGED <<recordVars, signalVars, suspendVars, engineVars, shutdown,
                   window, bSuspend, bCancel, bCancelAll, log, dVars, eVars>>

InsertSignal ==
    /\ uiAt = "insert"
    /\ defragSignal' = TRUE
    /\ CountInserted(IF eAt \in {"signal", "sent"} THEN KnownTotal - 1 ELSE KnownTotal)
    /\ uiAt' = "loop"
    /\ UNCHANGED <<recordVars, enumSignal, suspendVars, engineVars, shutdown,
                   window, bSuspend, bCancel, bCancelAll, log, dVars, eVars>>

\* IDC_PAUSE: Suspend(INFINITE) sets the time-out, then resets the event.
Pause ==
    /\ uiAt = "loop" /\ controls /\ ~bSuspend
    /\ bSuspend' = TRUE
    /\ suspendRequested' = TRUE
    /\ uiAt' = "suspend"
    /\ UNCHANGED <<recordVars, signalVars, suspendEvent, engineVars, shutdown,
                   window, bCancel, bCancelAll, controls, log, dVars, eVars>>

PauseReset ==
    /\ uiAt = "suspend"
    /\ suspendEvent' = FALSE
    /\ uiAt' = "loop"
    /\ UNCHANGED <<recordVars, signalVars, suspendRequested, engineVars, dlgVars,
                   dVars, eVars>>

\* IDC_PAUSE again: Resume clears the time-out, then sets the event.
ResumeClick ==
    /\ uiAt = "loop" /\ controls /\ bSuspend
    /\ bSuspend' = FALSE
    /\ suspendRequested' = FALSE
    /\ uiAt' = "resume"
    /\ UNCHANGED <<recordVars, signalVars, suspendEvent, engineVars, shutdown,
                   window, bCancel, bCancelAll, controls, log, dVars, eVars>>

ResumeSet ==
    /\ uiAt = "resume"
    /\ suspendEvent' = TRUE
    /\ uiAt' = "loop"
    /\ UNCHANGED <<recordVars, signalVars, suspendRequested, engineVars, dlgVars,
                   dVars, eVars>>

\* IDC_CANCEL, with SHIFT for all files; a paused engine is resumed.
Cancel ==
    /\ uiAt = "loop" /\ controls
    /\ bCancel' = TRUE
    /\ \E all \in BOOLEAN : bCancelAll' = (bCancelAll \/ all)
    /\ bSuspend' = FALSE
    /\ suspendRequested' = (~bSuspend /\ suspendRequested)
    /\ uiAt' = IF bSuspend THEN "resume" ELSE "loop"
    /\ controls' = FALSE
    /\ UNCHANGED <<recordVars, signalVars, suspendEvent, engineVars, shutdown,
                   window, log, dVars, eVars>>

-----------------------------------------------------------------------------
(* The dialog, when another thread sends it a message.                     *)

Answer(result) ==
    /\ dAt' = "answered" /\ dResult' = result
    /\ UNCHANGED <<dCode, dMultiple>>

TakeInitializing ==
    /\ uiAt = "loop" /\ dAt = "sent" /\ dCode = "initializing"
    /\ controls' = TRUE
    /\ log' = [log EXCEPT ![cur] = "initializing"]
    /\ Answer("ok")
    /\ UNCHANGED <<recordVars, signalVars, suspendVars, engineVars, shutdown,
                   window, bSuspend, bCancel, bCancelAll, eVars, uiAt>>

TakeProgress ==
    /\ uiAt = "loop" /\ dAt = "sent" /\ dCode = "defragmenting"
    /\ bCancel' = FALSE
    /\ Answer(IF bCancel THEN "failed" ELSE IF bSuspend THEN "retry" ELSE "ok")
    /\ log' = IF bCancel \/ bSuspend THEN log
              ELSE [log EXCEPT ![cur] = "defragmenting"]
    /\ UNCHANGED <<recordVars, signalVars, suspendVars, engineVars, shutdown,
                   window, bSuspend, bCancelAll, controls, eVars, uiAt>>

\* The end of a file; "it's safe to flush the queue now", if all are cancelled.
TakeCompleted ==
    /\ uiAt = "loop" /\ dAt = "sent" /\ dCode = "completed"
    /\ DisableControls
    /\ log' = [log EXCEPT ![cur] = "completed"]
    /\ bCancel' = FALSE
    /\ bCancelAll' = FALSE
    /\ IF bCancelAll
       THEN /\ flushing' = queue /\ queue' = <<>>
            /\ uiAt' = "flush"
            /\ UNCHANGED dVars
       ELSE /\ Answer("ok")
            /\ UNCHANGED <<flushing, queue, uiAt>>
    /\ UNCHANGED <<dirQueue, cur, dirCur, freed, signalVars, suspendVars,
                   engineVars, shutdown, window, bSuspend, eVars>>

\* ReplyMessage, then the counters.
TakeInserted ==
    /\ uiAt = "loop" /\ eAt = "sent"
    /\ EnumGoto("enum")
    /\ CountInserted(KnownTotal)
    /\ UNCHANGED <<recordVars, signalVars, suspendVars, engineVars, shutdown,
                   window, bSuspend, bCancel, bCancelAll, log, dVars, uiAt>>

\* _FlushDefragQueue: both updates of a record go to the dialog in the
\* dialog's own thread, and _DoWaitResume runs there too.  If that waits, only
\* this thread could end the wait: it does not come back.
FlushInitializing ==
    /\ uiAt = "flush" /\ flushing # <<>>
    /\ suspendRequested' = FALSE
    /\ IF suspendRequested
       THEN uiAt' = "asleep" /\ UNCHANGED log
       ELSE uiAt' = "flushing" /\ log' = [log EXCEPT ![Head(flushing)] = "initializing"]
    /\ UNCHANGED <<recordVars, signalVars, suspendEvent, engineVars, shutdown,
                   window, bSuspend, bCancel, bCancelAll, controls, dVars, eVars>>

FlushCompleted ==
    /\ uiAt = "flushing"
    /\ DisableControls
    /\ bCancel' = FALSE
    /\ log' = [log EXCEPT ![Head(flushing)] = "completed"]
    /\ freed' = freed \union {Head(flushing)}
    /\ flushing' = Tail(flushing)
    /\ uiAt' = "flush"
    /\ UNCHANGED <<queue, dirQueue, cur, dirCur, signalVars, suspendVars, engineVars,
                   shutdown, window, bSuspend, bCancelAll, dVars, eVars>>

FlushEnd ==
    /\ uiAt = "flush" /\ flushing = <<>>
    /\ Answer("ok")
    /\ uiAt' = "loop"
    /\ UNCHANGED <<recordVars, signalVars, suspendVars, engineVars, dlgVars, eVars>>

-----------------------------------------------------------------------------
(* The end: CTaskDlg::_ShutdownDialog, then CTaskManager::Uninitialize.    *)

CloseDialog ==
    /\ uiAt = "loop"
    /\ shutdown' = TRUE
    /\ uiAt' = "unhook"
    /\ UNCHANGED <<recordVars, signalVars, suspendVars, engineVars, window,
                   bSuspend, bCancel, bCancelAll, controls, log, dVars, eVars>>

\* _UninitializeTaskCallbacks; no thread uses both callbacks.
Unhook ==
    /\ uiAt = "unhook"
    /\ hooked' = FALSE
    /\ uiAt' = "peek"
    /\ UNCHANGED <<recordVars, signalVars, suspendVars, dwState, dlgVars, dVars, eVars>>

\* PeekMessage lets the handlers answer what is pending, and both see the
\* shutdown.  A thread that has tested the dialog's status may be late with its
\* message and find the window gone.
PeekUpdates ==
    /\ uiAt = "peek"
    /\ \/ dAt = "sent" /\ Answer("failed")
       \/ UNCHANGED dVars
    /\ eAt' \in {eAt, IF eAt = "sent" THEN "enum" ELSE eAt}
    /\ uiAt' = "destroy"
    /\ UNCHANGED <<recordVars, signalVars, suspendVars, engineVars, dlgVars, eMultiple>>

DestroyDialog ==
    /\ uiAt = "destroy"
    /\ window' = FALSE
    /\ uiAt' = "terminate"
    /\ UNCHANGED <<recordVars, signalVars, suspendVars, engineVars, shutdown,
                   bSuspend, bCancel, bCancelAll, controls, log, dVars, eVars>>

Terminate ==
    /\ uiAt = "terminate"
    /\ dwState' = "terminating"
    /\ uiAt' = "resume0"
    /\ UNCHANGED <<recordVars, signalVars, suspendVars, hooked, dlgVars,
                   dVars, eVars>>

\* Mutant: the event is set only for a pause that no thread has taken yet.
TerminateResumePending ==
    /\ uiAt = "resume0"
    /\ suspendRequested' = FALSE
    /\ uiAt' = IF suspendRequested THEN "setSuspend" ELSE "setDefrag"
    /\ UNCHANGED <<recordVars, signalVars, suspendEvent, engineVars, dlgVars, dVars, eVars>>

\* "Pause might have been called, so we force a resume."
TerminateResume ==
    /\ uiAt = "resume0"
    /\ suspendRequested' = FALSE
    /\ uiAt' = "setSuspend"
    /\ UNCHANGED <<recordVars, signalVars, suspendEvent, engineVars, dlgVars, dVars, eVars>>

TerminateSetSuspend ==
    /\ uiAt = "setSuspend"
    /\ suspendEvent' = TRUE
    /\ uiAt' = "setDefrag"
    /\ UNCHANGED <<recordVars, signalVars, suspendRequested, engineVars, dlgVars,
                   dVars, eVars>>

TerminateSetDefrag ==
    /\ uiAt = "setDefrag"
    /\ defragSignal' = TRUE
    /\ uiAt' = "join"
    /\ UNCHANGED <<recordVars, enumSignal, suspendVars, engineVars, dlgVars, dVars, eVars>>

TerminateJoin ==
    /\ uiAt = "join" /\ dAt = "exited"
    /\ uiAt' = "empty"
    /\ UNCHANGED <<recordVars, signalVars, suspendVars, engineVars, dlgVars, dVars, eVars>>

\* _FlushDefragQueue(false).
TerminateFlush ==
    /\ uiAt = "empty"
    /\ freed' = freed \union ToSet(queue)
    /\ queue' = <<>>
    /\ uiAt' = "finish"
    /\ UNCHANGED <<dirQueue, flushing, cur, dirCur, signalVars, suspendVars,
                   engineVars, dlgVars, dVars, eVars>>

\* The process exits next, and the directory thread with it.
TerminateFinish ==
    /\ uiAt = "finish"
    /\ dwState' = "uninitialized"
    /\ uiAt' = "closed"
    /\ UNCHANGED <<recordVars, signalVars, suspendVars, hooked, dlgVars,
                   dVars, eVars>>

-----------------------------------------------------------------------------
DefragThread ==
    \/ DefragWake \/ DefragDrain \/ Connect \/ ConnectFails \/ DefragPop
    \/ DefragPost \/ DefragResumed \/ DefragSendLost \/ Retry \/ Initialized
    \/ ServiceUpdates \/ Updated \/ ServiceReturns \/ RouteToEnum
    \/ RouteDestroy \/ SignalEnum \/ DefragPause \/ DefragDelay

EnumThread ==
    \/ EnumWake \/ EnumPop \/ EnumFind \/ EnumSignal \/ EnumSendLost
    \/ EnumDone \/ EnumPause \/ EnumResumed

User == Insert \/ Pause \/ ResumeClick \/ Cancel \/ CloseDialog

\* What the dialog's thread does without waiting for the user.
Dialog ==
    \/ InsertSignal \/ PauseReset \/ ResumeSet \/ TakeInitializing
    \/ TakeProgress \/ TakeCompleted \/ TakeInserted \/ FlushInitializing
    \/ FlushCompleted \/ FlushEnd \/ Unhook \/ PeekUpdates
    \/ DestroyDialog \/ Terminate \/ TerminateResume \/ TerminateSetSuspend
    \/ TerminateSetDefrag \/ TerminateJoin \/ TerminateFlush \/ TerminateFinish

Next == DefragThread \/ EnumThread \/ User \/ Dialog

Spec == Init /\ [][Next]_vars

\* The scheduler runs every thread that can run; the dialog answers updates
\* however often the user interferes; a service that is asked again and again
\* is reached at last, and a file is not defragmented for ever.
FairSpec ==
    /\ Spec
    /\ WF_vars(DefragThread) /\ WF_vars(EnumThread) /\ WF_vars(Dialog)
    /\ SF_vars(Connect) /\ SF_vars(ServiceReturns)

-----------------------------------------------------------------------------
(* Properties.                                                             *)

TypeOK ==
    /\ queue \in Seq(Records) /\ dirQueue \in Seq(Dirs) /\ flushing \in Seq(Records)
    /\ cur \in Records \union {NoRecord} /\ dirCur \in Dirs \union {NoRecord}
    /\ freed \subseteq Records
    /\ defragSignal \in BOOLEAN /\ enumSignal \in BOOLEAN
    /\ suspendEvent \in BOOLEAN /\ suspendRequested \in BOOLEAN
    /\ dwState \in {"initialized", "terminating", "uninitialized"}
    /\ hooked \in BOOLEAN /\ shutdown \in BOOLEAN /\ window \in BOOLEAN
    /\ bSuspend \in BOOLEAN /\ bCancel \in BOOLEAN /\ bCancelAll \in BOOLEAN
    /\ controls \in BOOLEAN
    /\ log \in [Records -> {"none"} \union Codes]
    /\ dAt \in DefragPCs /\ dCode \in Codes /\ dResult \in Results
    /\ dMultiple \in BOOLEAN /\ eMultiple \in BOOLEAN
    /\ eAt \in EnumPCs /\ uiAt \in DialogPCs
    /\ cur = NoRecord => dAt \notin {"post", "sleep", "sent", "answered", "service"}

\* Every QUEUEFILE has one owner, a queue or a thread, and none once it is
\* destroyed, whatever inserts, flushes and a shutdown do at the same time: no
\* record is in use twice, destroyed twice or used after that.
RecordsOwnedOnce ==
    LET Taken(r) == IF r = NoRecord THEN <<>> ELSE <<r>>
        held == queue \o dirQueue \o flushing \o Taken(cur) \o Taken(dirCur)
    IN  IsInjective(held) /\ ToSet(held) \intersect freed = {}

\* A thread that waits beside a queue with work on it has been signaled or is
\* about to be, so that no file waits for the time-out of 30 seconds; the
\* events are reset before the queues are emptied for that.  (After a failure
\* to connect, and once the engine terminates, the time-out is meant to do it.)
NoLostWakeup ==
    /\ dAt = "wait" /\ queue # <<>> /\ ~Terminating
           => defragSignal \/ uiAt = "insert" \/ eAt = "signal"
    /\ eAt = "wait" /\ dirQueue # <<>> => enumSignal \/ dAt = "signal"

\* While the engine is paused the user can resume it, even if a file completes
\* after the pause: its update must not take the button away.
PausedCanResume == bSuspend => controls

\* The dialog sees each file's updates in order and its end once, wherever they
\* come from: the defrag thread, the service or a flush in the dialog's thread.
EventsInOrder ==
    [][\A r \in Records : log'[r] # log[r] =>
           \/ log[r] = "none" /\ log'[r] = "initializing"
           \/ log[r] = "initializing" /\ log'[r] = "defragmenting"
           \/ log[r] \in {"initializing", "defragmenting"} /\ log'[r] = "completed"]_vars

\* A file on the queue is reported completed unless the dialog is closed, as
\* long as pauses end and wake the thread that sleeps and no flush falls asleep.
FileCompletes ==
    /\ <>[]~bSuspend
    /\ []<>(dAt \notin {"sleep", "suspended"})
    /\ []<>(uiAt # "asleep")
    => \A r \in Records : r \in ToSet(queue) ~> (log[r] = "completed" \/ shutdown)

\* Uninitialize comes to its end, paused engine or not, as long as the directory
\* thread does not wait on the event of the resume.
ShutdownCompletes ==
    [](eAt \notin {"delay", "suspended"}) => (uiAt = "terminate" ~> uiAt = "closed")
=============================================================================
