------------------------------ MODULE SvxServer ------------------------------
(***************************************************************************)
(* The FragSvx service and the COM server library under it: how the        *)
(* service starts, admits calls from clients, calls them back, and stops.  *)
(* FragSvx.Exe/ServiceCtl.cpp, FragExt.Lib/COMLib.cpp and .h, and the      *)
(* entry points of FragSvx.Exe/ServiceMgr.cpp and DiskDefrag.cpp.          *)
(*                                                                         *)
(* Three kinds of thread run here: the service's main thread, the control  *)
(* dispatcher's thread that runs SvxServiceHandlerEx, and one RPC thread   *)
(* for the call a client has in progress.  A step is what one thread does  *)
(* between two accesses to what they share.                                *)
(*                                                                         *)
(* Left out: what the file system does to a file, the time limits of a     *)
(* cancellation, the SCM's check points, and the maintenance task, which   *)
(* removes the entries of threads that died inside an outbound call (RPC   *)
(* threads do not).                                                        *)
(***************************************************************************)
EXTENDS Integers, FiniteSets

CONSTANTS
    Clients,    \* the processes that use the service, one call each at a time
    Faults      \* the steps that may fail, of FaultPoints

FaultPoints == {"event", "callcx", "com", "register", "resume", "context"}

ASSUME ClientsAssumption == IsFiniteSet(Clients)
ASSUME FaultsAssumption == Faults \subseteq FaultPoints

Kinds == {"manager", "defragmenter"}    \* the classes a client has objects of

VARIABLES
    IsCOMActivation,    \* g_ControlFlags: COM, not the SCM, started the process
    CoServerState,      \* __CoServerState, the set of its bits
    ExternalCallCount,  \* __CoExternalCallCount
    ServerProcessRefs,  \* COM's count behind CoAddRefServerProcess
    classObjects,       \* "none", "suspended", "resumed" or "revoked"
    cancelList,         \* gCancelList: the clients whose threads are on it
    listLock,           \* gCancelListLock exists
    cancelled,          \* clients whose outbound call COM was told to cancel
    serviceState,       \* gServiceStatus.dwCurrentState, as told to the SCM
    shutdownInitiated,  \* gServiceShutdownInitiated
    shutdownEvent,      \* ghShutdownEvent: "null", "open" or "signaled"
    mainAt,             \* where SvxServiceMain is
    handlerAt,          \* where SvxServiceHandlerEx is
    at,                 \* at[c]: where the call of client c is
    request,            \* request[c]: what that call asks for
    objects             \* the objects clients hold, as <<client, kind>>

comVars == <<CoServerState, ExternalCallCount, ServerProcessRefs, classObjects>>
cancelVars == <<cancelList, listLock, cancelled>>
serviceVars == <<IsCOMActivation, serviceState, shutdownInitiated, shutdownEvent>>
clientVars == <<at, request, objects>>
vars == <<comVars, cancelVars, serviceVars, mainAt, handlerAt, clientVars>>

MainPCs == {"start", "event", "callcx", "com", "register", "resume", "running",
            "wait", "cleanup", "turnoff", "cancel", "poll", "revoke",
            "uncallcx", "stop", "done", "lost"}
HandlerPCs == {"idle", "exchange", "signal", "release", "status", "set"}
CallPCs == {"idle", "test", "new", "work", "context", "insert", "call", "out",
            "answered", "failed", "leave"}

Bits == {"ACTIVE", "CALLCX"}            \* COSRVSTATE_SERVER_ACTIVE, _CALLCX_ACTIVE
DllLockBits == {"DLLLOCK"}              \* COSRVSTATE_SERVER_DLLLOCK

CallTo(c, to) == at' = [at EXCEPT ![c] = to]

\* CoSetServerState: "Ensure the state mask doesn't include the DLL lock bits",
\* and Feature &= COSRVSTATE_SERVER_DLLLOCK.
CoSetServerState(Feature, State) ==
    CoServerState' = (CoServerState \ (Feature \intersect DllLockBits)) \union State

CoServerIsActive == "ACTIVE" \in CoServerState

\* COM's side of CoAddRefServerProcess and CoReleaseServerProcess: the last
\* reference suspends the class objects.
AddRefServerProcess == ServerProcessRefs' = ServerProcessRefs + 1
ReleaseServerProcess ==
    /\ ServerProcessRefs' = ServerProcessRefs - 1
    /\ classObjects' = IF ServerProcessRefs = 1 /\ classObjects = "resumed"
                       THEN "suspended" ELSE classObjects

\* Stubs take calls until CoUninitialize and the end of the process.
COMIsUp == mainAt \notin {"stop", "done"}

-----------------------------------------------------------------------------
Init ==
    /\ IsCOMActivation \in BOOLEAN
    /\ CoServerState = {}
    /\ ExternalCallCount = 0
    /\ ServerProcessRefs = 0
    /\ classObjects = "none"
    /\ cancelList = {}
    /\ listLock = FALSE
    /\ cancelled = {}
    /\ serviceState = "STOPPED"
    /\ shutdownInitiated = FALSE
    /\ shutdownEvent = "null"
    /\ mainAt = "start"
    /\ handlerAt = "idle"
    /\ at = [c \in Clients |-> "idle"]
    /\ request = [c \in Clients |-> "manager"]
    /\ objects = {}

-----------------------------------------------------------------------------
(* SvxServiceMain                                                          *)

MainStart ==
    /\ mainAt = "start"
    /\ serviceState' = "START_PENDING"
    /\ mainAt' = "event"
    /\ UNCHANGED <<comVars, cancelVars, IsCOMActivation, shutdownInitiated,
                   shutdownEvent, handlerAt, clientVars>>

MainCreateEvent ==
    /\ mainAt = "event"
    /\ \/ /\ shutdownEvent' = "open"
          /\ mainAt' = "callcx"
       \/ /\ "event" \in Faults
          /\ mainAt' = "cleanup"
          /\ UNCHANGED shutdownEvent
    /\ UNCHANGED <<comVars, cancelVars, IsCOMActivation, serviceState,
                   shutdownInitiated, handlerAt, clientVars>>

\* SvxInitializeCOM: CoInitializeCallCancellation.  When that fails, hr holds
\* the error and dwRet, which is returned, still holds NO_ERROR.
MainInitCallCancellation ==
    /\ mainAt = "callcx"
    /\ \/ /\ listLock' = TRUE
          /\ CoSetServerState({"CALLCX"}, {"CALLCX"})
          /\ mainAt' = "com"
       \/ /\ "callcx" \in Faults
          /\ mainAt' = "running"
          /\ UNCHANGED <<listLock, CoServerState>>
    /\ UNCHANGED <<ExternalCallCount, ServerProcessRefs, classObjects,
                   cancelList, cancelled, serviceVars, handlerAt, clientVars>>

\* CoInitializeEx and the security settings, then the reference that keeps the
\* service alive when the SCM started it.
MainInitCOM ==
    /\ mainAt = "com"
    /\ \/ /\ ServerProcessRefs' = IF IsCOMActivation THEN 0 ELSE 1
          /\ mainAt' = "register"
       \/ /\ "com" \in Faults
          /\ mainAt' = "cleanup"
          /\ UNCHANGED ServerProcessRefs
    /\ UNCHANGED <<CoServerState, ExternalCallCount, classObjects, cancelVars,
                   serviceVars, handlerAt, clientVars>>

\* What SvxInitializeCOM undoes when the class objects are not registered.
AbandonRegistration ==
    /\ CoSetServerState({"ACTIVE"}, {})
    /\ classObjects' = "revoked"
    /\ ServerProcessRefs' = IF IsCOMActivation THEN ServerProcessRefs
                                               ELSE ServerProcessRefs - 1
    /\ mainAt' = "cleanup"

\* CoRegisterModuleClassObjects: the objects are registered suspended, the
\* server is made active, and only then may activations come in.
MainRegister ==
    /\ mainAt = "register"
    /\ \/ /\ classObjects' = "suspended"
          /\ CoSetServerState({"ACTIVE"}, {"ACTIVE"})
          /\ mainAt' = "resume"
          /\ UNCHANGED ServerProcessRefs
       \/ /\ "register" \in Faults
          /\ AbandonRegistration
    /\ UNCHANGED <<ExternalCallCount, cancelVars, serviceVars, handlerAt, clientVars>>

MainResume ==
    /\ mainAt = "resume"
    /\ \/ /\ classObjects' = "resumed"
          /\ mainAt' = "running"
          /\ UNCHANGED <<CoServerState, ServerProcessRefs>>
       \/ /\ "resume" \in Faults
          /\ AbandonRegistration
    /\ UNCHANGED <<ExternalCallCount, cancelVars, serviceVars, handlerAt, clientVars>>

MainRunning ==
    /\ mainAt = "running"
    /\ serviceState' = "RUNNING"
    /\ mainAt' = "wait"
    /\ UNCHANGED <<comVars, cancelVars, IsCOMActivation, shutdownInitiated,
                   shutdownEvent, handlerAt, clientVars>>

MainWake ==
    /\ mainAt = "wait"
    /\ shutdownEvent = "signaled"
    /\ mainAt' = "cleanup"
    /\ UNCHANGED <<comVars, cancelVars, serviceVars, handlerAt, clientVars>>

MainCleanup ==
    /\ mainAt = "cleanup"
    /\ serviceState' = "STOP_PENDING"
    /\ mainAt' = "turnoff"
    /\ UNCHANGED <<comVars, cancelVars, IsCOMActivation, shutdownInitiated,
                   shutdownEvent, handlerAt, clientVars>>

\* CoCancelRegisteredCalls: first no more registrations ...
MainTurnOffCallCancellation ==
    /\ mainAt = "turnoff"
    /\ CoSetServerState({"CALLCX"}, {})
    /\ mainAt' = "cancel"
    /\ UNCHANGED <<ExternalCallCount, ServerProcessRefs, classObjects,
                   cancelVars, serviceVars, handlerAt, clientVars>>

\* Mutant: the walk of the list ends with the first entry.
MainCancelFirstCall ==
    /\ mainAt = "cancel"
    /\ IF listLock
       THEN /\ \/ /\ cancelList = {}
                  /\ cancelled' = {}
               \/ \E c \in cancelList : cancelled' = {d \in {c} : at[d] = "out"}
            /\ mainAt' = "poll"
       ELSE /\ mainAt' = "lost"
            /\ UNCHANGED cancelled
    /\ UNCHANGED <<comVars, cancelList, listLock, serviceVars, handlerAt, clientVars>>

\* ... then, under the list's lock, CoCancelCall for every thread registered.
\* COM finds nothing to cancel on a thread whose call has not begun.  Entering
\* a lock that was never initialized, and walking a list without a head, is
\* undefined: the thread does not come back.
MainCancelRegisteredCalls ==
    /\ mainAt = "cancel"
    /\ IF listLock
       THEN /\ cancelled' = {c \in cancelList : at[c] = "out"}
            /\ mainAt' = "poll"
       ELSE /\ mainAt' = "lost"
            /\ UNCHANGED cancelled
    /\ UNCHANGED <<comVars, cancelList, listLock, serviceVars, handlerAt, clientVars>>

\* while ( CoIsExternalCallInProgress() ); SvxUninitializeCOM is skipped when
\* SvxInitializeCOM failed.
MainPoll ==
    /\ mainAt = "poll"
    /\ ExternalCallCount = 0
    /\ mainAt' = IF classObjects \in {"none", "revoked"} THEN "stop" ELSE "revoke"
    /\ UNCHANGED <<comVars, cancelVars, serviceVars, handlerAt, clientVars>>

\* SvxUninitializeCOM: CoRevokeModuleClassObjects ...
MainRevoke ==
    /\ mainAt = "revoke"
    /\ CoSetServerState({"ACTIVE"}, {})
    /\ classObjects' = "revoked"
    /\ mainAt' = "uncallcx"
    /\ UNCHANGED <<ExternalCallCount, ServerProcessRefs, cancelVars,
                   serviceVars, handlerAt, clientVars>>

\* ... CoUninitializeCallCancellation, CoUninitialize.
MainUninitCallCancellation ==
    /\ mainAt = "uncallcx"
    /\ CoSetServerState({"CALLCX"}, {})
    /\ listLock' = FALSE
    /\ mainAt' = "stop"
    /\ UNCHANGED <<ExternalCallCount, ServerProcessRefs, classObjects,
                   cancelList, cancelled, serviceVars, handlerAt, clientVars>>

MainStop ==
    /\ mainAt = "stop"
    /\ shutdownEvent' = "null"
    /\ serviceState' = "STOPPED"
    /\ mainAt' = "done"
    /\ UNCHANGED <<comVars, cancelVars, IsCOMActivation, shutdownInitiated,
                   handlerAt, clientVars>>

-----------------------------------------------------------------------------
(* SvxServiceHandlerEx and SvxSignalServiceInitiateShutdown                *)

\* The SCM sends SERVICE_CONTROL_STOP and _SHUTDOWN to a running service only,
\* one control at a time.
Control ==
    /\ handlerAt = "idle" /\ serviceState = "RUNNING"
    /\ handlerAt' = "exchange"
    /\ UNCHANGED <<comVars, cancelVars, serviceVars, mainAt, clientVars>>

HandlerExchange ==
    /\ handlerAt = "exchange"
    /\ shutdownInitiated' = TRUE
    /\ handlerAt' = IF shutdownInitiated THEN "idle" ELSE "signal"
    /\ UNCHANGED <<comVars, cancelVars, IsCOMActivation, serviceState,
                   shutdownEvent, mainAt, clientVars>>

\* Mutant: the flag is set after the signal, so the call back into
\* SvxSignalServiceInitiateShutdown gives the reference back as well.
HandlerSignalTwice ==
    /\ handlerAt = "signal"
    /\ CoSetServerState({"ACTIVE"}, {})
    /\ IF IsCOMActivation THEN UNCHANGED <<ServerProcessRefs, classObjects>>
                          ELSE ReleaseServerProcess
    /\ handlerAt' = "release"
    /\ UNCHANGED <<ExternalCallCount, cancelVars, serviceVars, mainAt, clientVars>>

\* CoSignalServer(COSVRSIGNAL_INACTIVE), which calls back into
\* SvxSignalServiceInitiateShutdown: the flag is set, so that call returns.
HandlerSignal ==
    /\ handlerAt = "signal"
    /\ CoSetServerState({"ACTIVE"}, {})
    /\ handlerAt' = "release"
    /\ UNCHANGED <<ExternalCallCount, ServerProcessRefs, classObjects,
                   cancelVars, serviceVars, mainAt, clientVars>>

\* Mutant: the event is set before the state is reported.
HandlerReleaseAndSet ==
    /\ handlerAt = "release"
    /\ IF IsCOMActivation THEN UNCHANGED <<ServerProcessRefs, classObjects>>
                          ELSE ReleaseServerProcess
    /\ shutdownEvent' = "signaled"
    /\ handlerAt' = "status"
    /\ UNCHANGED <<CoServerState, ExternalCallCount, cancelVars, IsCOMActivation,
                   serviceState, shutdownInitiated, mainAt, clientVars>>

HandlerRelease ==
    /\ handlerAt = "release"
    /\ IF IsCOMActivation THEN UNCHANGED <<ServerProcessRefs, classObjects>>
                          ELSE ReleaseServerProcess
    /\ handlerAt' = "status"
    /\ UNCHANGED <<CoServerState, ExternalCallCount, cancelVars, serviceVars,
                   mainAt, clientVars>>

HandlerStatus ==
    /\ handlerAt = "status"
    /\ serviceState' = IF serviceState = "STOPPED" THEN "STOPPED" ELSE "STOP_PENDING"
    /\ handlerAt' = "set"
    /\ UNCHANGED <<comVars, cancelVars, IsCOMActivation, shutdownInitiated,
                   shutdownEvent, mainAt, clientVars>>

HandlerSetEvent ==
    /\ handlerAt = "set"
    /\ shutdownEvent' = IF shutdownEvent = "null" THEN "null" ELSE "signaled"
    /\ handlerAt' = "idle"
    /\ UNCHANGED <<comVars, cancelVars, IsCOMActivation, serviceState,
                   shutdownInitiated, mainAt, clientVars>>

-----------------------------------------------------------------------------
(* A call from a client, on the RPC thread that serves it.                 *)

\* A client may ask the class factory for a service manager, the manager for
\* a defragmenter, and the defragmenter to defragment a file.
MayAsk(c, what) ==
    CASE what = "manager"      -> classObjects = "resumed"
                                  /\ <<c, "manager">> \notin objects
      [] what = "defragmenter" -> <<c, "manager">> \in objects
                                  /\ <<c, "defragmenter">> \notin objects
      [] what = "file"         -> <<c, "defragmenter">> \in objects

\* CreateInstance, QueryService or DefragmentFile is entered: the first half
\* of CoEnterExternalCall counts the call ...
BeginCall(c) ==
    /\ COMIsUp /\ at[c] = "idle"
    /\ \E what \in Kinds \union {"file"} :
          /\ MayAsk(c, what)
          /\ request' = [request EXCEPT ![c] = what]
    /\ ExternalCallCount' = ExternalCallCount + 1
    /\ CallTo(c, "test")
    /\ UNCHANGED <<CoServerState, ServerProcessRefs, classObjects, cancelVars,
                   serviceVars, mainAt, handlerAt, objects>>

\* ... and the second half takes the count back if the server is not active.
EnterExternalCall(c) ==
    /\ COMIsUp /\ at[c] = "test"
    /\ IF CoServerIsActive
       THEN /\ CallTo(c, IF request[c] = "file" THEN "work" ELSE "new")
            /\ UNCHANGED ExternalCallCount
       ELSE /\ CallTo(c, "idle")
            /\ ExternalCallCount' = ExternalCallCount - 1
    /\ UNCHANGED <<CoServerState, ServerProcessRefs, classObjects, cancelVars,
                   serviceVars, mainAt, handlerAt, request, objects>>

\* The object's constructor calls CoLockExeServer(TRUE).
CreateObject(c) ==
    /\ COMIsUp /\ at[c] = "new"
    /\ AddRefServerProcess
    /\ objects' = objects \union {<<c, request[c]>>}
    /\ CallTo(c, "leave")
    /\ UNCHANGED <<CoServerState, ExternalCallCount, classObjects, cancelVars,
                   serviceVars, mainAt, handlerAt, request>>

\* Mutant: QueryService returns without leaving the call.
LeaveExternalCallForgotten(c) ==
    /\ COMIsUp /\ at[c] = "leave"
    /\ ExternalCallCount' = ExternalCallCount - (IF request[c] = "defragmenter" THEN 0 ELSE 1)
    /\ CallTo(c, "idle")
    /\ UNCHANGED <<CoServerState, ServerProcessRefs, classObjects, cancelVars,
                   serviceVars, mainAt, handlerAt, request, objects>>

LeaveExternalCall(c) ==
    /\ COMIsUp /\ at[c] = "leave"
    /\ ExternalCallCount' = ExternalCallCount - 1
    /\ CallTo(c, "idle")
    /\ UNCHANGED <<CoServerState, ServerProcessRefs, classObjects, cancelVars,
                   serviceVars, mainAt, handlerAt, request, objects>>

\* InternalDefragmentFile has no more to do, or fails.
WorkDone(c) ==
    /\ COMIsUp /\ at[c] = "work"
    /\ CallTo(c, "leave")
    /\ UNCHANGED <<comVars, cancelVars, serviceVars, mainAt, handlerAt,
                   request, objects>>

\* An update for the client.  DefragmentFileRoutine aborts the file instead if
\* the server is not active; the update for a contiguous file does not ask.
WorkUpdate(c) ==
    /\ COMIsUp /\ at[c] = "work"
    /\ \E contiguous \in BOOLEAN :
          CallTo(c, IF contiguous \/ CoServerIsActive THEN "context" ELSE "leave")
    /\ UNCHANGED <<comVars, cancelVars, serviceVars, mainAt, handlerAt,
                   request, objects>>

\* SendDefragmentFileUpdateEx: CoRegisterCallCancelCtx asks first whether
\* calls can be cancelled, and the update is sent whether or not it succeeds.
RegisterCallCancelCtx(c) ==
    /\ COMIsUp /\ at[c] = "context"
    /\ \/ "CALLCX" \in CoServerState /\ CallTo(c, "insert")
       \/ ("CALLCX" \notin CoServerState \/ "context" \in Faults) /\ CallTo(c, "call")
    /\ UNCHANGED <<comVars, cancelVars, serviceVars, mainAt, handlerAt,
                   request, objects>>

InsertCancelCtx(c) ==
    /\ COMIsUp /\ at[c] = "insert"
    /\ cancelList' = cancelList \union {c}
    /\ CallTo(c, "call")
    /\ UNCHANGED <<comVars, listLock, cancelled, serviceVars, mainAt,
                   handlerAt, request, objects>>

\* OnDefragmentFileUpdate leaves for the client ...
CallClient(c) ==
    /\ COMIsUp /\ at[c] = "call"
    /\ CallTo(c, "out")
    /\ UNCHANGED <<comVars, cancelVars, serviceVars, mainAt, handlerAt,
                   request, objects>>

\* ... and returns because the client answered or died, or COM cancelled it.
Answer(c) ==
    /\ COMIsUp /\ at[c] = "out"
    /\ \E result \in {"answered", "failed"} : CallTo(c, result)
    /\ UNCHANGED <<comVars, cancelVars, serviceVars, mainAt, handlerAt,
                   request, objects>>

CallCancelled(c) ==
    /\ COMIsUp /\ at[c] = "out" /\ c \in cancelled
    /\ CallTo(c, "failed")
    /\ UNCHANGED <<comVars, cancelVars, serviceVars, mainAt, handlerAt,
                   request, objects>>

\* Mutant: a failed update ends the call without CoLeaveExternalCall.
UnregisterAndReturn(c) ==
    /\ COMIsUp /\ at[c] \in {"answered", "failed"}
    /\ cancelList' = cancelList \ {c}
    /\ cancelled' = cancelled \ {c}
    /\ CallTo(c, IF at[c] = "answered" THEN "work" ELSE "idle")
    /\ UNCHANGED <<comVars, listLock, serviceVars, mainAt, handlerAt,
                   request, objects>>

\* CoUnregisterCallCancelCtx, after which the file goes on or is aborted.
UnregisterCallCancelCtx(c) ==
    /\ COMIsUp /\ at[c] \in {"answered", "failed"}
    /\ cancelList' = cancelList \ {c}
    /\ cancelled' = cancelled \ {c}
    /\ CallTo(c, IF at[c] = "answered" THEN "work" ELSE "leave")
    /\ UNCHANGED <<comVars, listLock, serviceVars, mainAt, handlerAt,
                   request, objects>>

\* A client lets go of an object, or dies: its destructor calls
\* CoLockExeServer(FALSE), whose COSVR_EVENT_UNLOCKED nobody handles.
ReleaseObject(c) ==
    /\ COMIsUp /\ at[c] = "idle"
    /\ \E kind \in Kinds :
          /\ <<c, kind>> \in objects
          /\ objects' = objects \ {<<c, kind>>}
    /\ ReleaseServerProcess
    /\ CoSetServerState(IF ServerProcessRefs = 1 THEN {"ACTIVE"} ELSE {}, {})
    /\ UNCHANGED <<ExternalCallCount, cancelVars, serviceVars, mainAt,
                   handlerAt, at, request>>

-----------------------------------------------------------------------------
Main ==
    \/ MainStart \/ MainCreateEvent \/ MainInitCallCancellation \/ MainInitCOM
    \/ MainRegister \/ MainResume \/ MainRunning \/ MainWake \/ MainCleanup
    \/ MainTurnOffCallCancellation \/ MainCancelRegisteredCalls \/ MainPoll
    \/ MainRevoke \/ MainUninitCallCancellation \/ MainStop

Handler ==
    \/ HandlerExchange \/ HandlerSignal \/ HandlerRelease \/ HandlerStatus
    \/ HandlerSetEvent

\* What the thread serving c does without anyone else's help.
Serve(c) ==
    \/ EnterExternalCall(c) \/ CreateObject(c) \/ LeaveExternalCall(c)
    \/ RegisterCallCancelCtx(c) \/ InsertCancelCtx(c) \/ CallClient(c)
    \/ CallCancelled(c) \/ UnregisterCallCancelCtx(c)

Next ==
    \/ Main \/ Control \/ Handler
    \/ \E c \in Clients :
          \/ BeginCall(c) \/ Serve(c) \/ WorkDone(c) \/ WorkUpdate(c)
          \/ Answer(c) \/ ReleaseObject(c)

Spec == Init /\ [][Next]_vars

\* Every thread is scheduled; the engine ends a file after finitely many
\* updates, so an end that stays possible is taken.  The SCM and the clients
\* owe the service nothing.
Fairness ==
    /\ WF_vars(Main)
    /\ WF_vars(Handler)
    /\ \A c \in Clients :
          /\ WF_vars(Serve(c))
          /\ SF_vars(WorkDone(c))

FairSpec == Spec /\ Fairness
-----------------------------------------------------------------------------
(* Properties                                                              *)

TypeOK ==
    /\ IsCOMActivation \in BOOLEAN
    /\ CoServerState \subseteq Bits
    /\ ExternalCallCount \in Nat
    /\ ServerProcessRefs \in Int
    /\ classObjects \in {"none", "suspended", "resumed", "revoked"}
    /\ cancelList \subseteq Clients
    /\ listLock \in BOOLEAN
    /\ cancelled \subseteq Clients
    /\ serviceState \in {"STOPPED", "START_PENDING", "RUNNING", "STOP_PENDING"}
    /\ shutdownInitiated \in BOOLEAN
    /\ shutdownEvent \in {"null", "open", "signaled"}
    /\ mainAt \in MainPCs
    /\ handlerAt \in HandlerPCs
    /\ at \in [Clients -> CallPCs]
    /\ request \in [Clients -> Kinds \union {"file"}]
    /\ objects \subseteq Clients \X Kinds

\* __CoExternalCallCount, which SvxServiceMain polls, is the number of calls
\* between CoEnterExternalCall and CoLeaveExternalCall, however they end.
CallCountExact == ExternalCallCount = Cardinality({c \in Clients : at[c] # "idle"})

\* The reference that keeps a service started by the SCM alive.
KeepAlive ==
    /\ ~IsCOMActivation
    /\ classObjects \in {"suspended", "resumed"}
    /\ shutdownInitiated => handlerAt \in {"signal", "release"}

\* From the registration of the class objects on, COM's count for the process
\* is one for each object a client has and one for the service itself, given
\* back once although SvxSignalServiceInitiateShutdown calls itself through
\* CoSignalServer.
RefsExact ==
    classObjects # "none" =>
        ServerProcessRefs = Cardinality(objects) + (IF KeepAlive THEN 1 ELSE 0)

\* SvxServiceHandlerEx is done with gServiceStatus, ghShutdownEvent and the
\* server's references before SvxServiceMain touches them again: nothing locks
\* them, only the order of the handler's calls keeps the threads apart.
HandlerBeforeCleanup == handlerAt # "idle" => mainAt = "wait"

\* The state reported to the SCM only moves forward, whichever of the two
\* threads reports it (SvxUpdateServiceStatus).
StatusForward ==
    [][\/ mainAt = "start" /\ serviceState' = "START_PENDING"
       \/ serviceState = "START_PENDING" /\ serviceState' \in {"RUNNING", "STOP_PENDING"}
       \/ serviceState = "RUNNING" /\ serviceState' = "STOP_PENDING"
       \/ serviceState = "STOP_PENDING" /\ serviceState' = "STOPPED"
      ]_serviceState

\* Clients begin no more calls.
NoMoreCalls == <>[][\A c \in Clients : ~BeginCall(c)]_vars

\* A service asked to stop stops, once clients begin no more calls, if each
\* of them ends its updates and the start did not fail before there was a list
\* of calls to cancel.
StopCompletes ==
    NoMoreCalls /\ [](mainAt # "lost") /\ (\A c \in Clients : []<>(at[c] # "out"))
        => (serviceState = "STOP_PENDING" ~> serviceState = "STOPPED")

\* Every update on its way and registered when CoCancelRegisteredCalls walks
\* the list ends, although no client answers.
CancelReachesAll ==
    \A c \in Clients :
        mainAt = "cancel" /\ c \in cancelList /\ at[c] = "out" ~> at[c] # "out"

-----------------------------------------------------------------------------
(* The inductive invariants behind the properties above.                   *)

\* Where the two service threads are says what the SCM was told and whether
\* the shutdown has been signaled.
StateInv ==
    /\ mainAt = "start" => serviceState = "STOPPED"
    /\ mainAt \in {"event", "callcx", "com", "register", "resume", "running"}
          => serviceState = "START_PENDING" /\ ~shutdownInitiated
    /\ mainAt = "wait" => serviceState \in {"RUNNING", "STOP_PENDING"}
    /\ mainAt = "cleanup" => serviceState \in {"START_PENDING", "STOP_PENDING"}
    /\ mainAt \in {"turnoff", "cancel", "poll", "revoke", "uncallcx", "stop", "lost"}
          => serviceState = "STOP_PENDING"
    /\ mainAt = "done" => serviceState = "STOPPED"
    /\ mainAt \in {"start", "event"} => shutdownEvent = "null" /\ ~shutdownInitiated
    /\ mainAt \in {"callcx", "com", "register", "resume", "running"}
          => shutdownEvent = "open"
    /\ mainAt = "wait" =>
          /\ shutdownEvent # "null"
          /\ shutdownEvent = "signaled" => /\ handlerAt = "idle" /\ shutdownInitiated
                                           /\ serviceState = "STOP_PENDING"
          /\ shutdownInitiated => handlerAt # "idle" \/ shutdownEvent = "signaled"
    /\ handlerAt # "idle" => mainAt = "wait"
    /\ handlerAt \in {"exchange", "signal", "release", "status"}
          => serviceState = "RUNNING"
    /\ handlerAt = "set" => serviceState = "STOP_PENDING"
    /\ handlerAt = "exchange" => ~shutdownInitiated
    /\ handlerAt \in {"signal", "release", "status", "set"} => shutdownInitiated

\* The class objects follow the main thread, and nothing of a client's exists
\* before they are resumed.
ObjectsInv ==
    /\ mainAt \in {"start", "event", "callcx", "com", "register"}
          => classObjects = "none"
    /\ mainAt = "register" => ServerProcessRefs = IF IsCOMActivation THEN 0 ELSE 1
    /\ mainAt = "resume" => classObjects = "suspended"
    /\ mainAt \in {"running", "wait"} => classObjects # "revoked"
    /\ classObjects = "none" \/ mainAt = "resume"
          => objects = {} /\ \A c \in Clients : at[c] = "idle"
    /\ mainAt \in {"cleanup", "turnoff", "cancel", "poll", "revoke"}
       /\ classObjects \in {"suspended", "resumed"}
          => shutdownInitiated
    /\ mainAt = "revoke" => classObjects \in {"suspended", "resumed"}
    /\ \A c \in Clients :
          \/ at[c] = "new"
          \/ at[c] = "test" /\ request[c] \in Kinds
          => request[c] \in Kinds /\ <<c, request[c]>> \notin objects

IInv == TypeOK /\ StateInv /\ ObjectsInv /\ CallCountExact /\ RefsExact

-----------------------------------------------------------------------------
(* What comments of the source say, and the code does not do.              *)

\* "Wait for any active calls to complete/abort as we don't want to abandon
\* the process while they're active" (ServiceCtl.cpp, SvxServiceMain).
NoCallDuringTeardown ==
    mainAt \in {"revoke", "uncallcx", "stop"}
        => \A c \in Clients : at[c] \in {"idle", "test"}
=============================================================================
