--------------------------- MODULE SvxServerProofs ---------------------------
(***************************************************************************)
(* Proofs about SvxServer, for any finite set of clients, whichever of     *)
(* them hang and whichever steps of the start fail.                        *)
(***************************************************************************)
EXTENDS SvxServer, FiniteSetTheorems, TLAPS

\* The steps of the threads that serve clients, and of the service's own.
ClientStep ==
    \E c \in Clients :
        \/ BeginCall(c) \/ Serve(c) \/ WorkDone(c) \/ WorkUpdate(c)
        \/ Answer(c) \/ ReleaseObject(c)

ServiceStep == Main \/ Control \/ Handler

\* A client's thread leaves the service's threads and their state alone.
LEMMA ClientFrame ==
  ClientStep => UNCHANGED <<serviceVars, mainAt, handlerAt, listLock>>
  <1> USE DEF serviceVars, cancelVars
  <1>1. ASSUME NEW c \in Clients, BeginCall(c)
       PROVE  UNCHANGED <<serviceVars, mainAt, handlerAt, listLock>>
    BY <1>1 DEF BeginCall
  <1>2. ASSUME NEW c \in Clients, EnterExternalCall(c)
       PROVE  UNCHANGED <<serviceVars, mainAt, handlerAt, listLock>>
    BY <1>2 DEF EnterExternalCall
  <1>3. ASSUME NEW c \in Clients, CreateObject(c)
       PROVE  UNCHANGED <<serviceVars, mainAt, handlerAt, listLock>>
    BY <1>3 DEF CreateObject
  <1>4. ASSUME NEW c \in Clients, LeaveExternalCall(c)
       PROVE  UNCHANGED <<serviceVars, mainAt, handlerAt, listLock>>
    BY <1>4 DEF LeaveExternalCall
  <1>5. ASSUME NEW c \in Clients, WorkDone(c)
       PROVE  UNCHANGED <<serviceVars, mainAt, handlerAt, listLock>>
    BY <1>5 DEF WorkDone
  <1>6. ASSUME NEW c \in Clients, WorkUpdate(c)
       PROVE  UNCHANGED <<serviceVars, mainAt, handlerAt, listLock>>
    BY <1>6 DEF WorkUpdate
  <1>7. ASSUME NEW c \in Clients, RegisterCallCancelCtx(c)
       PROVE  UNCHANGED <<serviceVars, mainAt, handlerAt, listLock>>
    BY <1>7 DEF RegisterCallCancelCtx
  <1>8. ASSUME NEW c \in Clients, InsertCancelCtx(c)
       PROVE  UNCHANGED <<serviceVars, mainAt, handlerAt, listLock>>
    BY <1>8 DEF InsertCancelCtx
  <1>9. ASSUME NEW c \in Clients, CallClient(c)
       PROVE  UNCHANGED <<serviceVars, mainAt, handlerAt, listLock>>
    BY <1>9 DEF CallClient
  <1>10. ASSUME NEW c \in Clients, Answer(c)
       PROVE  UNCHANGED <<serviceVars, mainAt, handlerAt, listLock>>
    BY <1>10 DEF Answer
  <1>11. ASSUME NEW c \in Clients, CallCancelled(c)
       PROVE  UNCHANGED <<serviceVars, mainAt, handlerAt, listLock>>
    BY <1>11 DEF CallCancelled
  <1>12. ASSUME NEW c \in Clients, UnregisterCallCancelCtx(c)
       PROVE  UNCHANGED <<serviceVars, mainAt, handlerAt, listLock>>
    BY <1>12 DEF UnregisterCallCancelCtx
  <1>13. ASSUME NEW c \in Clients, ReleaseObject(c)
       PROVE  UNCHANGED <<serviceVars, mainAt, handlerAt, listLock>>
    BY <1>13 DEF ReleaseObject
  <1> QED
    BY <1>1, <1>2, <1>3, <1>4, <1>5, <1>6, <1>7, <1>8, <1>9, <1>10, <1>11,
       <1>12, <1>13 DEF ClientStep, Serve

\* The service's threads leave the calls and objects of the clients alone.
LEMMA ServiceFrame ==
  ServiceStep => UNCHANGED <<at, request, objects, ExternalCallCount, cancelList>>
  <1> USE DEF comVars, cancelVars, clientVars
  <1>1. MainStart => UNCHANGED <<at, request, objects, ExternalCallCount, cancelList>>
    BY DEF MainStart
  <1>2. MainCreateEvent => UNCHANGED <<at, request, objects, ExternalCallCount, cancelList>>
    BY DEF MainCreateEvent
  <1>3. MainInitCallCancellation => UNCHANGED <<at, request, objects, ExternalCallCount, cancelList>>
    BY DEF MainInitCallCancellation
  <1>4. MainInitCOM => UNCHANGED <<at, request, objects, ExternalCallCount, cancelList>>
    BY DEF MainInitCOM
  <1>5. MainRegister => UNCHANGED <<at, request, objects, ExternalCallCount, cancelList>>
    BY DEF MainRegister
  <1>6. MainResume => UNCHANGED <<at, request, objects, ExternalCallCount, cancelList>>
    BY DEF MainResume
  <1>7. MainRunning => UNCHANGED <<at, request, objects, ExternalCallCount, cancelList>>
    BY DEF MainRunning
  <1>8. MainWake => UNCHANGED <<at, request, objects, ExternalCallCount, cancelList>>
    BY DEF MainWake
  <1>9. MainCleanup => UNCHANGED <<at, request, objects, ExternalCallCount, cancelList>>
    BY DEF MainCleanup
  <1>10. MainTurnOffCallCancellation => UNCHANGED <<at, request, objects, ExternalCallCount, cancelList>>
    BY DEF MainTurnOffCallCancellation
  <1>11. MainCancelRegisteredCalls => UNCHANGED <<at, request, objects, ExternalCallCount, cancelList>>
    BY DEF MainCancelRegisteredCalls
  <1>12. MainPoll => UNCHANGED <<at, request, objects, ExternalCallCount, cancelList>>
    BY DEF MainPoll
  <1>13. MainRevoke => UNCHANGED <<at, request, objects, ExternalCallCount, cancelList>>
    BY DEF MainRevoke
  <1>14. MainUninitCallCancellation => UNCHANGED <<at, request, objects, ExternalCallCount, cancelList>>
    BY DEF MainUninitCallCancellation
  <1>15. MainStop => UNCHANGED <<at, request, objects, ExternalCallCount, cancelList>>
    BY DEF MainStop
  <1>16. Control => UNCHANGED <<at, request, objects, ExternalCallCount, cancelList>>
    BY DEF Control
  <1>17. HandlerExchange => UNCHANGED <<at, request, objects, ExternalCallCount, cancelList>>
    BY DEF HandlerExchange
  <1>18. HandlerSignal => UNCHANGED <<at, request, objects, ExternalCallCount, cancelList>>
    BY DEF HandlerSignal
  <1>19. HandlerRelease => UNCHANGED <<at, request, objects, ExternalCallCount, cancelList>>
    BY DEF HandlerRelease
  <1>20. HandlerStatus => UNCHANGED <<at, request, objects, ExternalCallCount, cancelList>>
    BY DEF HandlerStatus
  <1>21. HandlerSetEvent => UNCHANGED <<at, request, objects, ExternalCallCount, cancelList>>
    BY DEF HandlerSetEvent
  <1> QED
    BY <1>1, <1>2, <1>3, <1>4, <1>5, <1>6, <1>7, <1>8, <1>9, <1>10, <1>11,
       <1>12, <1>13, <1>14, <1>15, <1>16, <1>17, <1>18, <1>19, <1>20, <1>21
       DEF ServiceStep, Main, Handler

-----------------------------------------------------------------------------
(* The initial state.                                                      *)

LEMMA InitIInv == Init => IInv
  <1> SUFFICES ASSUME Init PROVE IInv
    OBVIOUS
  <1> USE DEF Init
  <1>1. TypeOK
    <2>1. objects \subseteq Clients \X Kinds /\ CoServerState \subseteq Bits
      OBVIOUS
    <2>2. /\ IsCOMActivation \in BOOLEAN
          /\ listLock \in BOOLEAN
          /\ shutdownInitiated \in BOOLEAN
      BY Zenon
    <2> QED
      BY <2>1, <2>2 DEF TypeOK, MainPCs, HandlerPCs, CallPCs, Kinds
  <1>2. StateInv
    BY DEF StateInv
  <1>3. ObjectsInv
    BY DEF ObjectsInv, Kinds
  <1>4. CallCountExact
    <2>1. {c \in Clients : at[c] # "idle"} = {}
      OBVIOUS
    <2> QED
      BY <2>1, FS_EmptySet DEF CallCountExact
  <1>5. RefsExact
    BY DEF RefsExact
  <1> QED
    BY <1>1, <1>2, <1>3, <1>4, <1>5 DEF IInv

-----------------------------------------------------------------------------
(* The steps.                                                              *)

\* The threads inside a call, which ExternalCallCount counts.
Busy == {c \in Clients : at[c] # "idle"}

LEMMA BusyFinite == IsFiniteSet(Busy)
  <1>1. Busy \in SUBSET Clients
    BY DEF Busy
  <1> QED
    BY <1>1, ClientsAssumption, FS_Subset

LEMMA ObjectsFinite == TypeOK => IsFiniteSet(objects)
  <1> SUFFICES ASSUME TypeOK PROVE IsFiniteSet(objects)
    OBVIOUS
  <1>1. Kinds = {"manager"} \union {"defragmenter"}
    BY DEF Kinds
  <1>2. IsFiniteSet(Kinds)
    BY <1>1, FS_Singleton, FS_AddElement
  <1>3. IsFiniteSet(Clients \X Kinds)
    BY <1>2, ClientsAssumption, FS_Product
  <1>4. objects \in SUBSET (Clients \X Kinds)
    BY DEF TypeOK
  <1> QED
    BY <1>3, <1>4, FS_Subset

\* CoSetServerState sets no bit but those it is given.
LEMMA ServerStateType ==
  ASSUME CoServerState \subseteq Bits, NEW F, NEW S, S \subseteq Bits,
         CoSetServerState(F, S)
  PROVE  CoServerState' \subseteq Bits
  BY DEF CoSetServerState

\* One element more or less in a finite set is one more or less in its size.
LEMMA AddOne ==
  ASSUME NEW S, IsFiniteSet(S), NEW x, x \notin S
  PROVE  Cardinality(S \union {x}) = Cardinality(S) + 1
  BY FS_AddElement

LEMMA RemoveOne ==
  ASSUME NEW S, IsFiniteSet(S), NEW x, x \in S
  PROVE  /\ Cardinality(S \ {x}) = Cardinality(S) - 1
         /\ Cardinality(S) - 1 \in Nat
  <1>1. IsFiniteSet(S \ {x}) /\ Cardinality(S \ {x}) = Cardinality(S) - 1
    BY FS_RemoveElement
  <1> QED
    BY <1>1, FS_CardinalityType

\* A step leaves every variable in its type.
LEMMA TypeStep == IInv /\ [Next]_vars => TypeOK'
  <1> SUFFICES ASSUME IInv, [Next]_vars PROVE TypeOK'
    OBVIOUS
  <1> USE DEF IInv, comVars, cancelVars, serviceVars, clientVars, TypeOK,
          Bits, MainPCs, HandlerPCs, CallPCs, Kinds
  <1>1. CASE MainStart
    BY <1>1 DEF MainStart
  <1>2. CASE MainCreateEvent
    BY <1>2 DEF MainCreateEvent
  <1>3. CASE MainInitCallCancellation
    <2>1. CoServerState' \subseteq Bits
      BY <1>3, ServerStateType DEF MainInitCallCancellation
    <2>2. listLock' \in BOOLEAN
      BY <1>3, Zenon DEF MainInitCallCancellation
    <2> QED
      BY <1>3, <2>1, <2>2 DEF MainInitCallCancellation
  <1>4. CASE MainInitCOM
    BY <1>4 DEF MainInitCOM
  <1>5. CASE MainRegister
    <2>1. CoServerState' \subseteq Bits
      BY <1>5, ServerStateType DEF MainRegister, AbandonRegistration
    <2> QED
      BY <1>5, <2>1 DEF MainRegister, AbandonRegistration
  <1>6. CASE MainResume
    <2>1. CoServerState' \subseteq Bits
      BY <1>6, ServerStateType DEF MainResume, AbandonRegistration
    <2> QED
      BY <1>6, <2>1 DEF MainResume, AbandonRegistration
  <1>7. CASE MainRunning
    BY <1>7 DEF MainRunning
  <1>8. CASE MainWake
    BY <1>8 DEF MainWake
  <1>9. CASE MainCleanup
    BY <1>9 DEF MainCleanup
  <1>10. CASE MainTurnOffCallCancellation
    <2>1. CoServerState' \subseteq Bits
      BY <1>10, ServerStateType DEF MainTurnOffCallCancellation
    <2> QED
      BY <1>10, <2>1 DEF MainTurnOffCallCancellation
  <1>11. CASE MainCancelRegisteredCalls
    BY <1>11 DEF MainCancelRegisteredCalls
  <1>12. CASE MainPoll
    BY <1>12 DEF MainPoll
  <1>13. CASE MainRevoke
    <2>1. CoServerState' \subseteq Bits
      BY <1>13, ServerStateType DEF MainRevoke
    <2> QED
      BY <1>13, <2>1 DEF MainRevoke
  <1>14. CASE MainUninitCallCancellation
    <2>1. CoServerState' \subseteq Bits
      BY <1>14, ServerStateType DEF MainUninitCallCancellation
    <2> QED
      BY <1>14, <2>1 DEF MainUninitCallCancellation
  <1>15. CASE MainStop
    BY <1>15 DEF MainStop
  <1>16. CASE Control
    BY <1>16 DEF Control
  <1>17. CASE HandlerExchange
    BY <1>17 DEF HandlerExchange
  <1>18. CASE HandlerSignal
    <2>1. CoServerState' \subseteq Bits
      BY <1>18, ServerStateType DEF HandlerSignal
    <2> QED
      BY <1>18, <2>1 DEF HandlerSignal
  <1>19. CASE HandlerRelease
    BY <1>19 DEF HandlerRelease, ReleaseServerProcess
  <1>20. CASE HandlerStatus
    BY <1>20 DEF HandlerStatus
  <1>21. CASE HandlerSetEvent
    BY <1>21 DEF HandlerSetEvent
  <1>22. ASSUME NEW c \in Clients, BeginCall(c) PROVE TypeOK'
    BY <1>22 DEF BeginCall, MayAsk, CallTo
  <1>23. ASSUME NEW c \in Clients, EnterExternalCall(c) PROVE TypeOK'
    <2>1. c \in Busy
      BY <1>23 DEF EnterExternalCall, Busy
    <2>2. ExternalCallCount - 1 \in Nat
      BY <2>1, BusyFinite, RemoveOne DEF CallCountExact, Busy, IInv
    <2> QED
      BY <1>23, <2>2 DEF EnterExternalCall, CallTo
  <1>24. ASSUME NEW c \in Clients, CreateObject(c) PROVE TypeOK'
    <2>1. request[c] \in Kinds
      BY <1>24 DEF CreateObject, ObjectsInv
    <2> QED
      BY <1>24, <2>1 DEF CreateObject, AddRefServerProcess, CallTo
  <1>25. ASSUME NEW c \in Clients, LeaveExternalCall(c) PROVE TypeOK'
    <2>1. c \in Busy
      BY <1>25 DEF LeaveExternalCall, Busy
    <2>2. ExternalCallCount - 1 \in Nat
      BY <2>1, BusyFinite, RemoveOne DEF CallCountExact, Busy, IInv
    <2> QED
      BY <1>25, <2>2 DEF LeaveExternalCall, CallTo
  <1>26. ASSUME NEW c \in Clients, WorkDone(c) PROVE TypeOK'
    BY <1>26 DEF WorkDone, CallTo
  <1>27. ASSUME NEW c \in Clients, WorkUpdate(c) PROVE TypeOK'
    BY <1>27 DEF WorkUpdate, CallTo
  <1>28. ASSUME NEW c \in Clients, RegisterCallCancelCtx(c) PROVE TypeOK'
    BY <1>28 DEF RegisterCallCancelCtx, CallTo
  <1>29. ASSUME NEW c \in Clients, InsertCancelCtx(c) PROVE TypeOK'
    BY <1>29 DEF InsertCancelCtx, CallTo
  <1>30. ASSUME NEW c \in Clients, CallClient(c) PROVE TypeOK'
    BY <1>30 DEF CallClient, CallTo
  <1>31. ASSUME NEW c \in Clients, Answer(c) PROVE TypeOK'
    BY <1>31 DEF Answer, CallTo
  <1>32. ASSUME NEW c \in Clients, CallCancelled(c) PROVE TypeOK'
    BY <1>32 DEF CallCancelled, CallTo
  <1>33. ASSUME NEW c \in Clients, UnregisterCallCancelCtx(c) PROVE TypeOK'
    BY <1>33 DEF UnregisterCallCancelCtx, CallTo
  <1>34. ASSUME NEW c \in Clients, ReleaseObject(c) PROVE TypeOK'
    <2>1. CoServerState' \subseteq Bits
      <3>1. CoSetServerState(IF ServerProcessRefs = 1 THEN {"ACTIVE"} ELSE {}, {})
        BY <1>34 DEF ReleaseObject
      <3> QED
        BY <3>1, ServerStateType
    <2>2. objects' \subseteq Clients \X Kinds
      BY <1>34 DEF ReleaseObject
    <2> QED
      BY <1>34, <2>1, <2>2 DEF ReleaseObject, ReleaseServerProcess
  <1>35. CASE UNCHANGED vars
    BY <1>35 DEF vars
  <1> QED
    BY <1>1, <1>2, <1>3, <1>4, <1>5, <1>6, <1>7, <1>8, <1>9, <1>10, <1>11,
       <1>12, <1>13, <1>14, <1>15, <1>16, <1>17, <1>18, <1>19, <1>20, <1>21,
       <1>22, <1>23, <1>24, <1>25, <1>26, <1>27, <1>28, <1>29, <1>30, <1>31,
       <1>32, <1>33, <1>34, <1>35 DEF Next, Main, Handler, Serve

\* The service threads keep their order, the clients do not disturb it.
LEMMA StateStep == IInv /\ [Next]_vars => StateInv'
  <1> SUFFICES ASSUME IInv, [Next]_vars PROVE StateInv'
    OBVIOUS
  <1> USE DEF IInv, TypeOK, StateInv, MainPCs, HandlerPCs, comVars,
          cancelVars, serviceVars
  <1>1. CASE MainStart
    BY <1>1 DEF MainStart
  <1>2. CASE MainCreateEvent
    BY <1>2 DEF MainCreateEvent
  <1>3. CASE MainInitCallCancellation
    BY <1>3 DEF MainInitCallCancellation, CoSetServerState
  <1>4. CASE MainInitCOM
    BY <1>4 DEF MainInitCOM
  <1>5. CASE MainRegister
    BY <1>5 DEF MainRegister, CoSetServerState, AbandonRegistration
  <1>6. CASE MainResume
    BY <1>6 DEF MainResume, CoSetServerState, AbandonRegistration
  <1>7. CASE MainRunning
    BY <1>7 DEF MainRunning
  <1>8. CASE MainWake
    BY <1>8 DEF MainWake
  <1>9. CASE MainCleanup
    BY <1>9 DEF MainCleanup
  <1>10. CASE MainTurnOffCallCancellation
    BY <1>10 DEF MainTurnOffCallCancellation, CoSetServerState
  <1>11. CASE MainCancelRegisteredCalls
    BY <1>11 DEF MainCancelRegisteredCalls
  <1>12. CASE MainPoll
    BY <1>12 DEF MainPoll
  <1>13. CASE MainRevoke
    BY <1>13 DEF MainRevoke, CoSetServerState
  <1>14. CASE MainUninitCallCancellation
    BY <1>14 DEF MainUninitCallCancellation, CoSetServerState
  <1>15. CASE MainStop
    BY <1>15 DEF MainStop
  <1>16. CASE Control
    BY <1>16 DEF Control
  <1>17. CASE HandlerExchange
    BY <1>17 DEF HandlerExchange
  <1>18. CASE HandlerSignal
    BY <1>18 DEF HandlerSignal, CoSetServerState
  <1>19. CASE HandlerRelease
    BY <1>19 DEF HandlerRelease, ReleaseServerProcess
  <1>20. CASE HandlerStatus
    BY <1>20 DEF HandlerStatus
  <1>21. CASE HandlerSetEvent
    BY <1>21 DEF HandlerSetEvent
  <1>22. CASE ClientStep
    BY <1>22, ClientFrame
  <1>23. CASE UNCHANGED vars
    BY <1>23 DEF vars
  <1> QED
    BY <1>1, <1>2, <1>3, <1>4, <1>5, <1>6, <1>7, <1>8, <1>9, <1>10, <1>11,
       <1>12, <1>13, <1>14, <1>15, <1>16, <1>17, <1>18, <1>19, <1>20, <1>21,
       <1>22, <1>23 DEF Next, Main, Handler, Serve, ClientStep, ServiceStep

\* The class objects follow the main thread.
LEMMA ObjectsStep == IInv /\ [Next]_vars => ObjectsInv'
  <1> SUFFICES ASSUME IInv, [Next]_vars PROVE ObjectsInv'
    OBVIOUS
  <1> USE DEF IInv, TypeOK, StateInv, ObjectsInv, comVars, cancelVars,
          serviceVars, clientVars, Kinds
  <1>1. CASE MainStart
    BY <1>1 DEF MainStart
  <1>2. CASE MainCreateEvent
    BY <1>2 DEF MainCreateEvent
  <1>3. CASE MainInitCallCancellation
    BY <1>3 DEF MainInitCallCancellation, CoSetServerState
  <1>4. CASE MainInitCOM
    BY <1>4 DEF MainInitCOM
  <1>5. CASE MainRegister
    BY <1>5 DEF MainRegister, CoSetServerState, AbandonRegistration
  <1>6. CASE MainResume
    BY <1>6 DEF MainResume, CoSetServerState, AbandonRegistration
  <1>7. CASE MainRunning
    BY <1>7 DEF MainRunning
  <1>8. CASE MainWake
    BY <1>8 DEF MainWake
  <1>9. CASE MainCleanup
    BY <1>9 DEF MainCleanup
  <1>10. CASE MainTurnOffCallCancellation
    BY <1>10 DEF MainTurnOffCallCancellation, CoSetServerState
  <1>11. CASE MainCancelRegisteredCalls
    BY <1>11 DEF MainCancelRegisteredCalls
  <1>12. CASE MainPoll
    BY <1>12 DEF MainPoll
  <1>13. CASE MainRevoke
    BY <1>13 DEF MainRevoke, CoSetServerState
  <1>14. CASE MainUninitCallCancellation
    BY <1>14 DEF MainUninitCallCancellation, CoSetServerState
  <1>15. CASE MainStop
    BY <1>15 DEF MainStop
  <1>16. CASE Control
    BY <1>16 DEF Control
  <1>17. CASE HandlerExchange
    BY <1>17 DEF HandlerExchange
  <1>18. CASE HandlerSignal
    BY <1>18 DEF HandlerSignal, CoSetServerState
  <1>19. CASE HandlerRelease
    BY <1>19 DEF HandlerRelease, ReleaseServerProcess
  <1>20. CASE HandlerStatus
    BY <1>20 DEF HandlerStatus
  <1>21. CASE HandlerSetEvent
    BY <1>21 DEF HandlerSetEvent
  <1>22. ASSUME NEW c \in Clients, BeginCall(c) PROVE ObjectsInv'
    BY <1>22 DEF BeginCall, MayAsk, CallTo
  <1>23. ASSUME NEW c \in Clients, EnterExternalCall(c) PROVE ObjectsInv'
    BY <1>23 DEF EnterExternalCall, CallTo
  <1>24. ASSUME NEW c \in Clients, CreateObject(c) PROVE ObjectsInv'
    BY <1>24 DEF CreateObject, AddRefServerProcess, CallTo
  <1>25. ASSUME NEW c \in Clients, LeaveExternalCall(c) PROVE ObjectsInv'
    BY <1>25 DEF LeaveExternalCall, CallTo
  <1>26. ASSUME NEW c \in Clients, WorkDone(c) PROVE ObjectsInv'
    BY <1>26 DEF WorkDone, CallTo
  <1>27. ASSUME NEW c \in Clients, WorkUpdate(c) PROVE ObjectsInv'
    BY <1>27 DEF WorkUpdate, CallTo
  <1>28. ASSUME NEW c \in Clients, RegisterCallCancelCtx(c) PROVE ObjectsInv'
    BY <1>28 DEF RegisterCallCancelCtx, CallTo
  <1>29. ASSUME NEW c \in Clients, InsertCancelCtx(c) PROVE ObjectsInv'
    BY <1>29 DEF InsertCancelCtx, CallTo
  <1>30. ASSUME NEW c \in Clients, CallClient(c) PROVE ObjectsInv'
    BY <1>30 DEF CallClient, CallTo
  <1>31. ASSUME NEW c \in Clients, Answer(c) PROVE ObjectsInv'
    BY <1>31 DEF Answer, CallTo
  <1>32. ASSUME NEW c \in Clients, CallCancelled(c) PROVE ObjectsInv'
    BY <1>32 DEF CallCancelled, CallTo
  <1>33. ASSUME NEW c \in Clients, UnregisterCallCancelCtx(c) PROVE ObjectsInv'
    BY <1>33 DEF UnregisterCallCancelCtx, CallTo
  <1>34. ASSUME NEW c \in Clients, ReleaseObject(c) PROVE ObjectsInv'
    BY <1>34 DEF ReleaseObject, ReleaseServerProcess, CoSetServerState
  <1>35. CASE UNCHANGED vars
    BY <1>35 DEF vars
  <1> QED
    BY <1>1, <1>2, <1>3, <1>4, <1>5, <1>6, <1>7, <1>8, <1>9, <1>10, <1>11,
       <1>12, <1>13, <1>14, <1>15, <1>16, <1>17, <1>18, <1>19, <1>20, <1>21,
       <1>22, <1>23, <1>24, <1>25, <1>26, <1>27, <1>28, <1>29, <1>30, <1>31,
       <1>32, <1>33, <1>34, <1>35 DEF Next, Main, Handler, Serve

\* A call is counted from CoEnterExternalCall to CoLeaveExternalCall.
LEMMA CallCountStep == IInv /\ [Next]_vars => CallCountExact'
  <1> SUFFICES ASSUME IInv, [Next]_vars PROVE CallCountExact'
    OBVIOUS
  <1> USE DEF IInv, TypeOK, CallCountExact
  <1>1. ASSUME NEW c \in Clients, BeginCall(c) PROVE CallCountExact'
    <2>1. c \notin Busy /\ Busy' = Busy \union {c}
      BY <1>1 DEF BeginCall, MayAsk, CallTo, Busy
    <2> QED
      BY <1>1, <2>1, BusyFinite, AddOne DEF BeginCall, Busy
  <1>2. ASSUME NEW c \in Clients, EnterExternalCall(c) PROVE CallCountExact'
    <2>1. CASE CoServerIsActive
      <3>1. Busy' = Busy
        BY <1>2, <2>1 DEF EnterExternalCall, CallTo, Busy
      <3> QED
        BY <1>2, <2>1, <3>1 DEF EnterExternalCall, Busy
    <2>2. CASE ~CoServerIsActive
      <3>1. c \in Busy /\ Busy' = Busy \ {c}
        BY <1>2, <2>2 DEF EnterExternalCall, CallTo, Busy
      <3> QED
        BY <1>2, <2>2, <3>1, BusyFinite, RemoveOne DEF EnterExternalCall, Busy
    <2> QED
      BY <2>1, <2>2
  <1>3. ASSUME NEW c \in Clients, CreateObject(c) PROVE CallCountExact'
    <2>1. Busy' = Busy
      BY <1>3 DEF CreateObject, AddRefServerProcess, CallTo, Busy, clientVars
    <2> QED
      BY <1>3, <2>1 DEF CreateObject, Busy, comVars
  <1>4. ASSUME NEW c \in Clients, LeaveExternalCall(c) PROVE CallCountExact'
    <2>1. c \in Busy /\ Busy' = Busy \ {c}
      BY <1>4 DEF LeaveExternalCall, CallTo, Busy
    <2> QED
      BY <1>4, <2>1, BusyFinite, RemoveOne DEF LeaveExternalCall, Busy
  <1>5. ASSUME NEW c \in Clients, WorkDone(c) PROVE CallCountExact'
    <2>1. Busy' = Busy
      BY <1>5 DEF WorkDone, CallTo, Busy, clientVars
    <2> QED
      BY <1>5, <2>1 DEF WorkDone, Busy, comVars
  <1>6. ASSUME NEW c \in Clients, WorkUpdate(c) PROVE CallCountExact'
    <2>1. Busy' = Busy
      BY <1>6 DEF WorkUpdate, CallTo, Busy, clientVars
    <2> QED
      BY <1>6, <2>1 DEF WorkUpdate, Busy, comVars
  <1>7. ASSUME NEW c \in Clients, RegisterCallCancelCtx(c) PROVE CallCountExact'
    <2>1. Busy' = Busy
      BY <1>7 DEF RegisterCallCancelCtx, CallTo, Busy, clientVars
    <2> QED
      BY <1>7, <2>1 DEF RegisterCallCancelCtx, Busy, comVars
  <1>8. ASSUME NEW c \in Clients, InsertCancelCtx(c) PROVE CallCountExact'
    <2>1. Busy' = Busy
      BY <1>8 DEF InsertCancelCtx, CallTo, Busy, clientVars
    <2> QED
      BY <1>8, <2>1 DEF InsertCancelCtx, Busy, comVars
  <1>9. ASSUME NEW c \in Clients, CallClient(c) PROVE CallCountExact'
    <2>1. Busy' = Busy
      BY <1>9 DEF CallClient, CallTo, Busy, clientVars
    <2> QED
      BY <1>9, <2>1 DEF CallClient, Busy, comVars
  <1>10. ASSUME NEW c \in Clients, Answer(c) PROVE CallCountExact'
    <2>1. Busy' = Busy
      BY <1>10 DEF Answer, CallTo, Busy, clientVars
    <2> QED
      BY <1>10, <2>1 DEF Answer, Busy, comVars
  <1>11. ASSUME NEW c \in Clients, CallCancelled(c) PROVE CallCountExact'
    <2>1. Busy' = Busy
      BY <1>11 DEF CallCancelled, CallTo, Busy, clientVars
    <2> QED
      BY <1>11, <2>1 DEF CallCancelled, Busy, comVars
  <1>12. ASSUME NEW c \in Clients, UnregisterCallCancelCtx(c) PROVE CallCountExact'
    <2>1. Busy' = Busy
      BY <1>12 DEF UnregisterCallCancelCtx, CallTo, Busy, clientVars
    <2> QED
      BY <1>12, <2>1 DEF UnregisterCallCancelCtx, Busy, comVars
  <1>13. ASSUME NEW c \in Clients, ReleaseObject(c) PROVE CallCountExact'
    <2>1. Busy' = Busy
      BY <1>13 DEF ReleaseObject, ReleaseServerProcess, CoSetServerState, Busy, clientVars
    <2> QED
      BY <1>13, <2>1 DEF ReleaseObject, Busy, comVars
  <1>14. CASE ServiceStep
    BY <1>14, ServiceFrame
  <1>15. CASE UNCHANGED vars
    BY <1>15 DEF vars, comVars, clientVars
  <1> QED
    BY <1>1, <1>2, <1>3, <1>4, <1>5, <1>6, <1>7, <1>8, <1>9, <1>10, <1>11,
       <1>12, <1>13, <1>14, <1>15 DEF Next, Main, Handler, Serve, ClientStep,
       ServiceStep

\* Each object and the service itself keep one reference on the process.
LEMMA RefsStep == IInv /\ [Next]_vars => RefsExact'
  <1> SUFFICES ASSUME IInv, [Next]_vars PROVE RefsExact'
    OBVIOUS
  <1> USE DEF IInv, TypeOK, StateInv, ObjectsInv, RefsExact, KeepAlive,
          comVars, cancelVars, serviceVars, clientVars
  <1>1. CASE MainStart
    BY <1>1 DEF MainStart
  <1>2. CASE MainCreateEvent
    BY <1>2 DEF MainCreateEvent
  <1>3. CASE MainInitCallCancellation
    BY <1>3 DEF MainInitCallCancellation, CoSetServerState
  <1>4. CASE MainInitCOM
    BY <1>4 DEF MainInitCOM
  <1>5. CASE MainRegister
    <2>1. Cardinality(objects) \in Nat
      BY ObjectsFinite, FS_CardinalityType
    <2>2. objects = {} => Cardinality(objects) = 0
      BY FS_EmptySet
    <2> QED
      BY <1>5, <2>1, <2>2 DEF MainRegister, CoSetServerState, AbandonRegistration
  <1>6. CASE MainResume
    <2>1. Cardinality(objects) \in Nat
      BY ObjectsFinite, FS_CardinalityType
    <2>2. objects = {} => Cardinality(objects) = 0
      BY FS_EmptySet
    <2> QED
      BY <1>6, <2>1, <2>2 DEF MainResume, CoSetServerState, AbandonRegistration
  <1>7. CASE MainRunning
    BY <1>7 DEF MainRunning
  <1>8. CASE MainWake
    BY <1>8 DEF MainWake
  <1>9. CASE MainCleanup
    BY <1>9 DEF MainCleanup
  <1>10. CASE MainTurnOffCallCancellation
    BY <1>10 DEF MainTurnOffCallCancellation, CoSetServerState
  <1>11. CASE MainCancelRegisteredCalls
    BY <1>11 DEF MainCancelRegisteredCalls
  <1>12. CASE MainPoll
    BY <1>12 DEF MainPoll
  <1>13. CASE MainRevoke
    BY <1>13 DEF MainRevoke, CoSetServerState
  <1>14. CASE MainUninitCallCancellation
    BY <1>14 DEF MainUninitCallCancellation, CoSetServerState
  <1>15. CASE MainStop
    BY <1>15 DEF MainStop
  <1>16. CASE Control
    BY <1>16 DEF Control
  <1>17. CASE HandlerExchange
    BY <1>17 DEF HandlerExchange
  <1>18. CASE HandlerSignal
    BY <1>18 DEF HandlerSignal, CoSetServerState
  <1>19. CASE HandlerRelease
    <2>1. Cardinality(objects) \in Nat
      BY ObjectsFinite, FS_CardinalityType
    <2>2. objects = {} => Cardinality(objects) = 0
      BY FS_EmptySet
    <2> QED
      BY <1>19, <2>1, <2>2 DEF HandlerRelease, ReleaseServerProcess
  <1>20. CASE HandlerStatus
    BY <1>20 DEF HandlerStatus
  <1>21. CASE HandlerSetEvent
    BY <1>21 DEF HandlerSetEvent
  <1>22. ASSUME NEW c \in Clients, BeginCall(c) PROVE RefsExact'
    BY <1>22 DEF BeginCall, MayAsk, CallTo
  <1>23. ASSUME NEW c \in Clients, EnterExternalCall(c) PROVE RefsExact'
    BY <1>23 DEF EnterExternalCall, CallTo
  <1>24. ASSUME NEW c \in Clients, CreateObject(c) PROVE RefsExact'
    <2>1. classObjects # "none" /\ <<c, request[c]>> \notin objects
      BY <1>24 DEF CreateObject
    <2>2. Cardinality(objects') = Cardinality(objects) + 1
      BY <1>24, <2>1, ObjectsFinite, AddOne DEF CreateObject
    <2>3. Cardinality(objects) \in Nat
      BY ObjectsFinite, FS_CardinalityType
    <2> QED
      BY <1>24, <2>1, <2>2, <2>3 DEF CreateObject, AddRefServerProcess
  <1>25. ASSUME NEW c \in Clients, LeaveExternalCall(c) PROVE RefsExact'
    BY <1>25 DEF LeaveExternalCall, CallTo
  <1>26. ASSUME NEW c \in Clients, WorkDone(c) PROVE RefsExact'
    BY <1>26 DEF WorkDone, CallTo
  <1>27. ASSUME NEW c \in Clients, WorkUpdate(c) PROVE RefsExact'
    BY <1>27 DEF WorkUpdate, CallTo
  <1>28. ASSUME NEW c \in Clients, RegisterCallCancelCtx(c) PROVE RefsExact'
    BY <1>28 DEF RegisterCallCancelCtx, CallTo
  <1>29. ASSUME NEW c \in Clients, InsertCancelCtx(c) PROVE RefsExact'
    BY <1>29 DEF InsertCancelCtx, CallTo
  <1>30. ASSUME NEW c \in Clients, CallClient(c) PROVE RefsExact'
    BY <1>30 DEF CallClient, CallTo
  <1>31. ASSUME NEW c \in Clients, Answer(c) PROVE RefsExact'
    BY <1>31 DEF Answer, CallTo
  <1>32. ASSUME NEW c \in Clients, CallCancelled(c) PROVE RefsExact'
    BY <1>32 DEF CallCancelled, CallTo
  <1>33. ASSUME NEW c \in Clients, UnregisterCallCancelCtx(c) PROVE RefsExact'
    BY <1>33 DEF UnregisterCallCancelCtx, CallTo
  <1>34. ASSUME NEW c \in Clients, ReleaseObject(c) PROVE RefsExact'
    <2>1. PICK kind \in Kinds : <<c, kind>> \in objects /\ objects' = objects \ {<<c, kind>>}
      BY <1>34 DEF ReleaseObject
    <2>2. classObjects # "none"
      BY <2>1
    <2>3. Cardinality(objects') = Cardinality(objects) - 1
      BY <2>1, ObjectsFinite, RemoveOne
    <2>4. Cardinality(objects) \in Nat
      BY ObjectsFinite, FS_CardinalityType
    <2> QED
      BY <1>34, <2>2, <2>3, <2>4 DEF ReleaseObject, ReleaseServerProcess
  <1>35. CASE UNCHANGED vars
    BY <1>35 DEF vars
  <1> QED
    BY <1>1, <1>2, <1>3, <1>4, <1>5, <1>6, <1>7, <1>8, <1>9, <1>10, <1>11,
       <1>12, <1>13, <1>14, <1>15, <1>16, <1>17, <1>18, <1>19, <1>20, <1>21,
       <1>22, <1>23, <1>24, <1>25, <1>26, <1>27, <1>28, <1>29, <1>30, <1>31,
       <1>32, <1>33, <1>34, <1>35 DEF Next, Main, Handler, Serve

LEMMA Invariant == Spec => []IInv
  <1>1. IInv /\ [Next]_vars => IInv'
    BY TypeStep, StateStep, ObjectsStep, CallCountStep, RefsStep DEF IInv
  <1> QED
    BY InitIInv, <1>1, PTL DEF Spec

-----------------------------------------------------------------------------
(* The theorems.                                                           *)

\* Every variable of the service and of the COM library stays in its type:
\* the count of external calls in particular never drops below zero.
THEOREM TypeCorrect == Spec => []TypeOK
  <1>1. IInv => TypeOK
    BY DEF IInv
  <1> QED
    BY Invariant, <1>1, PTL

\* The count SvxServiceMain polls before it tears COM down is the number of
\* calls in progress (CoEnterExternalCall, CoLeaveExternalCall).
THEOREM CallCount == Spec => []CallCountExact
  <1>1. IInv => CallCountExact
    BY DEF IInv
  <1> QED
    BY Invariant, <1>1, PTL

\* COM's reference count for the process is one for each live object and one
\* for the service, which SvxSignalServiceInitiateShutdown gives back once.
THEOREM References == Spec => []RefsExact
  <1>1. IInv => RefsExact
    BY DEF IInv
  <1> QED
    BY Invariant, <1>1, PTL

\* SvxServiceHandlerEx has returned before SvxServiceMain leaves its wait, so
\* that the two never touch gServiceStatus or ghShutdownEvent together.
THEOREM ThreadsApart == Spec => []HandlerBeforeCleanup
  <1>1. IInv => HandlerBeforeCleanup
    BY DEF IInv, StateInv, HandlerBeforeCleanup
  <1> QED
    BY Invariant, <1>1, PTL

\* The SCM is never told of a state that precedes one it was told before
\* (SvxUpdateServiceStatus, called from both threads).
THEOREM ForwardOnly == Spec => StatusForward
  <1> DEFINE Forward ==
        \/ mainAt = "start" /\ serviceState' = "START_PENDING"
        \/ serviceState = "START_PENDING" /\ serviceState' \in {"RUNNING", "STOP_PENDING"}
        \/ serviceState = "RUNNING" /\ serviceState' = "STOP_PENDING"
        \/ serviceState = "STOP_PENDING" /\ serviceState' = "STOPPED"
  <1>1. IInv /\ [Next]_vars => [Forward]_serviceState
    <2> SUFFICES ASSUME IInv, [Next]_vars PROVE [Forward]_serviceState
      OBVIOUS
    <2> USE DEF IInv, StateInv, serviceVars
    <2>1. CASE MainStart
      BY <2>1 DEF MainStart
    <2>2. CASE MainCreateEvent
      BY <2>2 DEF MainCreateEvent
    <2>3. CASE MainInitCallCancellation
      BY <2>3 DEF MainInitCallCancellation
    <2>4. CASE MainInitCOM
      BY <2>4 DEF MainInitCOM
    <2>5. CASE MainRegister
      BY <2>5 DEF MainRegister
    <2>6. CASE MainResume
      BY <2>6 DEF MainResume
    <2>7. CASE MainRunning
      BY <2>7 DEF MainRunning
    <2>8. CASE MainWake
      BY <2>8 DEF MainWake
    <2>9. CASE MainCleanup
      BY <2>9 DEF MainCleanup
    <2>10. CASE MainTurnOffCallCancellation
      BY <2>10 DEF MainTurnOffCallCancellation
    <2>11. CASE MainCancelRegisteredCalls
      BY <2>11 DEF MainCancelRegisteredCalls
    <2>12. CASE MainPoll
      BY <2>12 DEF MainPoll
    <2>13. CASE MainRevoke
      BY <2>13 DEF MainRevoke
    <2>14. CASE MainUninitCallCancellation
      BY <2>14 DEF MainUninitCallCancellation
    <2>15. CASE MainStop
      BY <2>15 DEF MainStop
    <2>16. CASE Control
      BY <2>16 DEF Control
    <2>17. CASE HandlerExchange
      BY <2>17 DEF HandlerExchange
    <2>18. CASE HandlerSignal
      BY <2>18 DEF HandlerSignal
    <2>19. CASE HandlerRelease
      BY <2>19 DEF HandlerRelease
    <2>20. CASE HandlerStatus
      BY <2>20 DEF HandlerStatus
    <2>21. CASE HandlerSetEvent
      BY <2>21 DEF HandlerSetEvent
    <2>22. CASE ClientStep
      BY <2>22, ClientFrame
    <2>23. CASE UNCHANGED vars
      BY <2>23 DEF vars
    <2> QED
      BY <2>1, <2>2, <2>3, <2>4, <2>5, <2>6, <2>7, <2>8, <2>9, <2>10, <2>11,
         <2>12, <2>13, <2>14, <2>15, <2>16, <2>17, <2>18, <2>19, <2>20, <2>21,
         <2>22, <2>23 DEF Next, Main, Handler, ClientStep
  <1> QED
    BY Invariant, <1>1, PTL DEF Spec, StatusForward
=============================================================================
