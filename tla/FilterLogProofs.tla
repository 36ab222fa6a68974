--------------------------- MODULE FilterLogProofs ---------------------------
(***************************************************************************)
(* Proofs about FilterLog, for any finite set of I/O threads, any events   *)
(* and any limits.                                                         *)
(***************************************************************************)
EXTENDS FilterLog, FiniteSetTheorems, SequenceTheorems, TLAPS

\* Where the threads are, and what they hold there.
StateInv ==
    /\ held # None <=> at[Client] = "copy"
    /\ held # None => room > 0
    /\ \A t \in Threads :
           /\ event[t] # None => at[t] \in {"set", "back", "exchange"}
           /\ at[t] \in {"set", "back"} => event[t] # None
    /\ ~Connected => \A t \in Threads : at[t] = "idle"
    /\ MaxRecordsToAllocate <= highLimit

IInv ==
    /\ TypeOK /\ StateInv /\ RecordsCounted /\ LimitOvershoot /\ DeliveredInOrder
    /\ EventRefsExact

LEMMA AddOne ==
  ASSUME NEW S, IsFiniteSet(S), NEW x, x \notin S
  PROVE  Cardinality(S \union {x}) = Cardinality(S) + 1
  BY FS_AddElement

LEMMA RemoveOne ==
  ASSUME NEW S, IsFiniteSet(S), NEW x \in S
  PROVE  Cardinality(S \ {x}) = Cardinality(S) - 1 /\ Cardinality(S) > 0
  <1>1. Cardinality(S) \in Nat /\ Cardinality(S \ {x}) \in Nat
    BY FS_CardinalityType, FS_RemoveElement
  <1>2. Cardinality(S) # 0
    BY FS_EmptySet
  <1> QED
    BY <1>1, <1>2, FS_RemoveElement

LEMMA SetsFinite ==
  /\ \A pc : IsFiniteSet(WritersAt(pc)) /\ Cardinality(WritersAt(pc)) \in Nat
  /\ \A e : IsFiniteSet(Holders(e)) /\ Cardinality(Holders(e)) \in Nat
  /\ Cardinality(Writers) \in Nat \ {0}
  <1>1. IsFiniteSet(Threads)
    BY ConstantsAssumption, FS_Union, FS_Singleton DEF Threads
  <1>2. \A pc : WritersAt(pc) \in SUBSET Writers
    BY DEF WritersAt
  <1>3. \A e : Holders(e) \in SUBSET Threads
    BY DEF Holders
  <1>4. Cardinality(Writers) \in Nat /\ Cardinality(Writers) # 0
    BY ConstantsAssumption, FS_CardinalityType, FS_EmptySet
  <1> QED
    BY <1>1, <1>2, <1>3, <1>4, ConstantsAssumption, FS_Subset, FS_CardinalityType

LEMMA InitIInv == Init => IInv
  <1> SUFFICES ASSUME Init PROVE IInv
    OBVIOUS
  <1> USE ConstantsAssumption DEF Init
  <1>1. TypeOK
    <2>1. KLogRecordList \in Seq(1 .. MaxCaptures)
      OBVIOUS
    <2>2. /\ at \in [Threads -> WriterPCs \union ClientPCs]
          /\ \A w \in Writers : at[w] \in WriterPCs
          /\ at[Client] \in ClientPCs
      BY DEF Threads, WriterPCs, ClientPCs, NotifyPCs
    <2>3. refs \in [Events -> Nat] /\ signaled \in [Events -> BOOLEAN]
      OBVIOUS
    <2>4. event \in [Threads -> Events \union {None}]
      OBVIOUS
    <2>5. /\ captured \in 0 .. MaxCaptures /\ delivered \in 0 .. MaxCaptures
          /\ held \in 1 .. MaxCaptures \union {None} /\ room \in 0 .. MaxRoom
          /\ MaxRecordsToAllocate \in 0 .. MaxLimit /\ highLimit \in 0 .. MaxLimit
          /\ LoggerTriggerCount \in 0 .. MaxLimit /\ RecordsAllocated \in Nat
      OBVIOUS
    <2>6. driver \in DriverStates /\ found \in BOOLEAN /\ awake \in BOOLEAN
      BY DEF DriverStates
    <2> QED
      BY <2>1, <2>2, <2>3, <2>4, <2>5, <2>6 DEF TypeOK
  <1>2. StateInv
    BY DEF StateInv, Threads, Connected
  <1>3. Cardinality(WritersAt("insert")) = 0 /\ Cardinality(WritersAt("allocate")) = 0
    <2>1. WritersAt("insert") = {} /\ WritersAt("allocate") = {}
      BY DEF WritersAt, Threads
    <2> QED
      BY <2>1, FS_EmptySet
  <1>4. RecordsCounted
    BY <1>3 DEF RecordsCounted, Copying
  <1>5. LimitOvershoot
    BY <1>3, SetsFinite DEF LimitOvershoot
  <1>6. DeliveredInOrder
    BY DEF DeliveredInOrder, Copying
  <1>7. ASSUME NEW e \in Events
        PROVE  refs[e] = Cardinality(Holders(e))
                             + (IF LoggerTriggerEvent = e THEN 1 ELSE 0)
    <2>1. Holders(e) = {}
      BY DEF Holders, Threads
    <2>2. Cardinality(Holders(e)) = 0
      BY <2>1, FS_EmptySet
    <2>3. LoggerTriggerEvent # e /\ refs[e] = 0
      OBVIOUS
    <2> QED
      BY <2>2, <2>3
  <1>8. EventRefsExact
    BY <1>7 DEF EventRefsExact
  <1> QED
    BY <1>1, <1>2, <1>4, <1>5, <1>6, <1>8 DEF IInv

\* Whoever gives up a record or a reference has counted it.
Backed ==
    /\ KLogRecordList # <<>> => RecordsAllocated > 0
    /\ held # None => RecordsAllocated > 0
    /\ \A w \in Writers : at[w] = "insert" => RecordsAllocated > 0
    /\ \A e \in Events : LoggerTriggerEvent = e => refs[e] > 0
    /\ \A t \in Threads, e \in Events : event[t] = e => refs[e] > 0

LEMMA IInvBacked == IInv => Backed
  <1> SUFFICES ASSUME IInv PROVE Backed
    OBVIOUS
  <1> USE DEF IInv, TypeOK
  <1>1. Len(KLogRecordList) \in Nat /\ (KLogRecordList # <<>> => Len(KLogRecordList) > 0)
    OBVIOUS
  <1>2. Copying \in Nat /\ (held # None => Copying > 0)
    BY DEF Copying
  <1>3. ASSUME NEW w \in Writers, at[w] = "insert"
        PROVE  Cardinality(WritersAt("insert")) > 0
    BY <1>3, SetsFinite, RemoveOne DEF WritersAt
  <1>4. ASSUME NEW t \in Threads, NEW e \in Events, event[t] = e
        PROVE  Cardinality(Holders(e)) > 0
    BY <1>4, SetsFinite, RemoveOne DEF Holders
  <1>5. \A e \in Events : LoggerTriggerEvent = e => refs[e] > 0
    BY SetsFinite DEF EventRefsExact
  <1>6. \A t \in Threads, e \in Events : event[t] = e => refs[e] > 0
    BY <1>4, SetsFinite DEF EventRefsExact
  <1> QED
    BY <1>1, <1>2, <1>3, <1>5, <1>6, SetsFinite DEF RecordsCounted, Backed

-----------------------------------------------------------------------------
(* Every step preserves the invariant.                                     *)

LEMMA TypeStep == IInv /\ [Next]_vars => TypeOK'
  <1> SUFFICES ASSUME IInv, [Next]_vars PROVE TypeOK'
    OBVIOUS
  <1>a. Backed
    BY IInvBacked
  <1> USE ConstantsAssumption
      DEF IInv, TypeOK, Threads, Goto, recordVars, limitVars, triggerVars, readerVars,
          WriterPCs, ClientPCs, NotifyPCs, DriverStates
  <1>1. ASSUME NEW w \in Writers, LogWrite(w) PROVE TypeOK'
    BY <1>1 DEF LogWrite
  <1>2. ASSUME NEW w \in Writers, RecordAllocate(w) PROVE TypeOK'
    BY <1>2 DEF RecordAllocate
  <1>3. ASSUME NEW w \in Writers, AllocateFails(w) PROVE TypeOK'
    BY <1>3, <1>a DEF Backed, AllocateFails
  <1>4. ASSUME NEW w \in Writers, InsertRecord(w) PROVE TypeOK'
    BY <1>4 DEF InsertRecord
  <1>5. ASSUME NEW w \in Writers, TestTrigger(w) PROVE TypeOK'
    BY <1>5 DEF TestTrigger
  <1>6. ASSUME NEW t \in Threads, SetEvent(t) PROVE TypeOK'
    BY <1>6 DEF SetEvent, StateInv
  <1>7. ASSUME NEW t \in Threads, SwapBack(t) PROVE TypeOK'
    <2>1. event[t] \in Events
      BY <1>7 DEF SwapBack, StateInv
    <2>2. refs[event[t]] - 1 \in Nat
      BY <2>1, <1>a DEF Backed
    <2> QED
      BY <1>7, <2>1, <2>2 DEF SwapBack
  <1>8. ASSUME SetRecordLimit PROVE TypeOK'
    BY <1>8 DEF SetRecordLimit
  <1>9. ASSUME SetTrigger PROVE TypeOK'
    BY <1>9 DEF SetTrigger
  <1>10. ASSUME ExchangeTrigger PROVE TypeOK'
    BY <1>10, <1>a DEF ExchangeTrigger, Backed
  <1>11. ASSUME SetCount PROVE TypeOK'
    BY <1>11 DEF SetCount
  <1>12. ASSUME CheckTrigger PROVE TypeOK'
    BY <1>12 DEF CheckTrigger
  <1>13. ASSUME QueryLog PROVE TypeOK'
    BY <1>13 DEF QueryLog
  <1>14. ASSUME TakeRecord PROVE TypeOK'
    BY <1>14 DEF TakeRecord
  <1>15. ASSUME CopyRecord PROVE TypeOK'
    <2>1. held \in 1 .. MaxCaptures /\ RecordsAllocated - 1 \in Nat
      BY <1>15, <1>a DEF CopyRecord, StateInv, Backed
    <2>2. room - 1 \in 0 .. MaxRoom
      BY <1>15 DEF CopyRecord, StateInv
    <2> QED
      BY <1>15, <2>1, <2>2 DEF CopyRecord
  <1>16. ASSUME CopyFaults PROVE TypeOK'
    BY <1>16 DEF CopyFaults, StateInv
  <1>17. ASSUME ReadEnds PROVE TypeOK'
    BY <1>17 DEF ReadEnds
  <1>18. ASSUME ClientWakes PROVE TypeOK'
    BY <1>18 DEF ClientWakes
  <1>19. ASSUME ClosePort PROVE TypeOK'
    BY <1>19 DEF ClosePort
  <1>20. ASSUME UnregisterFilter PROVE TypeOK'
    BY <1>20 DEF UnregisterFilter
  <1>21. ASSUME FreeRecord PROVE TypeOK'
    BY <1>21, <1>a DEF Backed, FreeRecord
  <1>22. ASSUME Unloaded PROVE TypeOK'
    BY <1>22 DEF Unloaded
  <1>23. ASSUME NEW t \in Threads, SwapOut(t)
        PROVE  TypeOK'
    BY <1>23 DEF SwapOut
  <1>25. ASSUME CopyFaultsLate PROVE TypeOK'
    BY <1>25 DEF CopyFaultsLate, StateInv
  <1>24. CASE UNCHANGED vars
    BY <1>24 DEF vars
  <1> QED
    BY <1>1, <1>2, <1>3, <1>4, <1>5, <1>6, <1>7, <1>8, <1>9, <1>10, <1>11,
       <1>12, <1>13, <1>14, <1>15, <1>16, <1>17, <1>18, <1>19, <1>20, <1>21,
       <1>22, <1>23, <1>24, <1>25 DEF Next, WriterNext, Notify, ClientNext, UnloadNext

LEMMA StateStep == IInv /\ [Next]_vars => StateInv'
  <1> SUFFICES ASSUME IInv, [Next]_vars PROVE StateInv'
    OBVIOUS
  <1> USE ConstantsAssumption
      DEF IInv, TypeOK, StateInv, Threads, Goto, Connected, recordVars, limitVars,
          triggerVars, readerVars, WriterPCs, ClientPCs, NotifyPCs, DriverStates
  <1>1. ASSUME NEW w \in Writers, LogWrite(w) PROVE StateInv'
    BY <1>1 DEF LogWrite
  <1>2. ASSUME NEW w \in Writers, RecordAllocate(w) PROVE StateInv'
    BY <1>2 DEF RecordAllocate
  <1>3. ASSUME NEW w \in Writers, AllocateFails(w) PROVE StateInv'
    BY <1>3 DEF AllocateFails
  <1>4. ASSUME NEW w \in Writers, InsertRecord(w) PROVE StateInv'
    BY <1>4 DEF InsertRecord
  <1>5. ASSUME NEW w \in Writers, TestTrigger(w) PROVE StateInv'
    BY <1>5 DEF TestTrigger
  <1>6. ASSUME NEW t \in Threads, SwapOut(t) PROVE StateInv'
    BY <1>6 DEF SwapOut
  <1>7. ASSUME NEW t \in Threads, SetEvent(t) PROVE StateInv'
    BY <1>7 DEF SetEvent
  <1>8. ASSUME NEW t \in Threads, SwapBack(t) PROVE StateInv'
    BY <1>8 DEF SwapBack
  <1>9. ASSUME SetRecordLimit PROVE StateInv'
    BY <1>9 DEF SetRecordLimit
  <1>10. ASSUME SetTrigger PROVE StateInv'
    BY <1>10 DEF SetTrigger
  <1>11. ASSUME ExchangeTrigger PROVE StateInv'
    BY <1>11 DEF ExchangeTrigger
  <1>12. ASSUME SetCount PROVE StateInv'
    BY <1>12 DEF SetCount
  <1>13. ASSUME CheckTrigger PROVE StateInv'
    BY <1>13 DEF CheckTrigger
  <1>14. ASSUME QueryLog PROVE StateInv'
    BY <1>14 DEF QueryLog
  <1>15. ASSUME TakeRecord PROVE StateInv'
    <2>1. held' \in Nat /\ held' # None
      BY <1>15 DEF TakeRecord
    <2> QED
      BY <1>15, <2>1 DEF TakeRecord
  <1>16. ASSUME CopyRecord PROVE StateInv'
    BY <1>16 DEF CopyRecord
  <1>17. ASSUME CopyFaults PROVE StateInv'
    BY <1>17 DEF CopyFaults
  <1>18. ASSUME ReadEnds PROVE StateInv'
    BY <1>18 DEF ReadEnds
  <1>19. ASSUME ClientWakes PROVE StateInv'
    BY <1>19 DEF ClientWakes
  <1>20. ASSUME ClosePort PROVE StateInv'
    BY <1>20 DEF ClosePort
  <1>21. ASSUME UnregisterFilter PROVE StateInv'
    BY <1>21 DEF UnregisterFilter
  <1>22. ASSUME FreeRecord PROVE StateInv'
    BY <1>22 DEF FreeRecord
  <1>23. ASSUME Unloaded PROVE StateInv'
    BY <1>23 DEF Unloaded
  <1>25. ASSUME CopyFaultsLate PROVE StateInv'
    BY <1>25 DEF CopyFaultsLate
  <1>24. CASE UNCHANGED vars
    BY <1>24 DEF vars
  <1> QED
    BY <1>1, <1>2, <1>3, <1>4, <1>5, <1>6, <1>7, <1>8, <1>9, <1>10, <1>11,
       <1>12, <1>13, <1>14, <1>15, <1>16, <1>17, <1>18, <1>19, <1>20, <1>21,
       <1>22, <1>23, <1>24, <1>25 DEF Next, WriterNext, Notify, ClientNext, UnloadNext

LEMMA ClientElsewhere ==
  ASSUME TypeOK, NEW to, NEW pc, at' = [at EXCEPT ![Client] = to]
  PROVE  WritersAt(pc)' = WritersAt(pc)
  BY ConstantsAssumption DEF TypeOK, Threads, WritersAt

\* What taking or leaving an event does to the number of its holders.
LEMMA HoldMove ==
  ASSUME TypeOK, NEW t \in Threads, NEW to, NEW e, event' = [event EXCEPT ![t] = to]
  PROVE  Cardinality(Holders(e)') = Cardinality(Holders(e))
             + (IF to = e THEN 1 ELSE 0) - (IF event[t] = e THEN 1 ELSE 0)
  <1>1. to = e => Holders(e)' = Holders(e) \union {t}
    BY DEF TypeOK, Holders
  <1>2. to # e => Holders(e)' = Holders(e) \ {t}
    BY DEF TypeOK, Holders
  <1>3. event[t] = e <=> t \in Holders(e)
    BY DEF Holders
  <1>4. IsFiniteSet(Holders(e)) /\ Cardinality(Holders(e)) \in Nat
    BY SetsFinite
  <1>5. CASE to = e /\ event[t] # e
    <2>1. Cardinality(Holders(e) \union {t}) = Cardinality(Holders(e)) + 1
      BY <1>3, <1>4, <1>5, AddOne
    <2> QED
      BY <1>1, <1>4, <1>5, <2>1
  <1>6. CASE to # e /\ event[t] = e
    <2>1. Cardinality(Holders(e) \ {t}) = Cardinality(Holders(e)) - 1
      BY <1>3, <1>4, <1>6, RemoveOne
    <2> QED
      BY <1>2, <1>4, <1>6, <2>1
  <1>7. CASE (to = e) <=> (event[t] = e)
    <2>1. Holders(e)' = Holders(e)
      BY <1>1, <1>2, <1>3, <1>7
    <2> QED
      BY <2>1, <1>4, <1>7
  <1> QED
    BY <1>5, <1>6, <1>7

LEMMA CountStep == IInv /\ [Next]_vars => RecordsCounted'
  <1> SUFFICES ASSUME IInv, [Next]_vars PROVE RecordsCounted'
    OBVIOUS
  <1>a. RecordsCounted
    BY DEF IInv
  <1>b. TypeOK /\ StateInv
    BY DEF IInv
  <1> USE ConstantsAssumption DEF recordVars, limitVars, triggerVars, readerVars
  <1>c. ASSUME UNCHANGED recordVars, WritersAt("insert")' = WritersAt("insert")
        PROVE  RecordsCounted'
    BY <1>a, <1>c DEF RecordsCounted, Copying
  <1>1. ASSUME NEW w \in Writers, LogWrite(w) PROVE RecordsCounted'
    BY <1>1, <1>b, <1>c DEF LogWrite, Goto, TypeOK, Threads, WritersAt
  <1>2. ASSUME NEW w \in Writers, RecordAllocate(w) PROVE RecordsCounted'
    <2>1. /\ w \notin WritersAt("insert")
          /\ WritersAt("insert")' = WritersAt("insert") \union {w}
      BY <1>2, <1>b DEF RecordAllocate, Goto, WritersAt, TypeOK, Threads
    <2>2. Cardinality(WritersAt("insert")') = Cardinality(WritersAt("insert")) + 1
      BY <2>1, SetsFinite, AddOne
    <2>3. RecordsAllocated \in Nat /\ Len(KLogRecordList) \in Nat
      BY <1>b DEF TypeOK
    <2> QED
      BY <1>2, <1>a, <2>2, <2>3, SetsFinite DEF RecordAllocate, RecordsCounted,
         Copying
  <1>3. ASSUME NEW w \in Writers, AllocateFails(w) PROVE RecordsCounted'
    <2>1. /\ w \in WritersAt("insert")
          /\ WritersAt("insert")' = WritersAt("insert") \ {w}
      BY <1>3, <1>b DEF AllocateFails, Goto, WritersAt, TypeOK, Threads
    <2>2. Cardinality(WritersAt("insert")') = Cardinality(WritersAt("insert")) - 1
      BY <2>1, SetsFinite, RemoveOne
    <2>3. RecordsAllocated \in Nat /\ Len(KLogRecordList) \in Nat
      BY <1>b DEF TypeOK
    <2> QED
      BY <1>3, <1>a, <2>2, <2>3, SetsFinite DEF AllocateFails, RecordsCounted,
         Copying
  <1>4. ASSUME NEW w \in Writers, InsertRecord(w) PROVE RecordsCounted'
    <2>1. /\ w \in WritersAt("insert")
          /\ WritersAt("insert")' = WritersAt("insert") \ {w}
      BY <1>4, <1>b DEF InsertRecord, Goto, WritersAt, TypeOK, Threads
    <2>2. Cardinality(WritersAt("insert")') = Cardinality(WritersAt("insert")) - 1
      BY <2>1, SetsFinite, RemoveOne
    <2>3. RecordsAllocated \in Nat /\ Len(KLogRecordList) \in Nat
      BY <1>b DEF TypeOK
    <2>4. Len(Append(KLogRecordList, captured + 1)) = Len(KLogRecordList) + 1
      BY <1>b DEF TypeOK
    <2> QED
      BY <1>4, <1>a, <2>2, <2>3, <2>4, SetsFinite DEF InsertRecord,
         RecordsCounted, Copying
  <1>5. ASSUME NEW w \in Writers, TestTrigger(w) PROVE RecordsCounted'
    BY <1>5, <1>b, <1>c DEF TestTrigger, Goto, TypeOK, Threads, WritersAt
  <1>6. ASSUME NEW t \in Threads, SwapOut(t) PROVE RecordsCounted'
    <2>1. WritersAt("insert")' = WritersAt("insert")
      BY <1>6, <1>b DEF SwapOut, Goto, WritersAt, TypeOK, Threads
    <2> QED
      BY <1>6, <1>c, <2>1 DEF SwapOut
  <1>7. ASSUME NEW t \in Threads, SetEvent(t) PROVE RecordsCounted'
    <2>1. WritersAt("insert")' = WritersAt("insert")
      BY <1>7, <1>b DEF SetEvent, Goto, WritersAt, TypeOK, Threads
    <2> QED
      BY <1>7, <1>c, <2>1 DEF SetEvent
  <1>8. ASSUME NEW t \in Threads, SwapBack(t) PROVE RecordsCounted'
    <2>1. WritersAt("insert")' = WritersAt("insert")
      BY <1>8, <1>b DEF SwapBack, Goto, WritersAt, TypeOK, Threads
    <2> QED
      BY <1>8, <1>c, <2>1 DEF SwapBack
  <1>9. ASSUME SetRecordLimit PROVE RecordsCounted'
    BY <1>9, <1>c DEF SetRecordLimit, WritersAt
  <1>10. ASSUME SetTrigger PROVE RecordsCounted'
    BY <1>10, <1>b, <1>c, ClientElsewhere DEF SetTrigger, Goto
  <1>11. ASSUME ExchangeTrigger PROVE RecordsCounted'
    BY <1>11, <1>b, <1>c, ClientElsewhere DEF ExchangeTrigger, Goto
  <1>12. ASSUME SetCount PROVE RecordsCounted'
    BY <1>12, <1>b, <1>c, ClientElsewhere DEF SetCount, Goto
  <1>13. ASSUME CheckTrigger PROVE RecordsCounted'
    BY <1>13, <1>b, <1>c, ClientElsewhere DEF CheckTrigger, Goto
  <1>14. ASSUME QueryLog PROVE RecordsCounted'
    BY <1>14, <1>b, <1>c, ClientElsewhere DEF QueryLog, Goto
  <1>15. ASSUME TakeRecord PROVE RecordsCounted'
    <2>1. WritersAt("insert")' = WritersAt("insert")
      BY <1>15, <1>b, ClientElsewhere DEF TakeRecord, Goto
    <2> QED
      BY <1>15, <1>a, <1>b, <2>1, SetsFinite DEF TakeRecord, TypeOK, StateInv,
         RecordsCounted, Copying
  <1>16. ASSUME CopyRecord PROVE RecordsCounted'
    <2>1. WritersAt("insert")' = WritersAt("insert")
      BY <1>16, <1>b, ClientElsewhere DEF CopyRecord, Goto
    <2> QED
      BY <1>16, <1>a, <1>b, <2>1, SetsFinite DEF CopyRecord, TypeOK, StateInv,
         RecordsCounted, Copying
  <1>17. ASSUME CopyFaults PROVE RecordsCounted'
    <2>1. WritersAt("insert")' = WritersAt("insert")
      BY <1>17, <1>b, ClientElsewhere DEF CopyFaults, Goto
    <2> QED
      BY <1>17, <1>a, <1>b, <2>1, SetsFinite DEF CopyFaults, TypeOK, StateInv,
         RecordsCounted, Copying
  <1>18. ASSUME ReadEnds PROVE RecordsCounted'
    BY <1>18, <1>b, <1>c, ClientElsewhere DEF ReadEnds, Goto
  <1>19. ASSUME ClientWakes PROVE RecordsCounted'
    BY <1>19, <1>c DEF ClientWakes, WritersAt
  <1>20. ASSUME ClosePort PROVE RecordsCounted'
    BY <1>20, <1>c DEF ClosePort, WritersAt
  <1>21. ASSUME UnregisterFilter PROVE RecordsCounted'
    BY <1>21, <1>c DEF UnregisterFilter, WritersAt
  <1>22. ASSUME FreeRecord PROVE RecordsCounted'
    <2>1. WritersAt("insert")' = WritersAt("insert")
      BY <1>22 DEF FreeRecord, WritersAt
    <2> QED
      BY <1>22, <1>a, <1>b, <2>1, SetsFinite DEF FreeRecord, TypeOK, StateInv,
         RecordsCounted, Copying
  <1>23. ASSUME Unloaded PROVE RecordsCounted'
    BY <1>23, <1>c DEF Unloaded, WritersAt
  <1>25. ASSUME CopyFaultsLate PROVE RecordsCounted'
    <2>1. WritersAt("insert")' = WritersAt("insert")
      BY <1>25, <1>b, ClientElsewhere DEF CopyFaultsLate, Goto
    <2> QED
      BY <1>25, <1>a, <1>b, <2>1, SetsFinite DEF CopyFaultsLate, TypeOK, StateInv,
         RecordsCounted, Copying
  <1>24. CASE UNCHANGED vars
    BY <1>24, <1>c DEF vars, WritersAt
  <1> QED
    BY <1>1, <1>2, <1>3, <1>4, <1>5, <1>6, <1>7, <1>8, <1>9, <1>10, <1>11,
       <1>12, <1>13, <1>14, <1>15, <1>16, <1>17, <1>18, <1>19, <1>20, <1>21,
       <1>22, <1>23, <1>24, <1>25 DEF Next, WriterNext, Notify, ClientNext, UnloadNext

LEMMA LimitStep == IInv /\ [Next]_vars => LimitOvershoot'
  <1> SUFFICES ASSUME IInv, [Next]_vars PROVE LimitOvershoot'
    OBVIOUS
  <1>a. LimitOvershoot
    BY DEF IInv
  <1>b. TypeOK /\ StateInv
    BY DEF IInv
  <1> USE ConstantsAssumption DEF recordVars, limitVars, triggerVars, readerVars
  <1>c. ASSUME UNCHANGED <<RecordsAllocated, highLimit>>,
               WritersAt("allocate")' = WritersAt("allocate")
        PROVE  LimitOvershoot'
    BY <1>a, <1>c DEF LimitOvershoot
  <1>1. ASSUME NEW w \in Writers, LogWrite(w) PROVE LimitOvershoot'
    <2>1. /\ w \notin WritersAt("allocate")
          /\ WritersAt("allocate")' = WritersAt("allocate") \union {w}
      BY <1>1, <1>b DEF LogWrite, Goto, WritersAt, TypeOK, Threads
    <2>2. Cardinality(WritersAt("allocate")') = Cardinality(WritersAt("allocate")) + 1
      BY <2>1, SetsFinite, AddOne
    <2>3. Cardinality(WritersAt("allocate")) < Cardinality(Writers)
      <3>1. WritersAt("allocate") \subseteq Writers \ {w}
        BY <2>1 DEF WritersAt
      <3>2. /\ Cardinality(WritersAt("allocate")) <= Cardinality(Writers \ {w})
            /\ Cardinality(Writers \ {w}) = Cardinality(Writers) - 1
        BY <3>1, FS_Subset, FS_RemoveElement, RemoveOne
      <3> QED
        BY <3>2, SetsFinite, FS_CardinalityType, FS_RemoveElement
    <2> QED
      BY <1>1, <1>b, <2>2, <2>3, SetsFinite DEF LogWrite, TypeOK, StateInv,
         LimitOvershoot
  <1>2. ASSUME NEW w \in Writers, RecordAllocate(w) PROVE LimitOvershoot'
    <2>1. /\ w \in WritersAt("allocate")
          /\ WritersAt("allocate")' = WritersAt("allocate") \ {w}
      BY <1>2, <1>b DEF RecordAllocate, Goto, WritersAt, TypeOK, Threads
    <2>2. Cardinality(WritersAt("allocate")') = Cardinality(WritersAt("allocate")) - 1
      BY <2>1, SetsFinite, RemoveOne
    <2>3. RecordsAllocated \in Nat /\ Len(KLogRecordList) \in Nat
      BY <1>b DEF TypeOK
    <2> QED
      BY <1>2, <1>a, <2>2, <2>3, SetsFinite DEF RecordAllocate, LimitOvershoot
  <1>3. ASSUME NEW w \in Writers, AllocateFails(w) PROVE LimitOvershoot'
    <2>1. WritersAt("allocate")' = WritersAt("allocate")
      BY <1>3, <1>b DEF AllocateFails, Goto, TypeOK, Threads, WritersAt
    <2> QED
      BY <1>3, <1>a, <1>b, <2>1, SetsFinite DEF AllocateFails, TypeOK, LimitOvershoot
  <1>4. ASSUME NEW w \in Writers, InsertRecord(w) PROVE LimitOvershoot'
    <2>1. WritersAt("allocate")' = WritersAt("allocate")
      BY <1>4, <1>b DEF InsertRecord, Goto, TypeOK, Threads, WritersAt
    <2> QED
      BY <1>4, <1>a, <1>b, <2>1, SetsFinite DEF InsertRecord, TypeOK, LimitOvershoot
  <1>5. ASSUME NEW w \in Writers, TestTrigger(w) PROVE LimitOvershoot'
    BY <1>5, <1>b, <1>c DEF TestTrigger, Goto, TypeOK, Threads, WritersAt
  <1>6. ASSUME NEW t \in Threads, SwapOut(t) PROVE LimitOvershoot'
    <2>1. WritersAt("allocate")' = WritersAt("allocate")
      BY <1>6, <1>b DEF SwapOut, Goto, WritersAt, TypeOK, Threads
    <2> QED
      BY <1>6, <1>c, <2>1 DEF SwapOut
  <1>7. ASSUME NEW t \in Threads, SetEvent(t) PROVE LimitOvershoot'
    <2>1. WritersAt("allocate")' = WritersAt("allocate")
      BY <1>7, <1>b DEF SetEvent, Goto, WritersAt, TypeOK, Threads
    <2> QED
      BY <1>7, <1>c, <2>1 DEF SetEvent
  <1>8. ASSUME NEW t \in Threads, SwapBack(t) PROVE LimitOvershoot'
    <2>1. WritersAt("allocate")' = WritersAt("allocate")
      BY <1>8, <1>b DEF SwapBack, Goto, WritersAt, TypeOK, Threads
    <2> QED
      BY <1>8, <1>c, <2>1 DEF SwapBack
  <1>9. ASSUME SetRecordLimit PROVE LimitOvershoot'
    <2>1. WritersAt("allocate")' = WritersAt("allocate")
      BY <1>9 DEF SetRecordLimit, WritersAt
    <2> QED
      BY <1>9, <1>a, <1>b, <2>1, SetsFinite DEF SetRecordLimit, TypeOK,
         LimitOvershoot
  <1>10. ASSUME SetTrigger PROVE LimitOvershoot'
    BY <1>10, <1>b, <1>c, ClientElsewhere DEF SetTrigger, Goto
  <1>11. ASSUME ExchangeTrigger PROVE LimitOvershoot'
    BY <1>11, <1>b, <1>c, ClientElsewhere DEF ExchangeTrigger, Goto
  <1>12. ASSUME SetCount PROVE LimitOvershoot'
    BY <1>12, <1>b, <1>c, ClientElsewhere DEF SetCount, Goto
  <1>13. ASSUME CheckTrigger PROVE LimitOvershoot'
    BY <1>13, <1>b, <1>c, ClientElsewhere DEF CheckTrigger, Goto
  <1>14. ASSUME QueryLog PROVE LimitOvershoot'
    BY <1>14, <1>b, <1>c, ClientElsewhere DEF QueryLog, Goto
  <1>15. ASSUME TakeRecord PROVE LimitOvershoot'
    BY <1>15, <1>b, <1>c, ClientElsewhere DEF TakeRecord, Goto
  <1>16. ASSUME CopyRecord PROVE LimitOvershoot'
    <2>1. WritersAt("allocate")' = WritersAt("allocate")
      BY <1>16, <1>b, ClientElsewhere DEF CopyRecord, Goto
    <2> QED
      BY <1>16, <1>a, <1>b, <2>1, SetsFinite DEF CopyRecord, TypeOK, StateInv,
         LimitOvershoot
  <1>17. ASSUME CopyFaults PROVE LimitOvershoot'
    BY <1>17, <1>b, <1>c, ClientElsewhere DEF CopyFaults, Goto
  <1>18. ASSUME ReadEnds PROVE LimitOvershoot'
    BY <1>18, <1>b, <1>c, ClientElsewhere DEF ReadEnds, Goto
  <1>19. ASSUME ClientWakes PROVE LimitOvershoot'
    BY <1>19, <1>c DEF ClientWakes, WritersAt
  <1>20. ASSUME ClosePort PROVE LimitOvershoot'
    BY <1>20, <1>c DEF ClosePort, WritersAt
  <1>21. ASSUME UnregisterFilter PROVE LimitOvershoot'
    BY <1>21, <1>c DEF UnregisterFilter, WritersAt
  <1>22. ASSUME FreeRecord PROVE LimitOvershoot'
    <2>1. WritersAt("allocate")' = WritersAt("allocate")
      BY <1>22 DEF FreeRecord, WritersAt
    <2> QED
      BY <1>22, <1>a, <1>b, <2>1, SetsFinite DEF FreeRecord, TypeOK, StateInv,
         LimitOvershoot
  <1>23. ASSUME Unloaded PROVE LimitOvershoot'
    BY <1>23, <1>c DEF Unloaded, WritersAt
  <1>25. ASSUME CopyFaultsLate PROVE LimitOvershoot'
    BY <1>25, <1>b, <1>c, ClientElsewhere DEF CopyFaultsLate, Goto
  <1>24. CASE UNCHANGED vars
    BY <1>24, <1>c DEF vars, WritersAt
  <1> QED
    BY <1>1, <1>2, <1>3, <1>4, <1>5, <1>6, <1>7, <1>8, <1>9, <1>10, <1>11,
       <1>12, <1>13, <1>14, <1>15, <1>16, <1>17, <1>18, <1>19, <1>20, <1>21,
       <1>22, <1>23, <1>24, <1>25 DEF Next, WriterNext, Notify, ClientNext, UnloadNext

\* What DeliveredInOrder says of a connected client.
Ordered(again) ==
    /\ again \in {0, 1} /\ again <= delivered
    /\ held \in {None, delivered - again + 1}
    /\ captured = delivered - again + Copying + Len(KLogRecordList)
    /\ \A i \in 1 .. Len(KLogRecordList) :
           KLogRecordList[i] = delivered - again + Copying + i
    /\ Len(KLogRecordList) \in Nat /\ delivered \in Nat /\ captured \in Nat

LEMMA OrderedPrime ==
  ASSUME NEW again, Ordered(again)'
  PROVE  DeliveredInOrder'
  BY DEF Ordered, DeliveredInOrder, Connected, Copying

LEMMA DeliveryStep == IInv /\ [Next]_vars => DeliveredInOrder'
  <1> SUFFICES ASSUME IInv, [Next]_vars PROVE DeliveredInOrder'
    OBVIOUS
  <1>a. TypeOK /\ StateInv /\ DeliveredInOrder
    BY DEF IInv
  <1>b. Len(KLogRecordList) \in Nat /\ delivered \in Nat /\ captured \in Nat
    <2>1. KLogRecordList \in Seq(1 .. MaxCaptures) /\ delivered \in Nat /\ captured \in Nat
      BY <1>a, ConstantsAssumption DEF TypeOK
    <2> QED
      BY <2>1
  <1>d. Connected => \E again : Ordered(again)
    BY <1>a, <1>b DEF DeliveredInOrder, Ordered
  <1>e. at[Client] # "idle" => Connected
    BY <1>a, ConstantsAssumption DEF StateInv, Threads
  <1> USE ConstantsAssumption DEF recordVars, limitVars, triggerVars, readerVars
  <1>c. ASSUME UNCHANGED <<KLogRecordList, captured, delivered, held>>, Connected' => Connected
        PROVE  DeliveredInOrder'
    BY <1>a, <1>c DEF DeliveredInOrder, Copying
  <1>1. ASSUME NEW w \in Writers, InsertRecord(w) PROVE DeliveredInOrder'
    <2>1. Connected
      BY <1>1, <1>a DEF InsertRecord, StateInv, Threads
    <2>2. PICK again : Ordered(again)
      BY <1>d, <2>1
    <2>3. /\ Len(KLogRecordList') = Len(KLogRecordList) + 1
          /\ \A i \in 1 .. Len(KLogRecordList') :
                 KLogRecordList'[i] = IF i \in 1 .. Len(KLogRecordList) THEN KLogRecordList[i]
                                      ELSE captured + 1
      BY <1>1, <1>a DEF InsertRecord, TypeOK
    <2>4. Copying' = Copying /\ Copying \in {0, 1}
      BY <1>1 DEF InsertRecord, Copying
    <2>5. Ordered(again)'
      BY <1>1, <2>2, <2>3, <2>4 DEF InsertRecord, Ordered
    <2> QED
      BY <2>5, OrderedPrime
  <1>2. ASSUME TakeRecord PROVE DeliveredInOrder'
    <2>1. PICK again : Ordered(again)
      BY <1>2, <1>d, <1>e DEF TakeRecord
    <2>2. held = None
      BY <1>2, <1>a DEF TakeRecord, StateInv
    <2>3. /\ Len(KLogRecordList') = Len(KLogRecordList) - 1
          /\ \A i \in 1 .. Len(KLogRecordList') :
                 KLogRecordList'[i] = KLogRecordList[i + 1] /\ i + 1 \in 1 .. Len(KLogRecordList)
          /\ held' = KLogRecordList[1] /\ 1 \in 1 .. Len(KLogRecordList)
      BY <1>2, <1>a DEF TakeRecord, TypeOK
    <2>4. Copying = 0 /\ held' = delivered - again + 1
      BY <2>1, <2>2, <2>3 DEF Ordered, Copying
    <2>5. Copying' = 1
      BY <2>1, <2>4 DEF Ordered, Copying
    <2>6. Ordered(again)'
      BY <1>2, <2>1, <2>3, <2>4, <2>5 DEF TakeRecord, Ordered
    <2> QED
      BY <2>6, OrderedPrime
  <1>3. ASSUME CopyRecord PROVE DeliveredInOrder'
    <2>1. PICK again : Ordered(again)
      BY <1>3, <1>d, <1>e DEF CopyRecord
    <2>2. held # None
      BY <1>3, <1>a DEF CopyRecord, StateInv
    <2>3. Copying = 1 /\ Copying' = 0 /\ delivered' = delivered - again + 1
      BY <1>3, <2>1, <2>2 DEF CopyRecord, Ordered, Copying
    <2>4. Ordered(0)'
      BY <1>3, <2>1, <2>3 DEF CopyRecord, Ordered
    <2> QED
      BY <2>4, OrderedPrime
  <1>f. ASSUME at[Client] = "copy", KLogRecordList' = <<held>> \o KLogRecordList
        PROVE  /\ held # None
               /\ Len(KLogRecordList') = Len(KLogRecordList) + 1
               /\ \A i \in 1 .. Len(KLogRecordList') :
                      /\ i = 1 => KLogRecordList'[i] = held
                      /\ i # 1 => /\ i - 1 \in 1 .. Len(KLogRecordList)
                                  /\ KLogRecordList'[i] = KLogRecordList[i - 1]
    <2>1. held # None
      BY <1>a, <1>f DEF StateInv
    <2>2. held \in Nat /\ KLogRecordList \in Seq(Nat)
      BY <1>a, <2>1 DEF TypeOK
    <2> QED
      BY <1>f, <2>1, <2>2
  <1>4. ASSUME CopyFaults PROVE DeliveredInOrder'
    <2>1. PICK again : Ordered(again)
      BY <1>4, <1>d, <1>e DEF CopyFaults
    <2>2. held = delivered - again + 1 /\ Copying = 1 /\ Copying' = 0
      BY <1>4, <1>f, <2>1 DEF CopyFaults, Ordered, Copying
    <2>3. Ordered(again)'
      BY <1>4, <1>f, <2>1, <2>2 DEF CopyFaults, Ordered
    <2> QED
      BY <2>3, OrderedPrime
  <1>10. ASSUME CopyFaultsLate PROVE DeliveredInOrder'
    <2>1. PICK again : Ordered(again)
      BY <1>10, <1>d, <1>e DEF CopyFaultsLate
    <2>2. delivered' = delivered - again + 1 /\ held = delivered' /\ Copying = 1 /\ Copying' = 0
      BY <1>10, <1>f, <2>1 DEF CopyFaultsLate, Ordered, Copying
    <2>3. Ordered(1)'
      BY <1>10, <1>f, <2>1, <2>2 DEF CopyFaultsLate, Ordered
    <2> QED
      BY <2>3, OrderedPrime
  <1>5. ASSUME FreeRecord PROVE DeliveredInOrder'
    BY <1>5 DEF FreeRecord, DeliveredInOrder, Connected
  <1>6. ASSUME NEW w \in Writers, LogWrite(w) \/ RecordAllocate(w)
               \/ AllocateFails(w) \/ TestTrigger(w)
        PROVE  DeliveredInOrder'
    BY <1>6, <1>c DEF Connected, LogWrite, RecordAllocate, AllocateFails, TestTrigger
  <1>7. ASSUME NEW t \in Threads, SwapOut(t) \/ SetEvent(t) \/ SwapBack(t)
        PROVE  DeliveredInOrder'
    BY <1>7, <1>c DEF Connected, SwapOut, SetEvent, SwapBack
  <1>8. CASE SetRecordLimit \/ SetTrigger \/ ExchangeTrigger \/ SetCount
             \/ CheckTrigger \/ QueryLog \/ ReadEnds \/ ClientWakes
             \/ ClosePort \/ UnregisterFilter \/ Unloaded
    BY <1>8, <1>c DEF Connected, SetRecordLimit, SetTrigger, ExchangeTrigger, SetCount,
       CheckTrigger, QueryLog, ReadEnds, ClientWakes, ClosePort,
       UnregisterFilter, Unloaded
  <1>9. CASE UNCHANGED vars
    BY <1>9, <1>c DEF vars, Connected
  <1> QED
    BY <1>1, <1>2, <1>3, <1>4, <1>5, <1>6, <1>7, <1>8, <1>9,
       <1>10 DEF Next,
       WriterNext, Notify, ClientNext, UnloadNext

LEMMA RefsStep == IInv /\ [Next]_vars => EventRefsExact'
  <1> SUFFICES ASSUME IInv, [Next]_vars PROVE EventRefsExact'
    OBVIOUS
  <1>a. TypeOK /\ StateInv /\ EventRefsExact
    BY DEF IInv
  <1>b. /\ refs \in [Events -> Nat] /\ event \in [Threads -> Events \union {None}]
        /\ LoggerTriggerEvent \in Events \union {None} /\ None \notin Events
        /\ Client \in Threads
    BY <1>a, ConstantsAssumption DEF TypeOK, Threads
  <1>e. /\ \A t \in Threads : at[t] \in {"idle", "swap"} => event[t] = None
        /\ \A t \in Threads : at[t] = "back" => event[t] # None
    BY <1>a DEF StateInv
  <1> USE ConstantsAssumption DEF recordVars, limitVars, triggerVars, readerVars
  <1>c. ASSUME UNCHANGED <<LoggerTriggerEvent, refs, event>>
        PROVE  EventRefsExact'
    BY <1>a, <1>c DEF EventRefsExact, Holders
  <1>1. ASSUME NEW t \in Threads, SwapOut(t) PROVE EventRefsExact'
    <2> SUFFICES ASSUME NEW e \in Events
                 PROVE  refs'[e] = Cardinality(Holders(e)')
                            + (IF LoggerTriggerEvent' = e THEN 1 ELSE 0)
      BY DEF EventRefsExact
    <2>1. /\ refs[e] = Cardinality(Holders(e)) + (IF LoggerTriggerEvent = e THEN 1 ELSE 0)
          /\ refs[e] \in Nat /\ Cardinality(Holders(e)) \in Nat
      BY <1>a, <1>b, SetsFinite DEF EventRefsExact
    <2>2. event' = [event EXCEPT ![t] = LoggerTriggerEvent]
      BY <1>1 DEF SwapOut
    <2>3. Cardinality(Holders(e)') = Cardinality(Holders(e))
              + (IF LoggerTriggerEvent = e THEN 1 ELSE 0) - (IF event[t] = e THEN 1 ELSE 0)
      BY <1>a, <2>2, HoldMove
    <2> QED
      BY <1>1, <1>b, <1>e, <2>1, <2>3 DEF SwapOut
  <1>2. ASSUME NEW t \in Threads, SwapBack(t) PROVE EventRefsExact'
    <2> SUFFICES ASSUME NEW e \in Events
                 PROVE  refs'[e] = Cardinality(Holders(e)')
                            + (IF LoggerTriggerEvent' = e THEN 1 ELSE 0)
      BY DEF EventRefsExact
    <2>1. /\ refs[e] = Cardinality(Holders(e)) + (IF LoggerTriggerEvent = e THEN 1 ELSE 0)
          /\ refs[e] \in Nat /\ Cardinality(Holders(e)) \in Nat
      BY <1>a, <1>b, SetsFinite DEF EventRefsExact
    <2>2. event' = [event EXCEPT ![t] = None]
      BY <1>2 DEF SwapBack
    <2>3. Cardinality(Holders(e)') = Cardinality(Holders(e))
              + (IF None = e THEN 1 ELSE 0) - (IF event[t] = e THEN 1 ELSE 0)
      BY <1>a, <2>2, HoldMove
    <2> QED
      BY <1>2, <1>b, <1>e, <2>1, <2>3 DEF SwapBack
  <1>3. ASSUME SetTrigger PROVE EventRefsExact'
    <2> SUFFICES ASSUME NEW e \in Events
                 PROVE  refs'[e] = Cardinality(Holders(e)')
                            + (IF LoggerTriggerEvent' = e THEN 1 ELSE 0)
      BY DEF EventRefsExact
    <2>1. /\ refs[e] = Cardinality(Holders(e)) + (IF LoggerTriggerEvent = e THEN 1 ELSE 0)
          /\ refs[e] \in Nat /\ Cardinality(Holders(e)) \in Nat
      BY <1>a, <1>b, SetsFinite DEF EventRefsExact
    <2>2. PICK n \in Events \union {None} :
              /\ event' = [event EXCEPT ![Client] = n]
              /\ refs' = IF n = None THEN refs ELSE [refs EXCEPT ![n] = refs[n] + 1]
      BY <1>3 DEF SetTrigger
    <2>3. /\ event[Client] = None /\ e # None /\ UNCHANGED LoggerTriggerEvent
          /\ refs'[e] = refs[e] + (IF n = e THEN 1 ELSE 0)
      BY <1>3, <1>b, <1>e, <2>2 DEF SetTrigger
    <2>4. Cardinality(Holders(e)') = Cardinality(Holders(e))
              + (IF n = e THEN 1 ELSE 0) - (IF event[Client] = e THEN 1 ELSE 0)
      BY <1>a, <2>2, HoldMove DEF Threads
    <2> QED
      BY <2>1, <2>3, <2>4
  <1>4. ASSUME ExchangeTrigger PROVE EventRefsExact'
    <2> SUFFICES ASSUME NEW e \in Events
                 PROVE  refs'[e] = Cardinality(Holders(e)')
                            + (IF LoggerTriggerEvent' = e THEN 1 ELSE 0)
      BY DEF EventRefsExact
    <2>1. /\ refs[e] = Cardinality(Holders(e)) + (IF LoggerTriggerEvent = e THEN 1 ELSE 0)
          /\ refs[e] \in Nat /\ Cardinality(Holders(e)) \in Nat
      BY <1>a, <1>b, SetsFinite DEF EventRefsExact
    <2>2. event' = [event EXCEPT ![Client] = None]
      BY <1>4 DEF ExchangeTrigger
    <2>3. Cardinality(Holders(e)') = Cardinality(Holders(e))
              + (IF None = e THEN 1 ELSE 0) - (IF event[Client] = e THEN 1 ELSE 0)
      BY <1>a, <2>2, HoldMove DEF Threads
    <2> QED
      BY <1>4, <1>b, <2>1, <2>3 DEF ExchangeTrigger
  <1>5. ASSUME NEW w \in Writers, LogWrite(w) \/ RecordAllocate(w)
               \/ AllocateFails(w) \/ InsertRecord(w) \/ TestTrigger(w)
        PROVE  EventRefsExact'
    BY <1>5, <1>c DEF LogWrite, RecordAllocate, AllocateFails, InsertRecord,
       TestTrigger
  <1>6. ASSUME NEW t \in Threads, SetEvent(t)
        PROVE  EventRefsExact'
    BY <1>6, <1>c DEF SetEvent
  <1>7. CASE SetRecordLimit \/ SetCount \/ CheckTrigger \/ QueryLog
             \/ TakeRecord \/ CopyRecord \/ CopyFaults \/ CopyFaultsLate \/ ReadEnds
             \/ ClientWakes \/ ClosePort \/ UnregisterFilter \/ FreeRecord
             \/ Unloaded
    BY <1>7, <1>c DEF SetRecordLimit, SetCount, CheckTrigger, QueryLog,
       TakeRecord, CopyRecord, CopyFaults, CopyFaultsLate, ReadEnds, ClientWakes,
       ClosePort, UnregisterFilter, FreeRecord, Unloaded
  <1>8. CASE UNCHANGED vars
    BY <1>8, <1>c DEF vars
  <1> QED
    BY <1>1, <1>2, <1>3, <1>4, <1>5, <1>6, <1>7, <1>8 DEF Next, WriterNext,
       Notify, ClientNext, UnloadNext

LEMMA Invariant == Spec => []IInv
  <1>1. IInv /\ [Next]_vars => IInv'
    BY TypeStep, StateStep, CountStep, LimitStep, DeliveryStep, RefsStep DEF IInv
  <1> QED
    BY InitIInv, <1>1, PTL DEF Spec

-----------------------------------------------------------------------------
(* The list is a queue.                                                    *)

\* What has not been delivered is one sequence, and the record that an I/O thread is
\* about to insert has been counted against the limit.
LEMMA PendingIs ==
  ASSUME IInv
  PROVE  /\ Pending \in Seq(Nat) /\ Len(Pending) = Copying + Len(KLogRecordList)
         /\ held = None => Pending = KLogRecordList
         /\ held # None => /\ Pending # <<>> /\ Head(Pending) = held
                           /\ Tail(Pending) = KLogRecordList
  <1>1. KLogRecordList \in Seq(1 .. MaxCaptures) /\ held \in 1 .. MaxCaptures \union {None}
        /\ MaxCaptures \in Nat
    BY ConstantsAssumption DEF IInv, TypeOK
  <1>2. KLogRecordList \in Seq(Nat)
    BY <1>1
  <1>3. CASE held = None
    BY <1>2, <1>3 DEF Pending, Copying
  <1>4. CASE held # None
    <2>1. held \in Nat
      BY <1>1, <1>4
    <2>2. Pending = <<held>> \o KLogRecordList /\ <<held>> \in Seq(Nat)
      BY <1>4, <2>1 DEF Pending
    <2>3. Pending \in Seq(Nat) /\ Len(Pending) = 1 + Len(KLogRecordList) /\ Pending[1] = held
          /\ \A i \in 1 .. Len(KLogRecordList) : Pending[i + 1] = KLogRecordList[i]
      BY <1>2, <2>1, <2>2
    <2>4. Pending # <<>> /\ Head(Pending) = held
      BY <2>3
    <2>5. Tail(Pending) \in Seq(Nat) /\ Len(Tail(Pending)) = Len(KLogRecordList)
          /\ \A i \in 1 .. Len(KLogRecordList) : Tail(Pending)[i] = KLogRecordList[i]
      BY <1>2, <2>3
    <2>6. Tail(Pending) = KLogRecordList
      BY <1>2, <2>5, SeqEqual
    <2> QED
      BY <1>4, <2>3, <2>4, <2>6 DEF Copying
  <1> QED
    BY <1>3, <1>4

LEMMA RoomToEnter ==
  ASSUME IInv, NEW w \in Writers, at[w] = "insert"
  PROVE  Len(Pending) < MaxLimit + Cardinality(Writers) - 1
  <1>1. w \in WritersAt("insert")
    BY DEF WritersAt
  <1>2. Cardinality(WritersAt("insert")) > 0
    BY <1>1, SetsFinite, RemoveOne
  <1>3. Cardinality(WritersAt("allocate")) \in Nat /\ Cardinality(WritersAt("insert")) \in Nat
        /\ Cardinality(Writers) \in Nat
    BY SetsFinite
  <1>4. highLimit <= MaxLimit /\ highLimit \in Nat /\ MaxLimit \in Nat
    BY ConstantsAssumption DEF IInv, TypeOK
  <1>5. Len(Pending) = Copying + Len(KLogRecordList) /\ Len(Pending) \in Nat
    BY PendingIs
  <1>6. RecordsAllocated = Len(Pending) + Cardinality(WritersAt("insert"))
        /\ RecordsAllocated + Cardinality(WritersAt("allocate")) < highLimit + Cardinality(Writers)
    <2>1. Len(KLogRecordList) \in Nat /\ Copying \in Nat
      BY DEF IInv, TypeOK, Copying
    <2> QED
      BY <1>3, <1>5, <2>1 DEF IInv, RecordsCounted, LimitOvershoot
  <1> QED
    BY <1>2, <1>3, <1>4, <1>5, <1>6

\* Every step is one of the queue, or nothing that it shows.
LEMMA LogStep == IInv /\ [Next]_vars => [Log!LogNext]_(Log!logVars)
  <1> SUFFICES ASSUME IInv, [Next]_vars PROVE [Log!LogNext]_(Log!logVars)
    OBVIOUS
  <1> USE DEF Log!LogNext, Log!logVars
  <1>a. TypeOK /\ StateInv /\ DeliveredInOrder /\ IInv'
    BY TypeStep, StateStep, CountStep, LimitStep, DeliveryStep, RefsStep DEF IInv
  <1>b. held \in Nat \union {None} /\ None \notin Nat /\ Client \in Threads
        /\ KLogRecordList \in Seq(Nat)
    BY <1>a, ConstantsAssumption DEF TypeOK, Threads
  <1>c. ASSUME Connected' = Connected, UNCHANGED <<KLogRecordList, held, captured, delivered>>
        PROVE  UNCHANGED Log!logVars
    BY <1>c DEF Pending
  <1>1. ASSUME NEW w \in Writers, InsertRecord(w) PROVE Log!Enter
    <2>1. Connected
      BY <1>1, <1>a DEF InsertRecord, StateInv, Threads
    <2>2. Len(Pending) < MaxLimit + Cardinality(Writers) - 1
      BY <1>1, RoomToEnter DEF InsertRecord
    <2>3. Pending' = Append(Pending, captured + 1)
      <3>1. UNCHANGED held /\ KLogRecordList' = Append(KLogRecordList, captured + 1)
        BY <1>1 DEF InsertRecord
      <3>2. captured + 1 \in Nat
        BY <1>a, ConstantsAssumption DEF TypeOK
      <3>3. CASE held = None
        BY <3>1, <3>2, <3>3, <1>b DEF Pending
      <3>4. CASE held # None
        <4>1. held \in Nat
          BY <1>b, <3>4
        <4>2. <<held>> \o Append(KLogRecordList, captured + 1)
                = Append(<<held>> \o KLogRecordList, captured + 1)
          BY <1>b, <3>2, <4>1
        <4> QED
          BY <3>1, <3>4, <4>2 DEF Pending
      <3> QED
        BY <3>3, <3>4
    <2> QED
      BY <1>1, <2>1, <2>2, <2>3 DEF InsertRecord, Log!Enter, Connected
  <1>2. ASSUME TakeRecord PROVE UNCHANGED Log!logVars
    <2>1. held = None /\ held' = Head(KLogRecordList) /\ KLogRecordList' = Tail(KLogRecordList)
          /\ KLogRecordList # <<>>
      BY <1>2, <1>a DEF TakeRecord, StateInv
    <2>2. held' # None
      BY <2>1, <1>b
    <2>3. KLogRecordList = <<Head(KLogRecordList)>> \o Tail(KLogRecordList)
      BY <2>1, <1>b
    <2>4. Pending' = Pending
      BY <2>1, <2>2, <2>3, <1>a, <1>b, PendingIs DEF Pending
    <2> QED
      BY <1>2, <2>4 DEF TakeRecord, Connected
  <1>3. ASSUME CopyRecord PROVE Log!Get
    <2>1. at[Client] = "copy" /\ Connected
      BY <1>3, <1>a, <1>b DEF CopyRecord, StateInv
    <2>2. held # None
      BY <2>1, <1>a DEF StateInv
    <2>3. Pending' = KLogRecordList
      BY <1>3, <1>b DEF CopyRecord, Pending
    <2>4. Pending # <<>> /\ Head(Pending) = held /\ Tail(Pending) = KLogRecordList
      BY <2>2, PendingIs
    <2> QED
      BY <1>3, <2>1, <2>3, <2>4 DEF CopyRecord, Log!Get, Connected
  <1>4. ASSUME CopyFaults PROVE UNCHANGED Log!logVars
    <2>1. held # None
      BY <1>4, <1>a DEF CopyFaults, StateInv
    <2>2. Pending' = Pending
      BY <1>4, <2>1, <1>b DEF CopyFaults, Pending
    <2> QED
      BY <1>4, <2>2 DEF CopyFaults, Connected
  <1>13. ASSUME CopyFaultsLate PROVE Log!Show
    <2>1. at[Client] = "copy" /\ Connected
      BY <1>13, <1>a, <1>b DEF CopyFaultsLate, StateInv
    <2>2. held # None
      BY <2>1, <1>a DEF StateInv
    <2>3. Pending' = Pending
      BY <1>13, <2>2, <1>b DEF CopyFaultsLate, Pending
    <2>4. Pending # <<>> /\ Head(Pending) = held
      BY <2>2, PendingIs
    <2> QED
      BY <1>13, <2>1, <2>3, <2>4 DEF CopyFaultsLate, Log!Show, Connected
  <1>5. ASSUME ClosePort PROVE UNCHANGED Log!logVars
    BY <1>5, <1>c DEF ClosePort, Connected, recordVars
  <1>6. ASSUME UnregisterFilter PROVE Log!Close
    BY <1>6 DEF UnregisterFilter, Log!Close, Connected, recordVars, Pending
  <1>7. ASSUME FreeRecord PROVE Log!Empty
    <2>1. ~Connected /\ ~Connected' /\ at[Client] = "idle"
      BY <1>7, <1>a, <1>b DEF FreeRecord, Connected, StateInv
    <2>2. held = None
      BY <2>1, <1>a DEF StateInv
    <2> QED
      BY <1>7, <2>1, <2>2, <1>b DEF FreeRecord, Log!Empty, Pending, Connected
  <1>8. ASSUME Unloaded PROVE UNCHANGED Log!logVars
    BY <1>8, <1>c DEF Unloaded, Connected, recordVars
  <1>9. ASSUME NEW w \in Writers, LogWrite(w) \/ RecordAllocate(w)
               \/ AllocateFails(w) \/ TestTrigger(w)
        PROVE  UNCHANGED Log!logVars
    BY <1>9, <1>c DEF LogWrite, RecordAllocate, AllocateFails, TestTrigger, Connected, recordVars
  <1>10. ASSUME NEW t \in Threads, Notify(t) PROVE UNCHANGED Log!logVars
    BY <1>10, <1>c DEF Notify, SwapOut, SetEvent, SwapBack, Connected, recordVars
  <1>11. CASE SetRecordLimit \/ SetTrigger \/ ExchangeTrigger \/ SetCount
              \/ CheckTrigger \/ QueryLog \/ ReadEnds \/ ClientWakes
    BY <1>11, <1>c DEF SetRecordLimit, SetTrigger, ExchangeTrigger, SetCount, CheckTrigger,
       QueryLog, ReadEnds, ClientWakes, Connected, recordVars
  <1>12. CASE UNCHANGED vars
    BY <1>12, <1>c DEF vars, recordVars, Connected
  <1> QED
    BY <1>1, <1>2, <1>3, <1>4, <1>5, <1>6, <1>7, <1>8, <1>9, <1>10, <1>11, <1>12,
       <1>13 DEF Next, WriterNext, ClientNext, UnloadNext

-----------------------------------------------------------------------------

\* Every variable keeps its type; no count goes below zero.
THEOREM TypeCorrect == Spec => []TypeOK
  <1>1. IInv => TypeOK
    BY DEF IInv
  <1> QED
    BY Invariant, <1>1, PTL

\* RecordsAllocated counts the records on the list, being copied or being filled in.
THEOREM RecordsCountedCorrect == Spec => []RecordsCounted
  <1>1. IInv => RecordsCounted
    BY DEF IInv
  <1> QED
    BY Invariant, <1>1, PTL

\* The I/O threads exceed the highest limit by less than one record each.
THEOREM LimitOvershootCorrect == Spec => []LimitOvershoot
  <1>1. IInv => LimitOvershoot
    BY DEF IInv
  <1> QED
    BY Invariant, <1>1, PTL

\* The client gets the records in order and none is skipped; the last one it got is the
\* only one it can get again, after an exception that came late (FragFlt.c:2487).
THEOREM DeliveredInOrderCorrect == Spec => []DeliveredInOrder
  <1>1. IInv => DeliveredInOrder
    BY DEF IInv
  <1> QED
    BY Invariant, <1>1, PTL

\* The driver's references on an event are those of the places that name it.
THEOREM EventRefsExactCorrect == Spec => []EventRefsExact
  <1>1. IInv => EventRefsExact
    BY DEF IInv
  <1> QED
    BY Invariant, <1>1, PTL

\* The list is the queue of RecordLog: whatever threads log, copies fail early or late,
\* or limits and events the client sets, records leave in order, and to the client until
\* the filter is unregistered (FKxFltRecordLogWrite, FKxFltRecordLogRead, FKxFltUnload).
THEOREM LogImplementsQueue == Spec => ImplementsRecordLog
  <1>1. Init => Log!LogInit
    BY DEF Init, Log!LogInit, Pending, Connected
  <1> QED
    BY <1>1, LogStep, Invariant, PTL DEF Spec, ImplementsRecordLog, Log!LogSpec

=============================================================================
