---------------------------- MODULE RWLockProofs ----------------------------
(***************************************************************************)
(* Proofs about RWLock, for any set of threads and any nesting depth.      *)
(*                                                                         *)
(* All of it holds with or without delayed stores.  What these do is in    *)
(* slipped, the readers that got past a writer whose count was delayed:    *)
(* the exclusion and the refinement speak of everyone else, and without    *)
(* delayed stores that is everyone.                                        *)
(***************************************************************************)
EXTENDS RWLock, FiniteSetTheorems, TLAPS

\* Every state of every behaviour is well typed and its counters are exact.
Inv == TypeOK /\ CSInv /\ CountInv /\ HoldInv /\ SharedCountExact /\ SlipInv

LEMMA InitInv == Init => Inv
  <1> SUFFICES ASSUME Init PROVE Inv
    OBVIOUS
  <1> USE DEF Init
  <1>1. TypeOK
    BY DEF TypeOK, PCs
  <1>2. CSInv
    BY ThreadsAssumption DEF CSInv, Entered
  <1>3. CountInv
    BY ThreadsAssumption DEF CountInv
  <1>4. HoldInv
    BY DEF HoldInv, ShPCs
  <1>5. SharedCountExact
    <2>1. Counted = {}
      BY DEF Counted
    <2> QED
      BY <2>1, FS_EmptySet DEF SharedCountExact
  <1>6. SlipInv
    BY DEF SlipInv
  <1> QED
    BY <1>1, <1>2, <1>3, <1>4, <1>5, <1>6 DEF Inv

\* The threads counted in SharedLockCount are finitely many.
LEMMA CountedFinite == TypeOK => IsFiniteSet(Counted)
  <1>1. Counted \in SUBSET Threads
    BY DEF Counted
  <1> QED
    BY <1>1, ThreadsAssumption, FS_Subset

\* One thread more or less in a finite set is one more or less in its size.
LEMMA AddOne ==
  ASSUME NEW S, IsFiniteSet(S), NEW t, t \notin S
  PROVE  Cardinality(S \union {t}) = Cardinality(S) + 1
  BY FS_AddElement

LEMMA RemoveOne ==
  ASSUME NEW S, IsFiniteSet(S), NEW t, t \in S
  PROVE  /\ Cardinality(S \ {t}) = Cardinality(S) - 1
         /\ Cardinality(S) - 1 \in Nat
  <1>1. IsFiniteSet(S \ {t}) /\ Cardinality(S \ {t}) = Cardinality(S) - 1
    BY FS_RemoveElement
  <1> QED
    BY <1>1, FS_CardinalityType

\* A step leaves every variable in its type.
LEMMA NextTypeOK == Inv /\ [Next]_vars => TypeOK'
  <1> SUFFICES ASSUME Inv, [Next]_vars PROVE TypeOK'
    OBVIOUS
  <1> USE ThreadsAssumption, StoreAssumption DEF Inv, TypeOK, cs, Goto, PCs, ExPCs, RxPCs,
         ShPCs, RsPCs
  <1>1. ASSUME NEW t \in Threads, AcquireExclusive(t) PROVE TypeOK'
    BY <1>1 DEF AcquireExclusive
  <1>2. ASSUME NEW t \in Threads, ReleaseExclusive(t) PROVE TypeOK'
    <2>1. excl[t] - 1 \in Nat /\ csOwner = t /\ ReadCount(t) = excl[t]
      BY <1>2 DEF ReleaseExclusive, CSInv, CountInv
    <2> QED
      BY <1>2, <2>1 DEF ReleaseExclusive, WriteCount
  <1>3. ASSUME NEW t \in Threads, AcquireShared(t) PROVE TypeOK'
    BY <1>3 DEF AcquireShared, Drain, ReadCount
  <1>4. ASSUME NEW t \in Threads, ReleaseShared(t) PROVE TypeOK'
    <2>1. t \in Counted
      BY <1>4 DEF ReleaseShared, Counted
    <2>2. SharedLockCount - 1 \in Nat
      BY <2>1, CountedFinite, RemoveOne DEF SharedCountExact
    <2> QED
      BY <1>4, <2>2 DEF ReleaseShared
  <1>5. ASSUME NEW t \in Threads, ExEnter(t) PROVE TypeOK'
    BY <1>5 DEF ExEnter, EnterCS, Drain, ReadCount
  <1>6. ASSUME NEW t \in Threads, ExCount(t) PROVE TypeOK'
    <2>1. ReadCount(t) + 1 \in Nat
      BY DEF ReadCount
    <2> QED
      BY <1>6, <2>1 DEF ExCount, WriteCount
  <1>7. ASSUME NEW t \in Threads, ExTest(t) PROVE TypeOK'
    BY <1>7 DEF ExTest
  <1>8. ASSUME NEW t \in Threads, ExCallWait(t) PROVE TypeOK'
    BY <1>8 DEF ExCallWait, Drain, ReadCount
  <1>9. ASSUME NEW t \in Threads, ExWake(t) PROVE TypeOK'
    BY <1>9 DEF ExWake
  <1>10. ASSUME NEW t \in Threads, ExOwn(t) PROVE TypeOK'
    BY <1>10 DEF ExOwn
  <1>11. ASSUME NEW t \in Threads, RxOwner(t) PROVE TypeOK'
    BY <1>11 DEF RxOwner
  <1>12. ASSUME NEW t \in Threads, RxLeave(t) PROVE TypeOK'
    <2>1. csCount - 1 \in Nat
      BY <1>12 DEF RxLeave, CSInv, Entered
    <2> QED
      BY <1>12, <2>1 DEF RxLeave, LeaveCS, Drain, ReadCount
  <1>13. ASSUME NEW t \in Threads, ShTest(t) PROVE TypeOK'
    BY <1>13 DEF ShTest
  <1>14. ASSUME NEW t \in Threads, ShDec(t) PROVE TypeOK'
    <2>1. t \in Counted
      BY <1>14 DEF ShDec, Counted
    <2>2. SharedLockCount - 1 \in Nat
      BY <2>1, CountedFinite, RemoveOne DEF SharedCountExact
    <2> QED
      BY <1>14, <2>2 DEF ShDec
  <1>15. ASSUME NEW t \in Threads, ShSignal(t) PROVE TypeOK'
    BY <1>15 DEF ShSignal
  <1>16. ASSUME NEW t \in Threads, ShEnter(t) PROVE TypeOK'
    BY <1>16 DEF ShEnter, EnterCS
  <1>17. ASSUME NEW t \in Threads, ShInc(t) PROVE TypeOK'
    BY <1>17 DEF ShInc
  <1>18. ASSUME NEW t \in Threads, ShLeave(t) PROVE TypeOK'
    <2>1. csCount - 1 \in Nat
      BY <1>18 DEF ShLeave, CSInv, Entered
    <2> QED
      BY <1>18, <2>1 DEF ShLeave, LeaveCS
  <1>19. ASSUME NEW t \in Threads, ShOwn(t) PROVE TypeOK'
    BY <1>19 DEF ShOwn
  <1>20. ASSUME NEW t \in Threads, RsTest(t) PROVE TypeOK'
    BY <1>20 DEF RsTest
  <1>21. ASSUME NEW t \in Threads, RsSignal(t) PROVE TypeOK'
    BY <1>21 DEF RsSignal
  <1>22. ASSUME NEW t \in Threads, DrainAlone(t) PROVE TypeOK'
    BY <1>22 DEF DrainAlone, Drain, ReadCount
  <1>23. CASE UNCHANGED vars
    BY <1>23 DEF vars
  <1> QED
    BY <1>1, <1>2, <1>3, <1>4, <1>5, <1>6, <1>7, <1>8, <1>9, <1>10, <1>11,
       <1>12, <1>13, <1>14, <1>15, <1>16, <1>17, <1>18, <1>19, <1>20, <1>21,
       <1>22, <1>23 DEF Next, Run

\* The critical section keeps its owner and its count.
LEMMA CSInvStep == Inv /\ [Next]_vars => CSInv'
  <1> SUFFICES ASSUME Inv, [Next]_vars PROVE CSInv'
    OBVIOUS
  <1> USE ThreadsAssumption DEF Inv, TypeOK, CSInv, HoldInv, Entered, cs, Goto, ShPCs
  <1>1. ASSUME NEW t \in Threads, AcquireExclusive(t) PROVE CSInv'
    BY <1>1 DEF AcquireExclusive
  <1>2. ASSUME NEW t \in Threads, ReleaseExclusive(t) PROVE CSInv'
    BY <1>2 DEF ReleaseExclusive, WriteCount
  <1>3. ASSUME NEW t \in Threads, AcquireShared(t) PROVE CSInv'
    BY <1>3 DEF AcquireShared, Drain
  <1>4. ASSUME NEW t \in Threads, ReleaseShared(t) PROVE CSInv'
    BY <1>4 DEF ReleaseShared
  <1>5. ASSUME NEW t \in Threads, ExEnter(t) PROVE CSInv'
    BY <1>5 DEF ExEnter, EnterCS, Drain
  <1>6. ASSUME NEW t \in Threads, ExCount(t) PROVE CSInv'
    BY <1>6 DEF ExCount, WriteCount
  <1>7. ASSUME NEW t \in Threads, ExTest(t) PROVE CSInv'
    BY <1>7 DEF ExTest
  <1>8. ASSUME NEW t \in Threads, ExCallWait(t) PROVE CSInv'
    BY <1>8 DEF ExCallWait, Drain
  <1>9. ASSUME NEW t \in Threads, ExWake(t) PROVE CSInv'
    BY <1>9 DEF ExWake
  <1>10. ASSUME NEW t \in Threads, ExOwn(t) PROVE CSInv'
    BY <1>10 DEF ExOwn
  <1>11. ASSUME NEW t \in Threads, RxOwner(t) PROVE CSInv'
    BY <1>11 DEF RxOwner
  <1>12. ASSUME NEW t \in Threads, RxLeave(t) PROVE CSInv'
    BY <1>12 DEF RxLeave, LeaveCS, Drain
  <1>13. ASSUME NEW t \in Threads, ShTest(t) PROVE CSInv'
    BY <1>13 DEF ShTest
  <1>14. ASSUME NEW t \in Threads, ShDec(t) PROVE CSInv'
    BY <1>14 DEF ShDec
  <1>15. ASSUME NEW t \in Threads, ShSignal(t) PROVE CSInv'
    BY <1>15 DEF ShSignal
  <1>16. ASSUME NEW t \in Threads, ShEnter(t) PROVE CSInv'
    BY <1>16 DEF ShEnter, EnterCS
  <1>17. ASSUME NEW t \in Threads, ShInc(t) PROVE CSInv'
    BY <1>17 DEF ShInc
  <1>18. ASSUME NEW t \in Threads, ShLeave(t) PROVE CSInv'
    BY <1>18 DEF ShLeave, LeaveCS
  <1>19. ASSUME NEW t \in Threads, ShOwn(t) PROVE CSInv'
    BY <1>19 DEF ShOwn
  <1>20. ASSUME NEW t \in Threads, RsTest(t) PROVE CSInv'
    BY <1>20 DEF RsTest
  <1>21. ASSUME NEW t \in Threads, RsSignal(t) PROVE CSInv'
    BY <1>21 DEF RsSignal
  <1>22. ASSUME NEW t \in Threads, DrainAlone(t) PROVE CSInv'
    BY <1>22 DEF DrainAlone, Drain
  <1>23. CASE UNCHANGED vars
    BY <1>23 DEF vars
  <1> QED
    BY <1>1, <1>2, <1>3, <1>4, <1>5, <1>6, <1>7, <1>8, <1>9, <1>10, <1>11,
       <1>12, <1>13, <1>14, <1>15, <1>16, <1>17, <1>18, <1>19, <1>20, <1>21,
       <1>22, <1>23 DEF Next, Run

\* The owner keeps reading its own recursion count.
LEMMA CountInvStep == Inv /\ [Next]_vars => CountInv'
  <1> SUFFICES ASSUME Inv, [Next]_vars PROVE CountInv'
    OBVIOUS
  <1> USE ThreadsAssumption, StoreAssumption
      DEF Inv, TypeOK, CSInv, CountInv, HoldInv, Entered, ReadCount, cs, Goto, ShPCs
  <1>1. ASSUME NEW t \in Threads, AcquireExclusive(t) PROVE CountInv'
    BY <1>1 DEF AcquireExclusive
  <1>2. ASSUME NEW t \in Threads, ReleaseExclusive(t) PROVE CountInv'
    <2>1. csOwner = t /\ ReadCount(t) = excl[t] /\ excl[t] \in Nat
      BY <1>2 DEF ReleaseExclusive
    <2>2. csOwner' = csOwner /\ csCount' = csCount
      BY <1>2 DEF ReleaseExclusive
    <2>3. \A u \in Threads \ {t} : csOwner # u /\ buffered[u] = NoStore
      BY <2>1
    <2>4. CASE StoreBuffered
      BY <1>2, <2>1, <2>2, <2>3, <2>4 DEF ReleaseExclusive, WriteCount
    <2>5. CASE ~StoreBuffered
      BY <1>2, <2>1, <2>2, <2>3, <2>5 DEF ReleaseExclusive, WriteCount
    <2> QED
      BY <2>4, <2>5
  <1>3. ASSUME NEW t \in Threads, AcquireShared(t) PROVE CountInv'
    BY <1>3 DEF AcquireShared, Drain
  <1>4. ASSUME NEW t \in Threads, ReleaseShared(t) PROVE CountInv'
    BY <1>4 DEF ReleaseShared
  <1>5. ASSUME NEW t \in Threads, ExEnter(t) PROVE CountInv'
    BY <1>5 DEF ExEnter, EnterCS, Drain
  <1>6. ASSUME NEW t \in Threads, ExCount(t) PROVE CountInv'
    <2>1. csOwner = t /\ ReadCount(t) = excl[t] /\ excl[t] \in Nat
      BY <1>6 DEF ExCount
    <2>2. csOwner' = csOwner /\ csCount' = csCount
      BY <1>6 DEF ExCount
    <2>3. \A u \in Threads \ {t} : csOwner # u /\ buffered[u] = NoStore
      BY <2>1
    <2>4. CASE StoreBuffered
      BY <1>6, <2>1, <2>2, <2>3, <2>4 DEF ExCount, WriteCount
    <2>5. CASE ~StoreBuffered
      BY <1>6, <2>1, <2>2, <2>3, <2>5 DEF ExCount, WriteCount
    <2> QED
      BY <2>4, <2>5
  <1>7. ASSUME NEW t \in Threads, ExTest(t) PROVE CountInv'
    BY <1>7 DEF ExTest
  <1>8. ASSUME NEW t \in Threads, ExCallWait(t) PROVE CountInv'
    BY <1>8 DEF ExCallWait, Drain
  <1>9. ASSUME NEW t \in Threads, ExWake(t) PROVE CountInv'
    BY <1>9 DEF ExWake
  <1>10. ASSUME NEW t \in Threads, ExOwn(t) PROVE CountInv'
    BY <1>10 DEF ExOwn
  <1>11. ASSUME NEW t \in Threads, RxOwner(t) PROVE CountInv'
    BY <1>11 DEF RxOwner
  <1>12. ASSUME NEW t \in Threads, RxLeave(t) PROVE CountInv'
    BY <1>12 DEF RxLeave, LeaveCS, Drain
  <1>13. ASSUME NEW t \in Threads, ShTest(t) PROVE CountInv'
    BY <1>13 DEF ShTest
  <1>14. ASSUME NEW t \in Threads, ShDec(t) PROVE CountInv'
    BY <1>14 DEF ShDec
  <1>15. ASSUME NEW t \in Threads, ShSignal(t) PROVE CountInv'
    BY <1>15 DEF ShSignal
  <1>16. ASSUME NEW t \in Threads, ShEnter(t) PROVE CountInv'
    BY <1>16 DEF ShEnter, EnterCS
  <1>17. ASSUME NEW t \in Threads, ShInc(t) PROVE CountInv'
    BY <1>17 DEF ShInc
  <1>18. ASSUME NEW t \in Threads, ShLeave(t) PROVE CountInv'
    <2>1. csOwner = t /\ excl[t] = 0 /\ csCount = 1
      BY <1>18 DEF ShLeave
    <2>2. csOwner' = NoThread /\ ExclusiveLockCount' = ExclusiveLockCount
          /\ buffered' = buffered
      BY <1>18, <2>1 DEF ShLeave, LeaveCS
    <2>3. ReadCount(t) = 0
      BY <1>18, <2>1 DEF ShLeave
    <2> QED
      BY <1>18, <2>1, <2>2, <2>3 DEF ShLeave
  <1>19. ASSUME NEW t \in Threads, ShOwn(t) PROVE CountInv'
    BY <1>19 DEF ShOwn
  <1>20. ASSUME NEW t \in Threads, RsTest(t) PROVE CountInv'
    BY <1>20 DEF RsTest
  <1>21. ASSUME NEW t \in Threads, RsSignal(t) PROVE CountInv'
    BY <1>21 DEF RsSignal
  <1>22. ASSUME NEW t \in Threads, DrainAlone(t) PROVE CountInv'
    BY <1>22 DEF DrainAlone, Drain
  <1>23. CASE UNCHANGED vars
    BY <1>23 DEF vars
  <1> QED
    BY <1>1, <1>2, <1>3, <1>4, <1>5, <1>6, <1>7, <1>8, <1>9, <1>10, <1>11,
       <1>12, <1>13, <1>14, <1>15, <1>16, <1>17, <1>18, <1>19, <1>20, <1>21,
       <1>22, <1>23 DEF Next, Run

\* Holding the lock and asking for it stay apart.
LEMMA HoldInvStep == Inv /\ [Next]_vars => HoldInv'
  <1> SUFFICES ASSUME Inv, [Next]_vars PROVE HoldInv'
    OBVIOUS
  <1> USE DEF Inv, TypeOK, HoldInv, Goto, ShPCs
  <1>1. ASSUME NEW t \in Threads, AcquireExclusive(t) PROVE HoldInv'
    BY <1>1 DEF AcquireExclusive
  <1>2. ASSUME NEW t \in Threads, ReleaseExclusive(t) PROVE HoldInv'
    BY <1>2 DEF ReleaseExclusive, WriteCount
  <1>3. ASSUME NEW t \in Threads, AcquireShared(t) PROVE HoldInv'
    BY <1>3 DEF AcquireShared, Drain
  <1>4. ASSUME NEW t \in Threads, ReleaseShared(t) PROVE HoldInv'
    BY <1>4 DEF ReleaseShared
  <1>5. ASSUME NEW t \in Threads, ExEnter(t) PROVE HoldInv'
    BY <1>5 DEF ExEnter, EnterCS, Drain
  <1>6. ASSUME NEW t \in Threads, ExCount(t) PROVE HoldInv'
    BY <1>6 DEF ExCount, WriteCount
  <1>7. ASSUME NEW t \in Threads, ExTest(t) PROVE HoldInv'
    BY <1>7 DEF ExTest
  <1>8. ASSUME NEW t \in Threads, ExCallWait(t) PROVE HoldInv'
    BY <1>8 DEF ExCallWait, Drain
  <1>9. ASSUME NEW t \in Threads, ExWake(t) PROVE HoldInv'
    BY <1>9 DEF ExWake
  <1>10. ASSUME NEW t \in Threads, ExOwn(t) PROVE HoldInv'
    BY <1>10 DEF ExOwn
  <1>11. ASSUME NEW t \in Threads, RxOwner(t) PROVE HoldInv'
    BY <1>11 DEF RxOwner
  <1>12. ASSUME NEW t \in Threads, RxLeave(t) PROVE HoldInv'
    BY <1>12 DEF RxLeave, LeaveCS, Drain
  <1>13. ASSUME NEW t \in Threads, ShTest(t) PROVE HoldInv'
    BY <1>13 DEF ShTest
  <1>14. ASSUME NEW t \in Threads, ShDec(t) PROVE HoldInv'
    BY <1>14 DEF ShDec
  <1>15. ASSUME NEW t \in Threads, ShSignal(t) PROVE HoldInv'
    BY <1>15 DEF ShSignal
  <1>16. ASSUME NEW t \in Threads, ShEnter(t) PROVE HoldInv'
    BY <1>16 DEF ShEnter, EnterCS
  <1>17. ASSUME NEW t \in Threads, ShInc(t) PROVE HoldInv'
    BY <1>17 DEF ShInc
  <1>18. ASSUME NEW t \in Threads, ShLeave(t) PROVE HoldInv'
    BY <1>18 DEF ShLeave, LeaveCS
  <1>19. ASSUME NEW t \in Threads, ShOwn(t) PROVE HoldInv'
    BY <1>19 DEF ShOwn
  <1>20. ASSUME NEW t \in Threads, RsTest(t) PROVE HoldInv'
    BY <1>20 DEF RsTest
  <1>21. ASSUME NEW t \in Threads, RsSignal(t) PROVE HoldInv'
    BY <1>21 DEF RsSignal
  <1>22. ASSUME NEW t \in Threads, DrainAlone(t) PROVE HoldInv'
    BY <1>22 DEF DrainAlone, Drain
  <1>23. CASE UNCHANGED vars
    BY <1>23 DEF vars
  <1> QED
    BY <1>1, <1>2, <1>3, <1>4, <1>5, <1>6, <1>7, <1>8, <1>9, <1>10, <1>11,
       <1>12, <1>13, <1>14, <1>15, <1>16, <1>17, <1>18, <1>19, <1>20, <1>21,
       <1>22, <1>23 DEF Next, Run

\* A step counts in SharedLockCount exactly the threads it moves.
LEMMA SharedCountStep == Inv /\ [Next]_vars => SharedCountExact'
  <1> SUFFICES ASSUME Inv, [Next]_vars PROVE SharedCountExact'
    OBVIOUS
  <1> USE DEF Inv, TypeOK, SharedCountExact, Goto
  <1>1. ASSUME NEW t \in Threads, AcquireExclusive(t) PROVE SharedCountExact'
    <2>1. Counted' = Counted
      BY <1>1 DEF AcquireExclusive, Counted, HoldInv
    <2> QED
      BY <1>1, <2>1 DEF AcquireExclusive
  <1>2. ASSUME NEW t \in Threads, ReleaseExclusive(t) PROVE SharedCountExact'
    <2>1. Counted' = Counted
      BY <1>2 DEF ReleaseExclusive, Counted, HoldInv
    <2> QED
      BY <1>2, <2>1 DEF ReleaseExclusive
  <1>3. ASSUME NEW t \in Threads, AcquireShared(t) PROVE SharedCountExact'
    <2>1. t \notin Counted /\ Counted' = Counted \union {t}
      BY <1>3 DEF AcquireShared, Counted, HoldInv, ShPCs
    <2> QED
      BY <1>3, <2>1, CountedFinite, AddOne DEF AcquireShared
  <1>4. ASSUME NEW t \in Threads, ReleaseShared(t) PROVE SharedCountExact'
    <2>1. t \in Counted /\ Counted' = Counted \ {t}
      BY <1>4 DEF ReleaseShared, Counted, HoldInv
    <2> QED
      BY <1>4, <2>1, CountedFinite, RemoveOne DEF ReleaseShared
  <1>5. ASSUME NEW t \in Threads, ExEnter(t) PROVE SharedCountExact'
    <2>1. Counted' = Counted
      BY <1>5 DEF ExEnter, Counted, HoldInv
    <2> QED
      BY <1>5, <2>1 DEF ExEnter
  <1>6. ASSUME NEW t \in Threads, ExCount(t) PROVE SharedCountExact'
    <2>1. Counted' = Counted
      BY <1>6 DEF ExCount, Counted, HoldInv
    <2> QED
      BY <1>6, <2>1 DEF ExCount
  <1>7. ASSUME NEW t \in Threads, ExTest(t) PROVE SharedCountExact'
    <2>1. Counted' = Counted
      BY <1>7 DEF ExTest, Counted, HoldInv
    <2> QED
      BY <1>7, <2>1 DEF ExTest
  <1>8. ASSUME NEW t \in Threads, ExCallWait(t) PROVE SharedCountExact'
    <2>1. Counted' = Counted
      BY <1>8 DEF ExCallWait, Counted, HoldInv
    <2> QED
      BY <1>8, <2>1 DEF ExCallWait
  <1>9. ASSUME NEW t \in Threads, ExWake(t) PROVE SharedCountExact'
    <2>1. Counted' = Counted
      BY <1>9 DEF ExWake, Counted, HoldInv
    <2> QED
      BY <1>9, <2>1 DEF ExWake
  <1>10. ASSUME NEW t \in Threads, ExOwn(t) PROVE SharedCountExact'
    <2>1. Counted' = Counted
      BY <1>10 DEF ExOwn, Counted, HoldInv
    <2> QED
      BY <1>10, <2>1 DEF ExOwn
  <1>11. ASSUME NEW t \in Threads, RxOwner(t) PROVE SharedCountExact'
    <2>1. Counted' = Counted
      BY <1>11 DEF RxOwner, Counted, HoldInv
    <2> QED
      BY <1>11, <2>1 DEF RxOwner
  <1>12. ASSUME NEW t \in Threads, RxLeave(t) PROVE SharedCountExact'
    <2>1. Counted' = Counted
      BY <1>12 DEF RxLeave, Counted, HoldInv
    <2> QED
      BY <1>12, <2>1 DEF RxLeave
  <1>13. ASSUME NEW t \in Threads, ShTest(t) PROVE SharedCountExact'
    <2>1. Counted' = Counted
      BY <1>13 DEF ShTest, Counted, HoldInv
    <2> QED
      BY <1>13, <2>1 DEF ShTest
  <1>14. ASSUME NEW t \in Threads, ShDec(t) PROVE SharedCountExact'
    <2>1. t \in Counted /\ Counted' = Counted \ {t}
      BY <1>14 DEF ShDec, Counted, HoldInv
    <2> QED
      BY <1>14, <2>1, CountedFinite, RemoveOne DEF ShDec
  <1>15. ASSUME NEW t \in Threads, ShSignal(t) PROVE SharedCountExact'
    <2>1. Counted' = Counted
      BY <1>15 DEF ShSignal, Counted, HoldInv
    <2> QED
      BY <1>15, <2>1 DEF ShSignal
  <1>16. ASSUME NEW t \in Threads, ShEnter(t) PROVE SharedCountExact'
    <2>1. Counted' = Counted
      BY <1>16 DEF ShEnter, Counted, HoldInv
    <2> QED
      BY <1>16, <2>1 DEF ShEnter
  <1>17. ASSUME NEW t \in Threads, ShInc(t) PROVE SharedCountExact'
    <2>1. t \notin Counted /\ Counted' = Counted \union {t}
      BY <1>17 DEF ShInc, Counted, HoldInv, ShPCs
    <2> QED
      BY <1>17, <2>1, CountedFinite, AddOne DEF ShInc
  <1>18. ASSUME NEW t \in Threads, ShLeave(t) PROVE SharedCountExact'
    <2>1. Counted' = Counted
      BY <1>18 DEF ShLeave, Counted, HoldInv
    <2> QED
      BY <1>18, <2>1 DEF ShLeave
  <1>19. ASSUME NEW t \in Threads, ShOwn(t) PROVE SharedCountExact'
    <2>1. Counted' = Counted
      BY <1>19 DEF ShOwn, Counted, HoldInv
    <2> QED
      BY <1>19, <2>1 DEF ShOwn
  <1>20. ASSUME NEW t \in Threads, RsTest(t) PROVE SharedCountExact'
    <2>1. Counted' = Counted
      BY <1>20 DEF RsTest, Counted, HoldInv
    <2> QED
      BY <1>20, <2>1 DEF RsTest
  <1>21. ASSUME NEW t \in Threads, RsSignal(t) PROVE SharedCountExact'
    <2>1. Counted' = Counted
      BY <1>21 DEF RsSignal, Counted, HoldInv
    <2> QED
      BY <1>21, <2>1 DEF RsSignal
  <1>22. ASSUME NEW t \in Threads, DrainAlone(t) PROVE SharedCountExact'
    <2>1. Counted' = Counted
      BY <1>22 DEF DrainAlone, Counted, HoldInv
    <2> QED
      BY <1>22, <2>1 DEF DrainAlone
  <1>23. CASE UNCHANGED vars
    BY <1>23 DEF vars, Counted
  <1> QED
    BY <1>1, <1>2, <1>3, <1>4, <1>5, <1>6, <1>7, <1>8, <1>9, <1>10, <1>11,
       <1>12, <1>13, <1>14, <1>15, <1>16, <1>17, <1>18, <1>19, <1>20, <1>21,
       <1>22, <1>23 DEF Next, Run

\* A reader slips by when a count is in a store buffer, and until it releases.
LEMMA SlipInvStep == Inv /\ [Next]_vars => SlipInv'
  <1> SUFFICES ASSUME Inv, [Next]_vars PROVE SlipInv'
    OBVIOUS
  <1> USE DEF Inv, TypeOK, SlipInv, Goto
  <1>1. ASSUME NEW t \in Threads,
               \/ AcquireExclusive(t) \/ AcquireShared(t) \/ ReleaseExclusive(t)
               \/ ExEnter(t) \/ ExCount(t) \/ ExTest(t) \/ ExCallWait(t) \/ ExWake(t)
               \/ ExOwn(t) \/ RxOwner(t) \/ RxLeave(t)
               \/ ShDec(t) \/ ShSignal(t) \/ ShEnter(t) \/ ShInc(t) \/ ShLeave(t)
               \/ RsTest(t) \/ RsSignal(t) \/ DrainAlone(t)
        PROVE  SlipInv'
    <2>1. /\ UNCHANGED <<shared, slipped>>
          /\ pc[t] # "sh_own" /\ \A u \in Threads \ {t} : pc'[u] = pc[u]
          \/ UNCHANGED <<shared, slipped, pc>>
      BY <1>1 DEF AcquireExclusive, AcquireShared, ReleaseExclusive, ExEnter, ExCount,
           ExTest, ExCallWait, ExWake, ExOwn, RxOwner, RxLeave, ShDec, ShSignal, ShEnter,
           ShInc, ShLeave, RsTest, RsSignal, DrainAlone
    <2> QED
      BY <2>1
  <1>2. ASSUME NEW t \in Threads, ShTest(t) PROVE SlipInv'
    <2>1. (\E w \in Threads : Writes(w) /\ Delayed(w))
              => ExclusiveLockCount = 0 /\ StoreBuffered
      BY DEF Delayed, ReadCount, CountInv
    <2> QED
      BY <1>2, <2>1 DEF ShTest
  <1>3. ASSUME NEW t \in Threads, ShOwn(t) PROVE SlipInv'
    BY <1>3 DEF ShOwn
  <1>4. ASSUME NEW t \in Threads, ReleaseShared(t) PROVE SlipInv'
    BY <1>4 DEF ReleaseShared
  <1>5. CASE UNCHANGED vars
    BY <1>5 DEF vars
  <1> QED
    BY <1>1, <1>2, <1>3, <1>4, <1>5 DEF Next, Run

\* A writer past its test reads a count of its own.
LEMMA WritersCount ==
  ASSUME Inv, NEW w \in Threads, Writes(w)
  PROVE  csOwner = w /\ ReadCount(w) > 0
  BY DEF Inv, TypeOK, CSInv, CountInv, Writes, Entered

\* No step puts a reader beside a writer past its test, unless it slips by.
LEMMA WriterAloneStep ==
  Inv /\ WriterAlone /\ [Next]_vars => WriterAlone'
  <1> SUFFICES ASSUME Inv, WriterAlone, [Next]_vars
               PROVE  WriterAlone'
    OBVIOUS
  <1> USE DEF Inv, TypeOK, WriterAlone, Writes, Goto
  <1>1. ASSUME NEW t \in Threads, AcquireExclusive(t) PROVE WriterAlone'
    BY <1>1 DEF AcquireExclusive
  <1>2. ASSUME NEW t \in Threads, ReleaseExclusive(t) PROVE WriterAlone'
    BY <1>2 DEF ReleaseExclusive, WriteCount
  <1>3. ASSUME NEW t \in Threads, AcquireShared(t) PROVE WriterAlone'
    BY <1>3 DEF AcquireShared, Drain
  <1>4. ASSUME NEW t \in Threads, ReleaseShared(t) PROVE WriterAlone'
    BY <1>4 DEF ReleaseShared
  <1>5. ASSUME NEW t \in Threads, ExEnter(t) PROVE WriterAlone'
    BY <1>5 DEF ExEnter, EnterCS, Drain
  <1>6. ASSUME NEW t \in Threads, ExCount(t) PROVE WriterAlone'
    BY <1>6 DEF ExCount, WriteCount
  <1>7. ASSUME NEW t \in Threads, ExTest(t) PROVE WriterAlone'
    <2>1. CASE SharedLockCount > 0
      BY <1>7, <2>1 DEF ExTest
    <2>2. CASE ~(SharedLockCount > 0)
      <3>1. Counted = {}
        BY <2>2, CountedFinite, FS_EmptySet DEF SharedCountExact
      <3> QED
        BY <1>7, <2>2, <3>1 DEF ExTest, Counted
    <2> QED
      BY <2>1, <2>2
  <1>8. ASSUME NEW t \in Threads, ExCallWait(t) PROVE WriterAlone'
    BY <1>8 DEF ExCallWait, Drain
  <1>9. ASSUME NEW t \in Threads, ExWake(t) PROVE WriterAlone'
    BY <1>9 DEF ExWake
  <1>10. ASSUME NEW t \in Threads, ExOwn(t) PROVE WriterAlone'
    BY <1>10 DEF ExOwn
  <1>11. ASSUME NEW t \in Threads, RxOwner(t) PROVE WriterAlone'
    BY <1>11 DEF RxOwner
  <1>12. ASSUME NEW t \in Threads, RxLeave(t) PROVE WriterAlone'
    BY <1>12 DEF RxLeave, LeaveCS, Drain
  <1>13. ASSUME NEW t \in Threads, ShTest(t) PROVE WriterAlone'
    <2>1. CASE ExclusiveLockCount > 0
      BY <1>13, <2>1 DEF ShTest
    <2>2. CASE ~(ExclusiveLockCount > 0)
      <3>1. \A w \in Threads : Writes(w) => Delayed(w)
        BY <2>2, WritersCount DEF Delayed
      <3>2. (\E w \in Threads : Writes(w)) => t \in slipped'
        BY <1>13, <3>1 DEF ShTest
      <3>3. \A w \in Threads : Writes(w)' => Writes(w)
        BY <1>13 DEF ShTest
      <3> QED
        BY <1>13, <3>2, <3>3 DEF ShTest
    <2> QED
      BY <2>1, <2>2
  <1>14. ASSUME NEW t \in Threads, ShDec(t) PROVE WriterAlone'
    BY <1>14 DEF ShDec
  <1>15. ASSUME NEW t \in Threads, ShSignal(t) PROVE WriterAlone'
    BY <1>15 DEF ShSignal
  <1>16. ASSUME NEW t \in Threads, ShEnter(t) PROVE WriterAlone'
    BY <1>16 DEF ShEnter, EnterCS
  <1>17. ASSUME NEW t \in Threads, ShInc(t) PROVE WriterAlone'
    BY <1>17 DEF ShInc, CSInv, Entered
  <1>18. ASSUME NEW t \in Threads, ShLeave(t) PROVE WriterAlone'
    BY <1>18 DEF ShLeave, LeaveCS
  <1>19. ASSUME NEW t \in Threads, ShOwn(t) PROVE WriterAlone'
    BY <1>19 DEF ShOwn
  <1>20. ASSUME NEW t \in Threads, RsTest(t) PROVE WriterAlone'
    BY <1>20 DEF RsTest
  <1>21. ASSUME NEW t \in Threads, RsSignal(t) PROVE WriterAlone'
    BY <1>21 DEF RsSignal
  <1>22. ASSUME NEW t \in Threads, DrainAlone(t) PROVE WriterAlone'
    BY <1>22 DEF DrainAlone, Drain
  <1>23. CASE UNCHANGED vars
    BY <1>23 DEF vars
  <1> QED
    BY <1>1, <1>2, <1>3, <1>4, <1>5, <1>6, <1>7, <1>8, <1>9, <1>10, <1>11,
       <1>12, <1>13, <1>14, <1>15, <1>16, <1>17, <1>18, <1>19, <1>20, <1>21,
       <1>22, <1>23 DEF Next, Run

-----------------------------------------------------------------------------
(* The theorems.                                                           *)

\* The invariant that needs no order between a store and a later load.
LEMMA Invariant == Spec => []Inv
  <1>1. Inv /\ [Next]_vars => Inv'
    BY NextTypeOK, CSInvStep, CountInvStep, HoldInvStep, SharedCountStep, SlipInvStep
       DEF Inv
  <1> QED
    BY InitInv, <1>1, PTL DEF Spec

\* Every variable of the lock stays in its type: no count of RWLOCK drops
\* below zero, whatever the threads do (RWLock.cpp, every function).
THEOREM TypeCorrect == Spec => []TypeOK
  <1>1. Inv => TypeOK
    BY DEF Inv
  <1> QED
    BY Invariant, <1>1, PTL

\* The reference count of the readers is exact (AcquireRWLockShared reverts
\* and restores it, ReleaseRWLockShared drops it), delayed stores or not.
THEOREM SharedCount == Spec => []SharedCountExact
  <1>1. Inv => SharedCountExact
    BY DEF Inv
  <1> QED
    BY Invariant, <1>1, PTL

\* Two threads never own the lock exclusively at once (AcquireRWLockExclusive
\* keeps the critical section), delayed stores or not.
THEOREM WritersApart == Spec => []WritersExclusive
  <1>1. Inv => WritersExclusive
    BY DEF Inv, CSInv, WritersExclusive
  <1> QED
    BY Invariant, <1>1, PTL

\* The lock's owner excludes every other thread, readers included, but for those that
\* read its count as 0 while it was still in the owner's store buffer; where stores are
\* not delayed there are none (AcquireRWLockExclusive's "We now own the lock exlusively").
THEOREM Exclusion == Spec => []WriterExcludes
  <1>1. Init => WriterAlone
    BY DEF Init, WriterAlone, Writes
  <1>2. Inv /\ WriterAlone /\ [Next]_vars => WriterAlone'
    BY WriterAloneStep
  <1>3. Inv /\ WriterAlone => WriterExcludes
    BY DEF Inv, TypeOK, CSInv, HoldInv, SlipInv, WriterAlone, Writes, WriterExcludes
  <1> QED
    BY Invariant, <1>1, <1>2, <1>3, PTL DEF Spec

\* The code does what RWLockSpec promises to its writers and to the readers that did not
\* slip by a delayed store: each step is a step of the abstract lock or changes nothing
\* it can see.
THEOREM Refinement == Spec => ImplementsRWLock
  <1>1. Init => Abstract!SpecInit
    BY DEF Init, Abstract!SpecInit
  <1>2. Inv /\ WriterAlone /\ [Next]_vars => [Abstract!SpecNext]_(Abstract!specVars)
    <2> SUFFICES ASSUME Inv, WriterAlone, [Next]_vars
                 PROVE  [Abstract!SpecNext]_(Abstract!specVars)
      OBVIOUS
    <2> USE DEF Inv, TypeOK, Abstract!SpecNext, Abstract!specVars
    <2>1. ASSUME NEW t \in Threads, ExOwn(t) PROVE Abstract!GetExclusive(t)
      <3>1. \A u \in Threads \ {t} : excl[u] = 0
        BY <2>1 DEF ExOwn, CSInv, Entered
      <3>2. shared \ slipped = {}
        BY <2>1 DEF ExOwn, HoldInv, WriterAlone, Writes
      <3> QED
        BY <2>1, <3>1, <3>2 DEF ExOwn, Abstract!GetExclusive
    <2>2. ASSUME NEW t \in Threads, ReleaseExclusive(t)
          PROVE  Abstract!DropExclusive(t)
      BY <2>2 DEF ReleaseExclusive, Abstract!DropExclusive
    <2>3. ASSUME NEW t \in Threads, ShOwn(t), t \notin slipped
          PROVE  Abstract!GetShared(t)
      <3>1. t \notin shared /\ \A u \in Threads : excl[u] = 0
        BY <2>3 DEF ShOwn, HoldInv, WriterAlone, Writes, ShPCs
      <3>2. shared' \ slipped' = (shared \ slipped) \union {t} /\ excl' = excl
        BY <2>3 DEF ShOwn
      <3> QED
        BY <3>1, <3>2 DEF Abstract!GetShared
    <2>4. ASSUME NEW t \in Threads, ReleaseShared(t), t \notin slipped
          PROVE  Abstract!DropShared(t)
      BY <2>4 DEF ReleaseShared, Abstract!DropShared
    <2>5. ASSUME NEW t \in Threads, ShOwn(t) \/ ReleaseShared(t), t \in slipped
          PROVE  UNCHANGED <<shared \ slipped, excl>>
      BY <2>5 DEF ShOwn, ReleaseShared
    <2>6. ASSUME NEW t \in Threads, ShTest(t)
          PROVE  UNCHANGED <<shared \ slipped, excl>>
      <3>1. t \notin shared
        BY <2>6 DEF ShTest, HoldInv
      <3> QED
        BY <2>6, <3>1 DEF ShTest
    <2>7. ASSUME NEW t \in Threads,
                 \/ AcquireExclusive(t) \/ AcquireShared(t) \/ DrainAlone(t)
                 \/ ExEnter(t) \/ ExCount(t) \/ ExTest(t) \/ ExCallWait(t)
                 \/ ExWake(t) \/ RxOwner(t) \/ RxLeave(t)
                 \/ ShDec(t) \/ ShSignal(t) \/ ShEnter(t)
                 \/ ShInc(t) \/ ShLeave(t) \/ RsTest(t) \/ RsSignal(t)
          PROVE  UNCHANGED <<shared \ slipped, excl>>
      BY <2>7 DEF AcquireExclusive, AcquireShared, DrainAlone, ExEnter,
           ExCount, ExTest, ExCallWait, ExWake, RxOwner, RxLeave,
           ShDec, ShSignal, ShEnter, ShInc, ShLeave, RsTest, RsSignal
    <2>8. CASE UNCHANGED vars
      BY <2>8 DEF vars
    <2> QED
      BY <2>1, <2>2, <2>3, <2>4, <2>5, <2>6, <2>7, <2>8 DEF Next, Run
  <1>3. Init => WriterAlone
    BY DEF Init, WriterAlone, Writes
  <1>4. Inv /\ WriterAlone /\ [Next]_vars => WriterAlone'
    BY WriterAloneStep
  <1> QED
    BY Invariant, <1>1, <1>2, <1>3, <1>4, PTL
       DEF Spec, ImplementsRWLock, Abstract!SpecSpec
=============================================================================
