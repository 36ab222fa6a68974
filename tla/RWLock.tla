------------------------------- MODULE RWLock -------------------------------
(***************************************************************************)
(* FragExt.Lib/RWLock.cpp: a shared-reader / exclusive-writer lock made of *)
(* a critical section, an auto-reset event and two counters.  Writers take *)
(* the critical section for as long as they own the lock; readers only     *)
(* touch the counters, unless a writer is in the way.                      *)
(*                                                                         *)
(* Every read and write of a shared field is a step of its own.  The       *)
(* writer's update of ExclusiveLockCount is a plain store: the processor   *)
(* may keep it in the thread's store buffer while the thread goes on to    *)
(* read SharedLockCount.  StoreBuffered says whether the machine does so   *)
(* (x86, x64) or runs the steps in the order they are written.             *)
(*                                                                         *)
(* Callers ask for the lock holding nothing, or ask again for exclusive    *)
(* access while holding exclusive access: the only recursion the source    *)
(* describes ("recursively acquire the lock in exclusive mode").           *)
(***************************************************************************)
EXTENDS Naturals, FiniteSets

CONSTANTS
    Threads,        \* the threads that use the lock
    NoThread,       \* thread id 0: nobody
    NoStore,        \* an empty store buffer
    StoreBuffered,  \* TRUE: plain stores may be delayed past later loads
    MaxDepth        \* bound: how deep one thread nests exclusive access

ASSUME ThreadsAssumption ==
    /\ IsFiniteSet(Threads)
    /\ NoThread \notin Threads
ASSUME DepthAssumption == MaxDepth \in Nat \ {0}
ASSUME StoreAssumption == StoreBuffered \in BOOLEAN /\ NoStore \notin Nat

VARIABLES
    csOwner, csCount,       \* ExclusiveLock: owner and recursion count
    ExclusiveWaitEvent,     \* auto-reset event: TRUE when signaled
    ExclusiveOwnerId,
    ExclusiveLockCount,
    SharedLockCount,
    buffered,               \* buffered[t]: t's delayed ExclusiveLockCount
    pc,                     \* where each thread is
    excl,                   \* excl[t]: exclusive acquisitions t has not released
    shared,                 \* the threads that hold the lock shared
    slipped                 \* history: those that took it past a writer's delayed count

vars == <<csOwner, csCount, ExclusiveWaitEvent, ExclusiveOwnerId,
          ExclusiveLockCount, SharedLockCount, buffered, pc, excl, shared, slipped>>

cs == <<csOwner, csCount>>

ExPCs == {"ex_enter", "ex_count", "ex_test", "ex_call", "ex_wait", "ex_own"}
RxPCs == {"rx_owner", "rx_leave"}
ShPCs == {"sh_test", "sh_dec", "sh_signal", "sh_enter", "sh_inc", "sh_leave",
          "sh_own"}
RsPCs == {"rs_test", "rs_signal"}
PCs == {"idle"} \union ExPCs \union RxPCs \union ShPCs \union RsPCs

Goto(t, to) == pc' = [pc EXCEPT ![t] = to]

-----------------------------------------------------------------------------
(* The machine: a delayed store and what forces it out.                    *)

\* The value t itself reads: its own delayed store first.
ReadCount(t) ==
    IF buffered[t] = NoStore THEN ExclusiveLockCount ELSE buffered[t]

WriteCount(t, n) ==
    IF StoreBuffered
    THEN /\ buffered' = [buffered EXCEPT ![t] = n]
         /\ UNCHANGED ExclusiveLockCount
    ELSE /\ ExclusiveLockCount' = n
         /\ UNCHANGED buffered

\* Interlocked operations and system calls drain the thread's store buffer.
Drain(t) ==
    /\ ExclusiveLockCount' = ReadCount(t)
    /\ buffered' = [buffered EXCEPT ![t] = NoStore]

DrainAlone(t) ==
    /\ buffered[t] # NoStore
    /\ Drain(t)
    /\ UNCHANGED <<cs, ExclusiveWaitEvent, ExclusiveOwnerId, SharedLockCount,
                   pc, excl, shared, slipped>>

\* EnterCriticalSection and LeaveCriticalSection, which are recursive.
EnterCS(t) ==
    /\ csOwner \in {NoThread, t}
    /\ csOwner' = t
    /\ csCount' = csCount + 1

LeaveCS ==
    /\ csOwner' = IF csCount = 1 THEN NoThread ELSE csOwner
    /\ csCount' = csCount - 1

-----------------------------------------------------------------------------
(* InitializeRWLock, when it succeeds.                                     *)
Init ==
    /\ csOwner = NoThread
    /\ csCount = 0
    /\ ExclusiveWaitEvent = FALSE
    /\ ExclusiveOwnerId = NoThread
    /\ ExclusiveLockCount = 0
    /\ SharedLockCount = 0
    /\ buffered = [t \in Threads |-> NoStore]
    /\ pc = [t \in Threads |-> "idle"]
    /\ excl = [t \in Threads |-> 0]
    /\ shared = {}
    /\ slipped = {}

-----------------------------------------------------------------------------
(* AcquireRWLockExclusive                                                  *)

AcquireExclusive(t) ==
    /\ pc[t] = "idle" /\ t \notin shared /\ excl[t] < MaxDepth
    /\ Goto(t, "ex_enter")
    /\ UNCHANGED <<cs, ExclusiveWaitEvent, ExclusiveOwnerId,
                   ExclusiveLockCount, SharedLockCount, buffered, excl, shared, slipped>>

ExEnter(t) ==
    /\ pc[t] = "ex_enter"
    /\ EnterCS(t)
    /\ Drain(t)
    /\ Goto(t, "ex_count")
    /\ UNCHANGED <<ExclusiveWaitEvent, ExclusiveOwnerId, SharedLockCount,
                   excl, shared, slipped>>

ExCount(t) ==
    /\ pc[t] = "ex_count"
    /\ WriteCount(t, ReadCount(t) + 1)
    /\ Goto(t, "ex_test")
    /\ UNCHANGED <<cs, ExclusiveWaitEvent, ExclusiveOwnerId, SharedLockCount,
                   excl, shared, slipped>>

\* while ( SharedLockCount > 0 )
ExTest(t) ==
    /\ pc[t] = "ex_test"
    /\ Goto(t, IF SharedLockCount > 0 THEN "ex_call" ELSE "ex_own")
    /\ UNCHANGED <<cs, ExclusiveWaitEvent, ExclusiveOwnerId,
                   ExclusiveLockCount, SharedLockCount, buffered, excl, shared, slipped>>

\* Entering the kernel to wait drains the store buffer ...
ExCallWait(t) ==
    /\ pc[t] = "ex_call"
    /\ Drain(t)
    /\ Goto(t, "ex_wait")
    /\ UNCHANGED <<cs, ExclusiveWaitEvent, ExclusiveOwnerId, SharedLockCount,
                   excl, shared, slipped>>

\* Mutant: the writer takes the event for the lock and does not look again.
ExWakeNoRetest(t) ==
    /\ pc[t] = "ex_wait"
    /\ ExclusiveWaitEvent
    /\ ExclusiveWaitEvent' = FALSE
    /\ Goto(t, "ex_own")
    /\ UNCHANGED <<cs, ExclusiveOwnerId, ExclusiveLockCount, SharedLockCount,
                   buffered, excl, shared, slipped>>

\* ... and the wait ends by consuming the auto-reset event.
ExWake(t) ==
    /\ pc[t] = "ex_wait"
    /\ ExclusiveWaitEvent
    /\ ExclusiveWaitEvent' = FALSE
    /\ Goto(t, "ex_test")
    /\ UNCHANGED <<cs, ExclusiveOwnerId, ExclusiveLockCount, SharedLockCount,
                   buffered, excl, shared, slipped>>

ExOwn(t) ==
    /\ pc[t] = "ex_own"
    /\ ExclusiveOwnerId' = t
    /\ excl' = [excl EXCEPT ![t] = @ + 1]
    /\ Goto(t, "idle")
    /\ UNCHANGED <<cs, ExclusiveWaitEvent, ExclusiveLockCount,
                   SharedLockCount, buffered, shared, slipped>>

-----------------------------------------------------------------------------
(* ReleaseRWLockExclusive                                                  *)

ReleaseExclusive(t) ==
    /\ pc[t] = "idle" /\ excl[t] > 0
    /\ WriteCount(t, ReadCount(t) - 1)
    /\ excl' = [excl EXCEPT ![t] = @ - 1]
    /\ Goto(t, "rx_owner")
    /\ UNCHANGED <<cs, ExclusiveWaitEvent, ExclusiveOwnerId, SharedLockCount,
                   shared, slipped>>

RxOwner(t) ==
    /\ pc[t] = "rx_owner"
    /\ ExclusiveOwnerId' = IF ReadCount(t) = 0 THEN NoThread
                                                 ELSE ExclusiveOwnerId
    /\ Goto(t, "rx_leave")
    /\ UNCHANGED <<cs, ExclusiveWaitEvent, ExclusiveLockCount,
                   SharedLockCount, buffered, excl, shared, slipped>>

RxLeave(t) ==
    /\ pc[t] = "rx_leave"
    /\ LeaveCS
    /\ Drain(t)
    /\ Goto(t, "idle")
    /\ UNCHANGED <<ExclusiveWaitEvent, ExclusiveOwnerId, SharedLockCount,
                   excl, shared, slipped>>

-----------------------------------------------------------------------------
(* AcquireRWLockShared                                                     *)

AcquireShared(t) ==
    /\ pc[t] = "idle" /\ t \notin shared /\ excl[t] = 0
    /\ SharedLockCount' = SharedLockCount + 1
    /\ Drain(t)
    /\ Goto(t, "sh_test")
    /\ UNCHANGED <<cs, ExclusiveWaitEvent, ExclusiveOwnerId, excl, shared, slipped>>

\* Mutant: a reader does not step aside for a writer.
ShTestNever(t) ==
    /\ pc[t] = "sh_test"
    /\ Goto(t, "sh_own")
    /\ UNCHANGED <<cs, ExclusiveWaitEvent, ExclusiveOwnerId,
                   ExclusiveLockCount, SharedLockCount, buffered, excl, shared, slipped>>

\* A writer that has passed its test of SharedLockCount.
Writes(w) == excl[w] > 0 \/ pc[w] = "ex_own"

\* w has counted itself, but memory does not say so yet.
Delayed(w) == ReadCount(w) > 0 /\ ExclusiveLockCount = 0

\* if ( ExclusiveLockCount > 0 )
ShTest(t) ==
    /\ pc[t] = "sh_test"
    /\ Goto(t, IF ExclusiveLockCount > 0 THEN "sh_dec" ELSE "sh_own")
    /\ slipped' = IF \E w \in Threads : Writes(w) /\ Delayed(w)
                  THEN slipped \union {t} ELSE slipped
    /\ UNCHANGED <<cs, ExclusiveWaitEvent, ExclusiveOwnerId,
                   ExclusiveLockCount, SharedLockCount, buffered, excl, shared>>

\* A writer is in the way: revert the count, and tell it if we were the last.
ShDec(t) ==
    /\ pc[t] = "sh_dec"
    /\ SharedLockCount' = SharedLockCount - 1
    /\ Goto(t, IF SharedLockCount = 1 THEN "sh_signal" ELSE "sh_enter")
    /\ UNCHANGED <<cs, ExclusiveWaitEvent, ExclusiveOwnerId,
                   ExclusiveLockCount, buffered, excl, shared, slipped>>

ShSignal(t) ==
    /\ pc[t] = "sh_signal"
    /\ ExclusiveWaitEvent' = TRUE
    /\ Goto(t, "sh_enter")
    /\ UNCHANGED <<cs, ExclusiveOwnerId, ExclusiveLockCount, SharedLockCount,
                   buffered, excl, shared, slipped>>

ShEnter(t) ==
    /\ pc[t] = "sh_enter"
    /\ EnterCS(t)
    /\ Goto(t, "sh_inc")
    /\ UNCHANGED <<ExclusiveWaitEvent, ExclusiveOwnerId, ExclusiveLockCount,
                   SharedLockCount, buffered, excl, shared, slipped>>

\* Mutant: the reader does not add back the reference it reverted.
ShIncForgotten(t) ==
    /\ pc[t] = "sh_inc"
    /\ Goto(t, "sh_leave")
    /\ UNCHANGED <<cs, ExclusiveWaitEvent, ExclusiveOwnerId,
                   ExclusiveLockCount, SharedLockCount, buffered, excl, shared, slipped>>

ShInc(t) ==
    /\ pc[t] = "sh_inc"
    /\ SharedLockCount' = SharedLockCount + 1
    /\ Goto(t, "sh_leave")
    /\ UNCHANGED <<cs, ExclusiveWaitEvent, ExclusiveOwnerId,
                   ExclusiveLockCount, buffered, excl, shared, slipped>>

ShLeave(t) ==
    /\ pc[t] = "sh_leave"
    /\ LeaveCS
    /\ Goto(t, "sh_own")
    /\ UNCHANGED <<ExclusiveWaitEvent, ExclusiveOwnerId, ExclusiveLockCount,
                   SharedLockCount, buffered, excl, shared, slipped>>

ShOwn(t) ==
    /\ pc[t] = "sh_own"
    /\ ExclusiveOwnerId' = NoThread
    /\ shared' = shared \union {t}
    /\ Goto(t, "idle")
    /\ UNCHANGED <<cs, ExclusiveWaitEvent, ExclusiveLockCount,
                   SharedLockCount, buffered, excl, slipped>>

-----------------------------------------------------------------------------
(* ReleaseRWLockShared                                                     *)

ReleaseShared(t) ==
    /\ pc[t] = "idle" /\ t \in shared
    /\ SharedLockCount' = SharedLockCount - 1
    /\ shared' = shared \ {t}
    /\ slipped' = slipped \ {t}
    /\ Goto(t, IF SharedLockCount = 1 THEN "rs_test" ELSE "idle")
    /\ UNCHANGED <<cs, ExclusiveWaitEvent, ExclusiveOwnerId,
                   ExclusiveLockCount, buffered, excl>>

RsTest(t) ==
    /\ pc[t] = "rs_test"
    /\ Goto(t, IF ExclusiveLockCount > 0 THEN "rs_signal" ELSE "idle")
    /\ UNCHANGED <<cs, ExclusiveWaitEvent, ExclusiveOwnerId,
                   ExclusiveLockCount, SharedLockCount, buffered, excl, shared, slipped>>

RsSignal(t) ==
    /\ pc[t] = "rs_signal"
    /\ ExclusiveWaitEvent' = TRUE
    /\ Goto(t, "idle")
    /\ UNCHANGED <<cs, ExclusiveOwnerId, ExclusiveLockCount, SharedLockCount,
                   buffered, excl, shared, slipped>>

-----------------------------------------------------------------------------
\* What a thread does without being asked: run on, once inside a call.
Run(t) ==
    \/ ExEnter(t) \/ ExCount(t) \/ ExTest(t) \/ ExCallWait(t) \/ ExWake(t)
    \/ ExOwn(t) \/ RxOwner(t) \/ RxLeave(t)
    \/ ShTest(t) \/ ShDec(t) \/ ShSignal(t) \/ ShEnter(t) \/ ShInc(t)
    \/ ShLeave(t) \/ ShOwn(t) \/ RsTest(t) \/ RsSignal(t)

Next ==
    \E t \in Threads :
        \/ AcquireExclusive(t) \/ ReleaseExclusive(t)
        \/ AcquireShared(t) \/ ReleaseShared(t)
        \/ Run(t)
        \/ DrainAlone(t)

Spec == Init /\ [][Next]_vars

\* Threads inside a call are scheduled, and holders release what they hold.
\* A critical section hands itself to no thread in particular, so entering it
\* is only weakly fair: a thread may be overtaken for ever.
Fairness ==
    \A t \in Threads :
        /\ WF_vars(Run(t))
        /\ WF_vars(ReleaseExclusive(t))
        /\ WF_vars(ReleaseShared(t))

FairSpec == Spec /\ Fairness

-----------------------------------------------------------------------------
(* Properties                                                              *)

TypeOK ==
    /\ csOwner \in Threads \union {NoThread}
    /\ csCount \in Nat
    /\ ExclusiveWaitEvent \in BOOLEAN
    /\ ExclusiveOwnerId \in Threads \union {NoThread}
    /\ ExclusiveLockCount \in Nat
    /\ SharedLockCount \in Nat
    /\ buffered \in [Threads -> Nat \union {NoStore}]
    /\ pc \in [Threads -> PCs]
    /\ excl \in [Threads -> Nat]
    /\ shared \in SUBSET Threads
    /\ slipped \in SUBSET Threads

\* While a thread owns the lock exclusively no other thread holds it in any
\* mode ("We now own the lock exlusively", RWLock.cpp AcquireRWLockExclusive).
\* With store buffers this is not so.
MutualExclusion ==
    \A t \in Threads :
        excl[t] > 0 => /\ \A u \in Threads \ {t} : excl[u] = 0
                       /\ shared = {}

\* What is so on either machine: a writer shares the lock with no writer, and with
\* no reader but those whose test of ExclusiveLockCount (AcquireRWLockShared) fell
\* between the writer's test of SharedLockCount and the moment its count reached
\* memory (AcquireRWLockExclusive).  Stores that are not delayed let none slip by.
WriterExcludes ==
    /\ \A t \in Threads :
           excl[t] > 0 => /\ \A u \in Threads \ {t} : excl[u] = 0
                          /\ shared \subseteq slipped
    /\ ~StoreBuffered => slipped = {}

\* Two threads never own the lock exclusively at once, delayed stores or not:
\* the critical section alone keeps writers apart.
WritersExclusive ==
    \A t, u \in Threads : excl[t] > 0 /\ excl[u] > 0 => t = u

\* The threads that have a reference on SharedLockCount.
Counted ==
    {t \in Threads : t \in shared
                      \/ pc[t] \in {"sh_test", "sh_dec", "sh_leave", "sh_own"}}

\* A reader that reverts its reference to let a writer by, and adds it again
\* inside the critical section, is counted exactly once when it gets the lock.
SharedCountExact == SharedLockCount = Cardinality(Counted)

\* A writer that has entered the critical section gets the lock: readers that
\* arrive later step aside for it.
WriterProceeds ==
    \A t \in Threads : pc[t] \in {"ex_call", "ex_wait"} ~> pc[t] = "ex_own"

-----------------------------------------------------------------------------
(* The inductive invariant behind WriterExcludes.                          *)

\* t has entered the critical section once more than it holds the lock.
Entered(t) ==
    pc[t] \in {"ex_count", "ex_test", "ex_call", "ex_wait", "ex_own",
               "rx_owner", "rx_leave", "sh_inc", "sh_leave"}

\* The critical section belongs to the thread that owns the lock or is inside
\* a call that entered it, and counts its entries.
CSInv ==
    /\ \A t \in Threads : csOwner = t <=> excl[t] > 0 \/ Entered(t)
    /\ \A t \in Threads :
          csOwner = t => csCount = excl[t] + (IF Entered(t) THEN 1 ELSE 0)
    /\ csOwner = NoThread => csCount = 0

\* The owner reads its own recursion count, and a count kept back in a store
\* buffer is the owner's.
CountInv ==
    /\ \A t \in Threads :
          csOwner = t => ReadCount(t) =
              excl[t] + (IF pc[t] \in {"ex_test", "ex_call", "ex_wait", "ex_own"}
                         THEN 1 ELSE 0)
    /\ csOwner = NoThread => ExclusiveLockCount = 0
    /\ \A t \in Threads :
          buffered[t] # NoStore => csOwner = t /\ pc[t] \notin ShPCs /\ StoreBuffered

\* What a thread holds says what it may be doing.
HoldInv ==
    \A t \in Threads :
        /\ t \in shared => pc[t] = "idle" /\ excl[t] = 0
        /\ pc[t] \in ShPCs => excl[t] = 0

\* A thread has slipped by for as long as it has the lock, and by a delayed store.
SlipInv ==
    /\ \A t \in slipped : t \in shared \/ pc[t] = "sh_own"
    /\ ~StoreBuffered => slipped = {}

\* A writer past its test has no reader beside it but those that slipped by.
WriterAlone ==
    \A t, u \in Threads :
        Writes(t) /\ u # t /\ u \notin slipped
            => u \notin shared /\ pc[u] \notin {"sh_leave", "sh_own"}

IInv ==
    /\ TypeOK
    /\ CSInv
    /\ CountInv
    /\ HoldInv
    /\ SharedCountExact
    /\ SlipInv
    /\ WriterAlone

-----------------------------------------------------------------------------
\* The lock does what RWLockSpec promises its writers, and its readers unless they
\* slipped by a delayed store.
Abstract == INSTANCE RWLockSpec WITH readers <- shared \ slipped, depth <- excl
ImplementsRWLock == Abstract!SpecSpec
=============================================================================
