----------------------------- MODULE CacheList -----------------------------
(***************************************************************************)
(* The cached list, FragExt.Lib/CacheList.cpp: a lock-free list of free    *)
(* records in a block of reserved memory, of which one region after the    *)
(* other is committed when the list has run empty.  One thread commits at  *)
(* a time: it owns a tag bit of the event handle, and the others wait for  *)
(* the event.                                                              *)
(*                                                                         *)
(* Addresses count from the start of the block, which holds the CACHELIST  *)
(* itself.  A record is named by its address.  The order of the free list  *)
(* is left out: a pop takes any record of it.                              *)
(***************************************************************************)
EXTENDS Integers, FiniteSets

CONSTANTS
    Threads,            \* the threads that share the list
    CacheBlockSize,     \* the size of the reserved block
    CacheRegionMax,     \* the regions it consists of
    CacheRecordSize,    \* the size of a record
    SizeOfCacheList,    \* sizeof(CACHELIST)
    MaxHeld,            \* bound: the records a thread holds
    MaxFailures         \* bound: the commits the system refuses

\* CreateCacheList aligns the block to whole regions.  The loop that fills a
\* region pushes a record before it looks for the end, and keeps one for the
\* caller: a region must have room for two.
cbRegion == CacheBlockSize \div CacheRegionMax
cbActual == (cbRegion - SizeOfCacheList) - ((cbRegion - SizeOfCacheList) % CacheRecordSize)

ASSUME SizesAssumption ==
    /\ {CacheBlockSize, CacheRegionMax, CacheRecordSize, SizeOfCacheList} \subseteq Nat \ {0}
    /\ CacheBlockSize = cbRegion * CacheRegionMax
    /\ cbActual >= 2 * CacheRecordSize

ASSUME BoundsAssumption == MaxHeld \in Nat /\ MaxFailures \in Nat

VARIABLES
    FreeSListHead,      \* the free records
    CacheRegionCommit,  \* the regions committed and counted
    CommitBit,          \* CLFI_LOCKBIT_COMMIT of CommitLock
    CommitEvent,        \* the event CommitLock, a manual-reset one
    pages,              \* the regions whose memory is committed
    pc,                 \* pc[t]: where a thread is
    pRecord,            \* pRecord[t]: the next record it pushes
    held,               \* held[t]: the records it has
    failures            \* the commits that have failed

vars == <<FreeSListHead, CacheRegionCommit, CommitBit, CommitEvent, pages, pc, pRecord,
          held, failures>>

-----------------------------------------------------------------------------
(* The layout of the block.                                                *)

\* The space a region wastes at its end is used by the next one.
RegionStart(r) == r * cbRegion + SizeOfCacheList - r * (cbRegion - cbActual)

RegionTail(r) ==
    IF r < CacheRegionMax - 1 THEN RegionStart(r) + cbActual
    ELSE CacheBlockSize - ((CacheBlockSize - SizeOfCacheList) % CacheRecordSize)

\* The record of region r that goes to the thread that commits it.
LastRecord(r) == RegionTail(r) - CacheRecordSize

\* The records from address a to the last of region r.
From(a, r) ==
    {x \in a .. LastRecord(r) : (x - a) % CacheRecordSize = 0}

\* The records of the block: as many as fit behind the CACHELIST.
Records ==
    {SizeOfCacheList + i * CacheRecordSize :
        i \in 0 .. ((CacheBlockSize - SizeOfCacheList) \div CacheRecordSize) - 1}

-----------------------------------------------------------------------------
Init ==
    /\ FreeSListHead = {} /\ CacheRegionCommit = 0 /\ pages = {}
    /\ CommitBit = FALSE /\ CommitEvent = TRUE
    /\ pc = [t \in Threads |-> "idle"]
    /\ pRecord = [t \in Threads |-> 0]
    /\ held = [t \in Threads |-> {}]
    /\ failures = 0

Goto(t, l) == pc' = [pc EXCEPT ![t] = l]

\* InterlockedPopEntrySList: a record for the thread, or on to step l.
PopOr(t, l) ==
    \/ \E r \in FreeSListHead :
           /\ FreeSListHead' = FreeSListHead \ {r}
           /\ held' = [held EXCEPT ![t] = @ \union {r}]
           /\ Goto(t, "idle")
    \/ FreeSListHead = {} /\ Goto(t, l) /\ UNCHANGED <<FreeSListHead, held>>

PopCacheListEntry(t) ==
    /\ pc[t] = "idle" /\ Cardinality(held[t]) < MaxHeld
    /\ PopOr(t, "check")
    /\ UNCHANGED <<CacheRegionCommit, CommitBit, CommitEvent, pages, pRecord, failures>>

PushCacheListEntry(t) ==
    /\ pc[t] = "idle"
    /\ \E r \in held[t] :
           /\ FreeSListHead' = FreeSListHead \union {r}
           /\ held' = [held EXCEPT ![t] = @ \ {r}]
    /\ UNCHANGED <<CacheRegionCommit, CommitBit, CommitEvent, pages, pc, pRecord, failures>>

\* With all regions committed there is nothing to do: no record.
CheckLimit(t) ==
    /\ pc[t] = "check"
    /\ Goto(t, IF CacheRegionCommit < CacheRegionMax THEN "lock" ELSE "idle")
    /\ UNCHANGED <<FreeSListHead, CacheRegionCommit, CommitBit, CommitEvent, pages, pRecord,
                   held, failures>>

\* Mutant of SetCommitLockTagBit: the bit is set whoever has it.
SetCommitLockTagBitAnyway(t) ==
    /\ pc[t] = "lock"
    /\ CommitBit' = TRUE /\ Goto(t, "reset")
    /\ UNCHANGED <<FreeSListHead, CacheRegionCommit, CommitEvent, pages, pRecord, held, failures>>

SetCommitLockTagBit(t) ==
    /\ pc[t] = "lock"
    /\ CommitBit' = TRUE
    /\ Goto(t, IF CommitBit THEN "wait" ELSE "reset")
    /\ UNCHANGED <<FreeSListHead, CacheRegionCommit, CommitEvent, pages, pRecord, held, failures>>

\* Another thread commits a region: wait for it, then look at the list again.
WaitForCommit(t) ==
    /\ pc[t] = "wait" /\ CommitEvent
    /\ Goto(t, "retry")
    /\ UNCHANGED <<FreeSListHead, CacheRegionCommit, CommitBit, CommitEvent, pages, pRecord,
                   held, failures>>

Retry(t) ==
    /\ pc[t] = "retry"
    /\ PopOr(t, "check")
    /\ UNCHANGED <<CacheRegionCommit, CommitBit, CommitEvent, pages, pRecord, failures>>

ResetCommitEvent(t) ==
    /\ pc[t] = "reset"
    /\ CommitEvent' = FALSE /\ Goto(t, "commit")
    /\ UNCHANGED <<FreeSListHead, CacheRegionCommit, CommitBit, pages, pRecord, held, failures>>

\* The owner of the bit looks at the limit again, and commits a region: its
\* memory first, then the count that the others see.
CommitRegion(t) ==
    /\ pc[t] = "commit" /\ CacheRegionCommit < CacheRegionMax
    /\ pages' = pages \union {CacheRegionCommit}
    /\ pRecord' = [pRecord EXCEPT ![t] = RegionStart(CacheRegionCommit)]
    /\ CacheRegionCommit' = CacheRegionCommit + 1
    /\ Goto(t, "push")
    /\ UNCHANGED <<FreeSListHead, CommitBit, CommitEvent, held, failures>>

\* All regions are committed by now, or the system refuses the memory.
CommitFails(t) ==
    /\ pc[t] = "commit"
    /\ \/ CacheRegionCommit = CacheRegionMax /\ failures' = failures
       \/ /\ CacheRegionCommit < CacheRegionMax
          /\ failures < MaxFailures /\ failures' = failures + 1
    /\ Goto(t, "signal")
    /\ UNCHANGED <<FreeSListHead, CacheRegionCommit, CommitBit, CommitEvent, pages, pRecord, held>>

\* Mutant of PushRecord: the loop stops one record early.
PushRecordShort(t) ==
    /\ pc[t] = "push"
    /\ FreeSListHead' = FreeSListHead \union {pRecord[t]}
    /\ pRecord' = [pRecord EXCEPT ![t] = @ + CacheRecordSize]
    /\ Goto(t, IF pRecord'[t] + CacheRecordSize < LastRecord(CacheRegionCommit - 1)
               THEN "push" ELSE "keep")
    /\ UNCHANGED <<CacheRegionCommit, CommitBit, CommitEvent, pages, held, failures>>

PushRecord(t) ==
    /\ pc[t] = "push"
    /\ FreeSListHead' = FreeSListHead \union {pRecord[t]}
    /\ pRecord' = [pRecord EXCEPT ![t] = @ + CacheRecordSize]
    /\ Goto(t, IF pRecord'[t] < LastRecord(CacheRegionCommit - 1) THEN "push" ELSE "keep")
    /\ UNCHANGED <<CacheRegionCommit, CommitBit, CommitEvent, pages, held, failures>>

KeepRecord(t) ==
    /\ pc[t] = "keep"
    /\ held' = [held EXCEPT ![t] = @ \union {pRecord[t]}]
    /\ Goto(t, "signal")
    /\ UNCHANGED <<FreeSListHead, CacheRegionCommit, CommitBit, CommitEvent, pages, pRecord,
                   failures>>

\* Mutant of SetCommitEvent: the event is left as it is.
SetCommitEventNot(t) ==
    /\ pc[t] = "signal"
    /\ Goto(t, "unlock")
    /\ UNCHANGED <<FreeSListHead, CacheRegionCommit, CommitBit, CommitEvent, pages, pRecord,
                   held, failures>>

\* The waiting threads go on before the bit is clear, and may come back.
SetCommitEvent(t) ==
    /\ pc[t] = "signal"
    /\ CommitEvent' = TRUE /\ Goto(t, "unlock")
    /\ UNCHANGED <<FreeSListHead, CacheRegionCommit, CommitBit, pages, pRecord, held, failures>>

ClearCommitLockTagBit(t) ==
    /\ pc[t] = "unlock"
    /\ CommitBit' = FALSE /\ Goto(t, "idle")
    /\ UNCHANGED <<FreeSListHead, CacheRegionCommit, CommitEvent, pages, pRecord, held, failures>>

Pops(t) ==
    \/ CheckLimit(t) \/ SetCommitLockTagBit(t) \/ WaitForCommit(t) \/ Retry(t)
    \/ ResetCommitEvent(t) \/ CommitRegion(t) \/ CommitFails(t)
    \/ PushRecord(t) \/ KeepRecord(t)
    \/ SetCommitEvent(t) \/ ClearCommitLockTagBit(t)

Next == \E t \in Threads : PopCacheListEntry(t) \/ PushCacheListEntry(t) \/ Pops(t)

\* A thread in PopCacheListEntry goes on.
Spec == Init /\ [][Next]_vars /\ \A t \in Threads : WF_vars(Pops(t))

-----------------------------------------------------------------------------
\* Whoever has a record has it alone, and all records are those of the block,
\* side by side behind the CACHELIST, across the ends of the regions.
Pool == INSTANCE RecordPool WITH Users <- Threads, out <- held
ImplementsPool == Pool!Spec

Filling == {t \in Threads : pc[t] \in {"push", "keep"}}
InFlight == UNION {From(pRecord[t], CacheRegionCommit - 1) : t \in Filling}
Held == UNION {held[t] : t \in Threads}

\* No record is lost and none is there twice: those of the committed regions are
\* free, held, or still to be pushed by the one thread that fills a region, and
\* they lie in memory that is committed.
Conserved ==
    /\ Cardinality(Filling) <= 1
    /\ FreeSListHead \intersect Held = {} /\ (FreeSListHead \union Held) \intersect InFlight = {}
    /\ FreeSListHead \union Held \union InFlight =
          {x \in Records : CacheRegionCommit > 0 /\ x < RegionTail(CacheRegionCommit - 1)}
    /\ \A x \in FreeSListHead \union Held \union InFlight :
          x \div cbRegion \in pages /\ (x + CacheRecordSize - 1) \div cbRegion \in pages

\* A thread that asks for a record comes back with or without one, whoever
\* commits, and however often the event is reset under it or a commit fails.
PopReturns == \A t \in Threads : pc[t] # "idle" ~> pc[t] = "idle"
=============================================================================
