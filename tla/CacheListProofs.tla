--------------------------- MODULE CacheListProofs ---------------------------
(***************************************************************************)
(* The cached list loses no record and hands none out twice, for any       *)
(* number of threads and any sizes of block, region and record.            *)
(*                                                                         *)
(* The argument: the records that are free or held are at any time those   *)
(* below a frontier, an address that moves through the block one record    *)
(* at a time, and only the owner of the commit bit moves it.               *)
(***************************************************************************)
EXTENDS CacheList, FiniteSetTheorems, TLAPS

-----------------------------------------------------------------------------
(* Arithmetic of div and mod.                                              *)

LEMMA DivMod ==
    ASSUME NEW a \in Int, NEW b \in Nat \ {0}
    PROVE  /\ a = (a \div b) * b + (a % b)
           /\ a \div b \in Int /\ a % b \in 0 .. b - 1
OBVIOUS

LEMMA ModOfMultiple ==
    ASSUME NEW k \in Int, NEW b \in Nat \ {0}
    PROVE  (k * b) % b = 0
OBVIOUS

\* Multiples of b are in the order of their factors, b apart at least.
LEMMA MultipleOrder ==
    ASSUME NEW k \in Int, NEW j \in Int, NEW b \in Nat \ {0}
    PROVE  /\ k < j <=> k * b < j * b
           /\ k < j => k * b + b <= j * b
           /\ k <= j <=> k * b <= j * b
OBVIOUS

LEMMA DivBound ==
    ASSUME NEW a \in Nat, NEW b \in Nat \ {0}, NEW n \in Nat, a < n * b
    PROVE  a \div b \in 0 .. n - 1
<1> DEFINE q == a \div b
<1>1. a = q * b + (a % b) /\ q \in Int /\ a % b \in 0 .. b - 1 BY DivMod
<1> HIDE DEF q
<1>2. q * b < n * b BY <1>1
<1>3. q < n BY <1>1, <1>2, MultipleOrder
<1>4. ~(q <= -1)
    <2> SUFFICES ASSUME q <= -1 PROVE FALSE OBVIOUS
    <2>1. q * b <= (-1) * b BY <1>1, MultipleOrder
    <2> QED BY <1>1, <2>1
<1> QED BY <1>1, <1>3, <1>4 DEF q

-----------------------------------------------------------------------------
(* The layout of the block.                                                *)

\* The number of records of the block, and of a region but the last.
Count == (CacheBlockSize - SizeOfCacheList) \div CacheRecordSize
PerRegion == (cbRegion - SizeOfCacheList) \div CacheRecordSize

\* Address(i): the address of record i.
Address(i) == SizeOfCacheList + i * CacheRecordSize

LEMMA Sizes ==
    /\ CacheBlockSize \in Nat \ {0} /\ CacheRegionMax \in Nat \ {0}
    /\ CacheRecordSize \in Nat \ {0} /\ SizeOfCacheList \in Nat \ {0}
    /\ cbRegion \in Nat \ {0} /\ cbActual \in Nat \ {0}
    /\ CacheBlockSize = CacheRegionMax * cbRegion
    /\ cbActual = PerRegion * CacheRecordSize
    /\ PerRegion \in Nat /\ PerRegion >= 2
    /\ SizeOfCacheList + cbActual <= cbRegion
    /\ Count \in Nat /\ CacheRegionMax * PerRegion <= Count
    /\ CacheBlockSize - ((CacheBlockSize - SizeOfCacheList) % CacheRecordSize) = Address(Count)
    /\ Address(Count) <= CacheBlockSize
<1>1. /\ CacheBlockSize \in Nat \ {0} /\ CacheRegionMax \in Nat \ {0}
      /\ CacheRecordSize \in Nat \ {0} /\ SizeOfCacheList \in Nat \ {0}
      /\ CacheBlockSize = cbRegion * CacheRegionMax
      /\ cbActual >= 2 * CacheRecordSize
    BY SizesAssumption
<1>2. cbRegion \in Int BY <1>1, DivMod DEF cbRegion
<1>3. cbRegion \in Nat \ {0}
    <2> SUFFICES ASSUME cbRegion <= 0 PROVE FALSE BY <1>2
    <2>1. cbRegion * CacheRegionMax <= 0 * CacheRegionMax BY <1>1, <1>2, MultipleOrder
    <2> QED BY <1>1, <2>1
<1>4. CacheBlockSize = CacheRegionMax * cbRegion BY <1>1, <1>3
<1> DEFINE wasted == (cbRegion - SizeOfCacheList) % CacheRecordSize
           unused == (CacheBlockSize - SizeOfCacheList) % CacheRecordSize
<1>5. /\ cbRegion - SizeOfCacheList = PerRegion * CacheRecordSize + wasted
      /\ PerRegion \in Int /\ wasted \in 0 .. CacheRecordSize - 1
    <2>1. cbRegion - SizeOfCacheList \in Int /\ CacheRecordSize \in Nat \ {0} BY <1>1, <1>3
    <2> QED BY ONLY <2>1, DivMod DEF PerRegion
<1>6. /\ CacheBlockSize - SizeOfCacheList = Count * CacheRecordSize + unused
      /\ Count \in Int /\ unused \in 0 .. CacheRecordSize - 1
    <2>1. CacheBlockSize - SizeOfCacheList \in Int /\ CacheRecordSize \in Nat \ {0} BY <1>1
    <2> QED BY ONLY <2>1, DivMod DEF Count
<1>7. cbActual = (cbRegion - SizeOfCacheList) - wasted BY DEF cbActual
<1> HIDE DEF wasted, unused
<1>8. cbActual = PerRegion * CacheRecordSize /\ SizeOfCacheList + cbActual <= cbRegion
    BY <1>1, <1>3, <1>5, <1>7
<1>9. PerRegion >= 2 /\ cbActual \in Nat \ {0}
    <2>1. 2 * CacheRecordSize <= PerRegion * CacheRecordSize BY <1>1, <1>5, <1>8
    <2>2. 2 <= PerRegion BY <1>1, <1>5, <2>1, MultipleOrder
    <2> QED BY <1>1, <1>5, <1>8, <2>1, <2>2
<1>10. CacheRegionMax * PerRegion <= Count
    <2>1. CacheRegionMax * cbActual <= CacheRegionMax * (cbRegion - SizeOfCacheList)
        BY <1>1, <1>3, <1>8, <1>9, MultipleOrder
    <2>2. CacheRegionMax * (cbRegion - SizeOfCacheList) <= CacheBlockSize - SizeOfCacheList
        BY <1>1, <1>3, <1>4, MultipleOrder
    <2>3. CacheRegionMax * cbActual = (CacheRegionMax * PerRegion) * CacheRecordSize
        BY <1>1, <1>5, <1>8
    <2> DEFINE m == CacheRegionMax * PerRegion
    <2>4. m \in Int BY <1>1, <1>5
    <2>5. m * CacheRecordSize < (Count + 1) * CacheRecordSize
        BY <1>1, <1>3, <1>6, <1>9, <2>1, <2>2, <2>3
    <2>6. m < Count + 1
        <3> HIDE DEF m
        <3> QED BY <1>1, <1>6, <2>4, <2>5, MultipleOrder
    <2> QED BY <1>6, <2>4, <2>6
<1>11. Count \in Nat
    <2>1. CacheRegionMax * PerRegion \in Nat BY <1>1, <1>5, <1>9
    <2> QED BY <1>6, <1>10, <2>1
<1>12. CacheBlockSize - unused = Address(Count) /\ Address(Count) <= CacheBlockSize
    BY <1>1, <1>6, <1>11 DEF Address
<1> QED BY <1>1, <1>3, <1>4, <1>5, <1>8, <1>9, <1>10, <1>11, <1>12 DEF unused

LEMMA RecordsAre ==
    /\ \A x : x \in Records <=> \E i \in 0 .. Count - 1 : x = Address(i)
    /\ \A i \in 0 .. Count - 1 : Address(i) \in Records
    /\ Records \subseteq Nat
<1>1. \A x : x \in Records <=> \E i \in 0 .. Count - 1 : x = Address(i)
    BY DEF Records, Count, Address
<1>2. \A i \in Nat : Address(i) \in Nat BY Sizes DEF Address
<1> QED BY <1>1, <1>2, Sizes

LEMMA AddressOrder ==
    ASSUME NEW i \in Int, NEW j \in Int
    PROVE  /\ Address(i) \in Int
           /\ i < j <=> Address(i) < Address(j)
           /\ i <= j <=> Address(i) <= Address(j)
           /\ i < j => Address(i) + CacheRecordSize <= Address(j)
           /\ Address(i) + CacheRecordSize = Address(i + 1)
           /\ Address(j) - CacheRecordSize = Address(j - 1)
<1>1. CacheRecordSize \in Nat \ {0} /\ SizeOfCacheList \in Int BY Sizes
<1>2. /\ i < j <=> i * CacheRecordSize < j * CacheRecordSize
      /\ i < j => i * CacheRecordSize + CacheRecordSize <= j * CacheRecordSize
      /\ i <= j <=> i * CacheRecordSize <= j * CacheRecordSize
    BY <1>1, MultipleOrder
<1>3. /\ i * CacheRecordSize + CacheRecordSize = (i + 1) * CacheRecordSize
      /\ j * CacheRecordSize - CacheRecordSize = (j - 1) * CacheRecordSize
      /\ i * CacheRecordSize \in Int /\ j * CacheRecordSize \in Int
    BY <1>1
<1> QED BY <1>1, <1>2, <1>3 DEF Address

\* All of them are numbers.
LEMMA AddressesAreNumbers ==
    (\A x \in Records : x \in Int) /\ (\A i \in Int : Address(i) \in Int)
BY RecordsAre, AddressOrder

\* RegionEnd(r): the number of records in the regions up to r.
RegionEnd(r) == IF r < CacheRegionMax - 1 THEN (r + 1) * PerRegion ELSE Count

\* The regions lie side by side, two records long at least, each within the
\* memory committed with it and before it.
LEMMA Regions ==
    ASSUME NEW r \in 0 .. CacheRegionMax - 1
    PROVE  /\ RegionStart(r) = Address(r * PerRegion) /\ r * PerRegion \in Nat
           /\ RegionTail(r) = Address(RegionEnd(r)) /\ RegionEnd(r) \in 0 .. Count
           /\ r * PerRegion + 2 <= RegionEnd(r)
           /\ LastRecord(r) = Address(RegionEnd(r) - 1)
           /\ r < CacheRegionMax - 1 => RegionTail(r) = RegionStart(r + 1)
           /\ RegionTail(r) <= (r + 1) * cbRegion
           /\ RegionStart(0) = SizeOfCacheList
           /\ RegionTail(r) \in Int /\ LastRecord(r) \in Int
<1> USE Sizes
<1>0. r \in Nat /\ r <= CacheRegionMax - 1 /\ CacheRegionMax \in Nat OBVIOUS
<1>1. \A n \in Nat : RegionStart(n) = Address(n * PerRegion) /\ n * PerRegion \in Nat
    BY DEF RegionStart, Address
<1>2. \A n \in Nat : Address(n * PerRegion) + cbActual = Address((n + 1) * PerRegion)
    BY DEF Address
<1>3. /\ (r + 1) * PerRegion <= CacheRegionMax * PerRegion
      /\ (r + 1) * PerRegion = r * PerRegion + PerRegion
      /\ (r + 1) * PerRegion \in Nat /\ CacheRegionMax * PerRegion \in Nat
    <2>1. PerRegion \in Nat \ {0} OBVIOUS
    <2> QED BY <1>0, <2>1, MultipleOrder
<1>4. RegionTail(r) = Address(RegionEnd(r)) BY <1>0, <1>1, <1>2 DEF RegionTail, RegionEnd
<1>5. RegionEnd(r) \in 0 .. Count /\ r * PerRegion + 2 <= RegionEnd(r)
    BY <1>0, <1>1, <1>3 DEF RegionEnd
<1>6. LastRecord(r) = Address(RegionEnd(r) - 1)
    BY <1>4, <1>5, AddressOrder DEF LastRecord
<1>7. r < CacheRegionMax - 1 => RegionTail(r) = RegionStart(r + 1)
    BY <1>0, <1>1, <1>4 DEF RegionEnd
<1>8. RegionTail(r) <= (r + 1) * cbRegion
    <2>1. CASE r < CacheRegionMax - 1
        <3>1. RegionTail(r) = SizeOfCacheList + (r + 1) * cbActual
            BY <1>0, <1>1, <2>1 DEF RegionTail, RegionStart
        <3>2. (r + 1) * (SizeOfCacheList + cbActual) <= (r + 1) * cbRegion
            <4> DEFINE low == SizeOfCacheList + cbActual
            <4>1. low \in Int /\ low <= cbRegion OBVIOUS
            <4> HIDE DEF low
            <4>2. low * (r + 1) <= cbRegion * (r + 1)
                BY <1>0, <4>1, MultipleOrder
            <4>3. low * (r + 1) = (r + 1) * low /\ cbRegion * (r + 1) = (r + 1) * cbRegion
                BY <1>0, <4>1
            <4> QED BY <4>2, <4>3 DEF low
        <3>3. (r + 1) * (SizeOfCacheList + cbActual)
                 = SizeOfCacheList + r * SizeOfCacheList + (r + 1) * cbActual
            BY <1>0
        <3>4. r * SizeOfCacheList \in Nat /\ (r + 1) * cbActual \in Nat /\ (r + 1) * cbRegion \in Nat
            BY <1>0
        <3> QED BY <3>1, <3>2, <3>3, <3>4
    <2>2. CASE r = CacheRegionMax - 1
        <3>1. RegionTail(r) = Address(Count) BY <1>4, <2>2 DEF RegionEnd
        <3>2. (r + 1) * cbRegion = CacheBlockSize BY <2>2
        <3> QED BY <3>1, <3>2
    <2> QED BY <1>0, <2>1, <2>2
<1>9. RegionStart(0) = SizeOfCacheList BY DEF RegionStart
<1>10. RegionTail(r) \in Int /\ LastRecord(r) \in Int
    BY <1>4, <1>5, <1>6, AddressesAreNumbers
<1> QED BY <1>0, <1>1, <1>4, <1>5, <1>6, <1>7, <1>8, <1>9, <1>10

\* What is still to be pushed, by addresses, is the records from a on.
LEMMA FromRecords ==
    ASSUME NEW r \in 0 .. CacheRegionMax - 1, NEW a \in Records
    PROVE  From(a, r) = {x \in Records : a <= x /\ x < RegionTail(r)}
<1> DEFINE n == RegionEnd(r)
<1>1. PICK i \in 0 .. Count - 1 : a = Address(i) BY RecordsAre
<1>2. /\ RegionTail(r) = Address(n) /\ n \in 0 .. Count
      /\ LastRecord(r) = Address(n - 1)
    BY Regions
<1>3. Count \in Nat /\ CacheRecordSize \in Nat \ {0} /\ SizeOfCacheList \in Nat BY Sizes
<1> HIDE DEF n
<1>4. ASSUME NEW x \in From(a, r) PROVE x \in Records /\ a <= x /\ x < RegionTail(r)
    <2>1. /\ x \in Int /\ a <= x /\ x <= Address(n - 1) /\ (x - a) % CacheRecordSize = 0
          /\ a \in Int
        BY <1>1, <1>2, AddressOrder, <1>4 DEF From
    <2> DEFINE q == (x - a) \div CacheRecordSize
    <2>2. x - a = q * CacheRecordSize /\ q \in Int
        <3>1. x - a \in Int BY <2>1
        <3>2. x - a = q * CacheRecordSize + ((x - a) % CacheRecordSize) /\ q \in Int
            BY ONLY <1>3, <3>1, DivMod
        <3>3. q * CacheRecordSize \in Int BY <1>3, <3>2
        <3> HIDE DEF q
        <3> QED BY <2>1, <3>1, <3>2, <3>3
    <2> HIDE DEF q
    <2>3. x = Address(i + q) BY <1>1, <1>3, <2>1, <2>2 DEF Address
    <2>4. i <= i + q /\ i + q <= n - 1 BY <1>1, <1>2, <2>1, <2>2, <2>3, AddressOrder
    <2>5. i + q \in 0 .. Count - 1 /\ i + q < n BY <1>1, <1>2, <1>3, <2>2, <2>4
    <2> QED BY <1>1, <1>2, <2>1, <2>3, <2>5, RecordsAre, AddressOrder
<1>5. ASSUME NEW x \in Records, a <= x, x < RegionTail(r) PROVE x \in From(a, r)
    <2>1. PICK k \in 0 .. Count - 1 : x = Address(k) BY RecordsAre
    <2>2. k < n /\ a \in Int /\ x \in Int BY <1>1, <1>2, <1>3, <1>5, <2>1, AddressOrder
    <2>3. x <= LastRecord(r) /\ LastRecord(r) \in Int BY <1>2, <1>3, <2>1, <2>2, AddressOrder
    <2>4. x - a = (k - i) * CacheRecordSize BY <1>1, <1>3, <2>1 DEF Address
    <2>5. k - i \in Int BY <1>1, <1>3, <2>1
    <2>6. (x - a) % CacheRecordSize = 0 BY <1>3, <2>4, <2>5, ModOfMultiple
    <2> QED BY <1>5, <2>2, <2>3, <2>6 DEF From
<1> QED BY <1>4, <1>5

\* A record of the regions up to r lies in their memory.
LEMMA RecordMemory ==
    ASSUME NEW r \in 0 .. CacheRegionMax - 1, NEW x \in Records, x < RegionTail(r)
    PROVE  /\ x \div cbRegion \in 0 .. r
           /\ (x + CacheRecordSize - 1) \div cbRegion \in 0 .. r
<1>1. PICK i \in 0 .. Count - 1 : x = Address(i) BY RecordsAre
<1>2. Count \in Nat /\ CacheRecordSize \in Nat \ {0} /\ cbRegion \in Nat \ {0} BY Sizes
<1>3. /\ RegionTail(r) = Address(RegionEnd(r)) /\ RegionEnd(r) \in 0 .. Count
      /\ RegionTail(r) <= (r + 1) * cbRegion
    BY Regions
<1>4. x \in Nat BY RecordsAre
<1>5. x + CacheRecordSize <= RegionTail(r) BY <1>1, <1>2, <1>3, AddressOrder
<1>6. r \in Nat BY Sizes
<1>7. (r + 1) * cbRegion \in Nat /\ RegionTail(r) \in Int BY <1>2, <1>3, <1>6, AddressOrder
<1>8. /\ x + CacheRecordSize - 1 \in Nat /\ x < (r + 1) * cbRegion
      /\ x + CacheRecordSize - 1 < (r + 1) * cbRegion
    BY <1>2, <1>3, <1>4, <1>5, <1>7
<1>9. \A y \in Nat : y < (r + 1) * cbRegion => y \div cbRegion \in 0 .. r
    BY <1>2, <1>6, DivBound
<1> QED BY <1>4, <1>8, <1>9

-----------------------------------------------------------------------------
(* The inductive invariant.                                                *)

\* Where the records of the first n regions end.
EndOf(n) == IF n = 0 THEN SizeOfCacheList ELSE RegionTail(n - 1)

\* The records below address a.
Below(a) == {x \in Records : x < a}

Taken == FreeSListHead \union Held

\* The steps of the owner of the commit bit.
Owning == {"reset", "commit", "push", "keep", "signal", "unlock"}

TypeOK ==
    /\ CacheRegionCommit \in 0 .. CacheRegionMax /\ pages = 0 .. CacheRegionCommit - 1
    /\ CommitBit \in BOOLEAN
    /\ pc \in [Threads -> {"idle", "check", "lock", "wait", "retry"} \union Owning]
    /\ pRecord \in [Threads -> Int] /\ held \in [Threads -> SUBSET Records]
    /\ FreeSListHead \subseteq Records

\* One thread at a time commits, and the bit is set while it does.
OneOwner ==
    \A t \in Threads : pc[t] \in Owning =>
        CommitBit /\ \A u \in Threads : pc[u] \in Owning => u = t

\* The thread that fills the last region is at one of its records, at the last
\* one when it keeps it, and has got rid of all before.
FillsUp ==
    \A t \in Filling :
        /\ CacheRegionCommit > 0
        /\ pRecord[t] \in Records /\ RegionStart(CacheRegionCommit - 1) <= pRecord[t]
        /\ pc[t] = "push" => pRecord[t] < LastRecord(CacheRegionCommit - 1)
        /\ pc[t] = "keep" => pRecord[t] = LastRecord(CacheRegionCommit - 1)
        /\ Taken = Below(pRecord[t])

\* Between two commits the records of all regions committed are out.
FilledUp == Filling = {} => Taken = Below(EndOf(CacheRegionCommit))

\* No record is with two threads, or with one and on the list.
Apart ==
    \A t \in Threads :
        /\ held[t] \intersect FreeSListHead = {}
        /\ \A u \in Threads : u # t => held[t] \intersect held[u] = {}

IInv == TypeOK /\ OneOwner /\ FillsUp /\ FilledUp /\ Apart

LEMMA InitInv == Init => IInv
<1> SUFFICES ASSUME Init PROVE IInv OBVIOUS
<1> USE DEF Init
<1>1. TypeOK
    <2>1. pages = 0 .. CacheRegionCommit - 1 OBVIOUS
    <2>2. CacheRegionCommit \in 0 .. CacheRegionMax BY Sizes
    <2>3. held \in [Threads -> SUBSET Records] /\ FreeSListHead \subseteq Records OBVIOUS
    <2>4. pc \in [Threads -> {"idle", "check", "lock", "wait", "retry"} \union Owning]
        OBVIOUS
    <2>5. pRecord \in [Threads -> Int] OBVIOUS
    <2>6. CommitBit \in BOOLEAN OBVIOUS
    <2> QED BY ONLY <2>1, <2>2, <2>3, <2>4, <2>5, <2>6 DEF TypeOK
<1>2. OneOwner /\ FillsUp /\ Apart BY DEF OneOwner, FillsUp, Apart, Filling, Owning
<1>3. Taken = {} BY DEF Taken, Held
<1>4. Below(EndOf(0)) = {}
    <2>1. \A i \in 0 .. Count - 1 : ~(Address(i) < SizeOfCacheList)
        BY Sizes, MultipleOrder DEF Address
    <2> QED BY <2>1, RecordsAre DEF Below, EndOf
<1> QED BY <1>1, <1>2, <1>3, <1>4 DEF IInv, FilledUp

\* A step that leaves records and regions alone, and no thread fills one or
\* stops doing so, keeps what the frontier says.
LEMMA Frontier ==
    ASSUME IInv, Taken' = Taken, UNCHANGED <<CacheRegionCommit, pRecord>>,
           Filling' = Filling, \A t \in Filling : pc'[t] = pc[t]
    PROVE  FillsUp' /\ FilledUp'
BY DEF IInv, FillsUp, FilledUp, Below, EndOf

LEMMA HeldMore ==
    ASSUME TypeOK, NEW t \in Threads, NEW r, held' = [held EXCEPT ![t] = @ \union {r}]
    PROVE  Held' = Held \union {r}
BY DEF TypeOK, Held

\* A record of the list goes to thread t.
LEMMA TakeRecord ==
    ASSUME IInv, NEW t \in Threads, NEW r \in FreeSListHead, pc[t] \in {"idle", "retry"},
           FreeSListHead' = FreeSListHead \ {r},
           held' = [held EXCEPT ![t] = @ \union {r}], Goto(t, "idle"),
           UNCHANGED <<CacheRegionCommit, CommitBit, CommitEvent, pages, pRecord, failures>>
    PROVE  IInv'
<1> USE DEF Goto
<1>1. TypeOK' BY DEF IInv, TypeOK
<1>2. OneOwner' BY DEF IInv, TypeOK, OneOwner, Owning
<1>3. Filling' = Filling /\ \A u \in Filling : pc'[u] = pc[u] BY DEF IInv, TypeOK, Filling
<1>4. Taken' = Taken BY HeldMore DEF IInv, Taken
<1>5. Apart' BY DEF IInv, TypeOK, Apart
<1> QED BY <1>1, <1>2, <1>3, <1>4, <1>5, Frontier DEF IInv

\* The list is empty: thread t goes on to step l.
LEMMA MoveOn ==
    ASSUME IInv, NEW t \in Threads, pc[t] \notin Owning,
           NEW l \in {"idle", "check", "lock", "wait", "retry"}, Goto(t, l),
           UNCHANGED <<FreeSListHead, CacheRegionCommit, CommitBit, pages, pRecord, held>>
    PROVE  IInv'
<1> USE DEF Goto
<1>1. TypeOK' BY DEF IInv, TypeOK
<1>2. OneOwner' BY DEF IInv, TypeOK, OneOwner, Owning
<1>3. Filling' = Filling /\ \A u \in Filling : pc'[u] = pc[u] BY DEF IInv, TypeOK, Filling
<1>4. Taken' = Taken BY DEF Taken, Held
<1>5. Apart' BY DEF IInv, Apart
<1> QED BY <1>1, <1>2, <1>3, <1>4, <1>5, Frontier DEF IInv

LEMMA PopStep ==
    ASSUME IInv, NEW t \in Threads, PopCacheListEntry(t) \/ Retry(t)
    PROVE  IInv'
<1>1. /\ pc[t] \in {"idle", "retry"} /\ PopOr(t, "check")
      /\ UNCHANGED <<CacheRegionCommit, CommitBit, CommitEvent, pages, pRecord, failures>>
    BY DEF PopCacheListEntry, Retry
<1>2. CASE FreeSListHead = {} /\ Goto(t, "check") /\ UNCHANGED <<FreeSListHead, held>>
    BY <1>1, <1>2, MoveOn DEF Owning
<1>3. CASE \E r \in FreeSListHead :
               /\ FreeSListHead' = FreeSListHead \ {r}
               /\ held' = [held EXCEPT ![t] = @ \union {r}]
               /\ Goto(t, "idle")
    BY <1>1, <1>3, TakeRecord
<1> QED BY <1>1, <1>2, <1>3 DEF PopOr

LEMMA PushStep ==
    ASSUME IInv, NEW t \in Threads, PushCacheListEntry(t)
    PROVE  IInv'
<1>1. PICK r \in held[t] : /\ FreeSListHead' = FreeSListHead \union {r}
                           /\ held' = [held EXCEPT ![t] = @ \ {r}]
    BY DEF PushCacheListEntry
<1>2. UNCHANGED <<CacheRegionCommit, CommitBit, CommitEvent, pages, pc, pRecord, failures>>
    BY DEF PushCacheListEntry
<1>3. TypeOK' BY <1>1, <1>2 DEF IInv, TypeOK
<1>4. OneOwner' BY <1>2 DEF IInv, OneOwner
<1>5. Filling' = Filling BY <1>2 DEF Filling
<1>6. Taken' = Taken BY <1>1 DEF IInv, TypeOK, Taken, Held
<1>7. Apart' BY <1>1 DEF IInv, TypeOK, Apart
<1> QED BY <1>2, <1>3, <1>4, <1>5, <1>6, <1>7, Frontier DEF IInv

\* The steps of a thread that wants a region committed and is not at one itself.
LEMMA WaitStep ==
    ASSUME IInv, NEW t \in Threads, CheckLimit(t) \/ WaitForCommit(t)
    PROVE  IInv'
<1>1. CASE CheckLimit(t) BY <1>1, MoveOn DEF CheckLimit, Owning
<1>2. CASE WaitForCommit(t) BY <1>2, MoveOn DEF WaitForCommit, Owning
<1> QED BY <1>1, <1>2

LEMMA LockStep ==
    ASSUME IInv, NEW t \in Threads, SetCommitLockTagBit(t)
    PROVE  IInv'
<1> USE DEF SetCommitLockTagBit, Goto
<1>1. TypeOK' BY DEF IInv, TypeOK, Owning
<1>2. OneOwner' BY DEF IInv, TypeOK, OneOwner, Owning
<1>3. Filling' = Filling /\ \A u \in Filling : pc'[u] = pc[u] BY DEF IInv, TypeOK, Filling
<1>4. Taken' = Taken BY DEF Taken, Held
<1>5. Apart' BY DEF IInv, Apart
<1> QED BY <1>1, <1>2, <1>3, <1>4, <1>5, Frontier DEF IInv

\* The owner's steps that touch neither records nor regions.
LEMMA OwnerStep ==
    ASSUME IInv, NEW t \in Threads,
           \/ ResetCommitEvent(t) \/ CommitFails(t)
           \/ SetCommitEvent(t) \/ ClearCommitLockTagBit(t)
    PROVE  IInv'
<1> USE DEF ResetCommitEvent, CommitFails, SetCommitEvent, ClearCommitLockTagBit, Goto
<1>1. TypeOK' BY DEF IInv, TypeOK, Owning
<1>2. OneOwner' BY DEF IInv, TypeOK, OneOwner, Owning
<1>3. Filling' = Filling /\ \A u \in Filling : pc'[u] = pc[u] BY DEF IInv, TypeOK, Filling
<1>4. Taken' = Taken BY DEF Taken, Held
<1>5. Apart' BY DEF IInv, Apart
<1> QED BY <1>1, <1>2, <1>3, <1>4, <1>5, Frontier DEF IInv

LEMMA CommitStep ==
    ASSUME IInv, NEW t \in Threads, CommitRegion(t)
    PROVE  IInv'
<1> USE DEF CommitRegion, Goto
<1> DEFINE r == CacheRegionCommit
<1>1. r \in 0 .. CacheRegionMax - 1 /\ r \in Nat BY Sizes DEF IInv, TypeOK
<1>2. /\ RegionStart(r) = Address(r * PerRegion) /\ r * PerRegion \in Nat
      /\ LastRecord(r) = Address(RegionEnd(r) - 1) /\ RegionEnd(r) \in 0 .. Count
      /\ r * PerRegion + 2 <= RegionEnd(r) /\ RegionStart(0) = SizeOfCacheList
    BY <1>1, Regions
<1>3. RegionStart(r) \in Records /\ RegionStart(r) \in Int /\ RegionStart(r) < LastRecord(r)
    <2>1. r * PerRegion \in 0 .. Count - 1 /\ r * PerRegion < RegionEnd(r) - 1
        BY <1>2, Sizes
    <2> QED BY <1>2, <2>1, RecordsAre, AddressOrder
<1>4. EndOf(r) = RegionStart(r)
    <2>1. CASE r = 0 BY <1>2, <2>1 DEF EndOf
    <2>2. CASE r > 0
        <3>1. r - 1 \in 0 .. CacheRegionMax - 1 /\ r - 1 < CacheRegionMax - 1 BY <1>1, <2>2, Sizes
        <3>2. RegionTail(r - 1) = RegionStart((r - 1) + 1) BY <3>1, Regions
        <3> QED BY <1>1, <2>2, <3>2 DEF EndOf
    <2> QED BY <1>1, <2>1, <2>2
<1>5. TypeOK' BY <1>1, <1>3, Sizes DEF IInv, TypeOK, Owning
<1>6. OneOwner' BY DEF IInv, TypeOK, OneOwner, Owning
<1>7. Filling = {} /\ Filling' = {t}
    BY DEF IInv, TypeOK, OneOwner, Owning, Filling
<1>8. Taken' = Below(RegionStart(r)) BY <1>4, <1>7 DEF IInv, FilledUp, Taken, Held
<1>9. FillsUp'
    <2>1. /\ pRecord'[t] = RegionStart(r) /\ CacheRegionCommit' - 1 = r /\ CacheRegionCommit' > 0
          /\ pc'[t] = "push"
        BY <1>1 DEF IInv, TypeOK
    <2>2. Taken' = Below(pRecord'[t]) BY <1>8, <2>1
    <2> QED BY <1>3, <1>7, <2>1, <2>2 DEF FillsUp, Below, RegionStart, LastRecord, RegionTail
<1>10. FilledUp' BY <1>7 DEF FilledUp
<1>11. Apart' BY DEF IInv, Apart
<1> QED BY <1>5, <1>6, <1>9, <1>10, <1>11 DEF IInv

\* With all records below record a taken, a is the next one.
LEMMA BelowNext ==
    ASSUME NEW a \in Records
    PROVE  a \notin Below(a) /\ Below(a + CacheRecordSize) = Below(a) \union {a}
<1>1. PICK i \in 0 .. Count - 1 : a = Address(i) BY RecordsAre
<1>2. a + CacheRecordSize = Address(i + 1) /\ i \in Int /\ i + 1 \in Int
    <2>1. i \in Int BY Sizes
    <2> QED BY <1>1, <2>1, AddressOrder
<1>3. \A k \in 0 .. Count - 1 : /\ Address(k) < Address(i + 1) <=> k < i + 1
                                /\ Address(k) < Address(i) <=> k < i
    <2> SUFFICES ASSUME NEW k \in 0 .. Count - 1
                 PROVE  /\ Address(k) < Address(i + 1) <=> k < i + 1
                        /\ Address(k) < Address(i) <=> k < i
        OBVIOUS
    <2>1. k \in Int BY Sizes
    <2> QED BY <1>2, <2>1, AddressOrder
<1>4. \A k \in 0 .. Count - 1 : k < i + 1 <=> k < i \/ k = i BY <1>2, Sizes
<1> QED BY <1>1, <1>2, <1>3, <1>4, RecordsAre DEF Below

\* What the thread that fills a region knows of its place in it.
LEMMA Filler ==
    ASSUME IInv, NEW t \in Threads, pc[t] \in {"push", "keep"}
    PROVE  /\ Filling = {t}
           /\ CacheRegionCommit \in 1 .. CacheRegionMax
           /\ CacheRegionCommit - 1 \in 0 .. CacheRegionMax - 1
           /\ pRecord[t] \in Records /\ Taken = Below(pRecord[t])
           /\ pRecord[t] \notin FreeSListHead /\ \A u \in Threads : pRecord[t] \notin held[u]
<1>1. Filling = {t} BY DEF IInv, OneOwner, Owning, Filling
<1>2. pRecord[t] \in Records /\ Taken = Below(pRecord[t]) /\ CacheRegionCommit > 0
    BY <1>1 DEF IInv, FillsUp
<1>3. CacheRegionCommit \in 1 .. CacheRegionMax /\ CacheRegionCommit - 1 \in 0 .. CacheRegionMax - 1
    BY <1>2, Sizes DEF IInv, TypeOK
<1>4. pRecord[t] \notin Taken BY <1>2, BelowNext
<1> QED BY <1>1, <1>2, <1>3, <1>4 DEF Taken, Held

LEMMA FillStep ==
    ASSUME IInv, NEW t \in Threads, PushRecord(t)
    PROVE  IInv'
<1> USE DEF PushRecord, Goto
<1> DEFINE r == CacheRegionCommit - 1
           a == pRecord[t]
           b == a + CacheRecordSize
<1>0. pc[t] = "push" OBVIOUS
<1>1. /\ Filling = {t} /\ CacheRegionCommit \in 1 .. CacheRegionMax
      /\ r \in 0 .. CacheRegionMax - 1 /\ a \in Records
      /\ Taken = Below(a) /\ \A u \in Threads : a \notin held[u]
    BY <1>0, Filler
<1>2. RegionStart(r) <= a /\ a < LastRecord(r)
    BY <1>1, <1>0 DEF IInv, FillsUp
<1>3. b \in Records /\ b \in Int /\ RegionStart(r) <= b /\ b <= LastRecord(r)
    <2>1. PICK i \in 0 .. Count - 1 : a = Address(i) BY <1>1, RecordsAre
    <2>2. /\ LastRecord(r) = Address(RegionEnd(r) - 1) /\ RegionEnd(r) \in 0 .. Count
          /\ RegionStart(r) = Address(r * PerRegion) /\ r * PerRegion \in Nat
        BY <1>1, Regions
    <2>3. b = Address(i + 1) /\ i + 1 \in Int BY <2>1, Sizes, AddressOrder
    <2>4. i < RegionEnd(r) - 1 BY <1>2, <2>1, <2>2, Sizes, AddressOrder
    <2>5. r * PerRegion <= i BY <1>2, <2>1, <2>2, Sizes, AddressOrder
    <2>6. i + 1 \in 0 .. Count - 1 /\ i + 1 <= RegionEnd(r) - 1 /\ r * PerRegion <= i + 1
        BY <2>1, <2>2, <2>4, <2>5, Sizes
    <2>7. b \in Records /\ b \in Int BY <2>3, <2>6, RecordsAre, AddressesAreNumbers
    <2>8. Address(r * PerRegion) <= Address(i + 1) /\ Address(i + 1) <= Address(RegionEnd(r) - 1)
        BY <2>2, <2>3, <2>6, Sizes, AddressOrder
    <2> QED BY <2>2, <2>3, <2>7, <2>8
<1>4. LastRecord(r) \in Int /\ a \in Int
    BY <1>1, Regions, AddressesAreNumbers
<1>5. /\ pRecord' = [pRecord EXCEPT ![t] = b] /\ pRecord'[t] = b
      /\ FreeSListHead' = FreeSListHead \union {a} /\ held' = held
      /\ CacheRegionCommit' = CacheRegionCommit
      /\ pc' = [pc EXCEPT ![t] = IF b < LastRecord(r) THEN "push" ELSE "keep"]
    BY DEF IInv, TypeOK
<1>6. LastRecord(r)' = LastRecord(r) /\ RegionStart(r)' = RegionStart(r)
    BY <1>5 DEF LastRecord, RegionStart, RegionTail
<1> HIDE DEF a, b
<1>7. TypeOK' BY <1>1, <1>3, <1>5 DEF IInv, TypeOK, Owning
<1>8. OneOwner' BY <1>5 DEF IInv, TypeOK, OneOwner, Owning
<1>9. Filling' = {t} BY <1>1, <1>5 DEF IInv, TypeOK, Filling
<1>10. Taken' = Below(b) BY <1>1, <1>5, BelowNext DEF Taken, Held, b
<1>11. FillsUp'
    <2>1. pc'[t] = "push" => b < LastRecord(r) BY <1>5 DEF IInv, TypeOK
    <2>2. pc'[t] = "keep" => b = LastRecord(r) BY <1>3, <1>4, <1>5 DEF IInv, TypeOK
    <2> HIDE DEF r
    <2>3. CacheRegionCommit' > 0 BY <1>1, <1>5
    <2>4. (CacheRegionCommit - 1)' = r BY <1>5 DEF r
    <2> QED BY <1>3, <1>5, <1>6, <1>9, <1>10, <2>1, <2>2, <2>3, <2>4 DEF FillsUp, Below, r
<1>12. FilledUp' BY <1>9 DEF FilledUp
<1>13. Apart' BY <1>1, <1>5 DEF IInv, TypeOK, Apart
<1> QED BY <1>7, <1>8, <1>11, <1>12, <1>13 DEF IInv

LEMMA KeepStep ==
    ASSUME IInv, NEW t \in Threads, KeepRecord(t)
    PROVE  IInv'
<1> USE DEF KeepRecord, Goto
<1> DEFINE r == CacheRegionCommit - 1
           a == pRecord[t]
<1>0. pc[t] = "keep" OBVIOUS
<1>1. /\ Filling = {t} /\ CacheRegionCommit \in 1 .. CacheRegionMax
      /\ r \in 0 .. CacheRegionMax - 1 /\ a \in Records /\ Taken = Below(a)
      /\ a \notin FreeSListHead /\ \A u \in Threads : a \notin held[u]
    BY <1>0, Filler
<1>2. a + CacheRecordSize = EndOf(CacheRegionCommit)
    <2>1. a = LastRecord(r) BY <1>0, <1>1 DEF IInv, FillsUp
    <2>2. RegionTail(r) = Address(RegionEnd(r)) /\ RegionEnd(r) \in 0 .. Count BY <1>1, Regions
    <2>3. RegionTail(r) \in Int BY <2>2, Sizes, AddressOrder
    <2>4. a + CacheRecordSize = RegionTail(r) BY <2>1, <2>3, Sizes DEF LastRecord
    <2> QED BY <1>1, <2>4 DEF EndOf
<1>3. TypeOK' BY <1>1 DEF IInv, TypeOK, Owning
<1>4. OneOwner' BY DEF IInv, TypeOK, OneOwner, Owning
<1>5. Filling' = {} BY <1>1 DEF IInv, TypeOK, Filling
<1>6. FillsUp' BY <1>5 DEF FillsUp
<1>7. FilledUp'
    <2>1. Held' = Held \union {a} BY HeldMore DEF IInv
    <2>2. Taken' = Below(a + CacheRecordSize) BY <1>1, <2>1, BelowNext DEF Taken
    <2>3. EndOf(CacheRegionCommit)' = EndOf(CacheRegionCommit) BY DEF EndOf, RegionTail, RegionStart
    <2> QED BY <1>2, <2>2, <2>3 DEF FilledUp, Below
<1>8. Apart' BY <1>1 DEF IInv, TypeOK, Apart
<1> QED BY <1>3, <1>4, <1>6, <1>7, <1>8 DEF IInv

LEMMA Invariance == Spec => []IInv
<1>1. ASSUME IInv, UNCHANGED vars PROVE IInv'
    BY <1>1 DEF vars, IInv, TypeOK, OneOwner, FillsUp, FilledUp, Apart, Taken, Held, Filling,
           Below, EndOf, RegionStart, RegionTail, LastRecord
<1>2. IInv /\ [Next]_vars => IInv'
    BY <1>1, PopStep, PushStep, WaitStep, LockStep, OwnerStep, CommitStep, FillStep, KeepStep
       DEF Next, Pops
<1> QED BY <1>2, InitInv, PTL DEF Spec

-----------------------------------------------------------------------------
(* What follows from it.                                                   *)

LEMMA InFlightIs ==
    ASSUME IInv
    PROVE  InFlight = IF Filling = {} THEN {}
                      ELSE {x \in Records : x < EndOf(CacheRegionCommit) /\ x \notin Taken}
<1>1. CASE Filling = {} BY <1>1 DEF InFlight
<1>2. CASE Filling # {}
    <2>1. PICK t \in Threads : pc[t] \in {"push", "keep"} BY <1>2 DEF Filling
    <2>2. /\ Filling = {t} /\ CacheRegionCommit \in 1 .. CacheRegionMax
          /\ CacheRegionCommit - 1 \in 0 .. CacheRegionMax - 1
          /\ pRecord[t] \in Records /\ Taken = Below(pRecord[t])
        BY <2>1, Filler
    <2>3. InFlight = From(pRecord[t], CacheRegionCommit - 1) BY <2>2 DEF InFlight
    <2>4. EndOf(CacheRegionCommit) = RegionTail(CacheRegionCommit - 1) BY <2>2 DEF EndOf
    <2>5. \A x \in Records : x \notin Taken <=> pRecord[t] <= x BY <2>2, AddressesAreNumbers DEF Below
    <2> QED BY <1>2, <2>2, <2>3, <2>4, <2>5, FromRecords
<1> QED BY <1>1, <1>2

LEMMA ConservedHolds == ASSUME IInv PROVE Conserved
<1> DEFINE all == {x \in Records : CacheRegionCommit > 0 /\ x < RegionTail(CacheRegionCommit - 1)}
<1>1. Cardinality(Filling) <= 1
    <2>1. CASE Filling = {} BY <2>1, FS_EmptySet
    <2>2. CASE Filling # {}
        <3>1. PICK t : Filling = {t} BY <2>2, Filler DEF Filling
        <3>2. Cardinality({t}) = 1 BY FS_Singleton
        <3> QED BY <3>1, <3>2
    <2> QED BY <2>1, <2>2
<1>2. FreeSListHead \intersect Held = {} BY DEF IInv, Apart, Held
<1>3. Taken \intersect InFlight = {} BY InFlightIs
<1>4. Below(EndOf(CacheRegionCommit)) = all
    <2>1. CASE CacheRegionCommit = 0
        <3>1. \A x \in Records : ~(x < SizeOfCacheList)
            BY RecordsAre, Sizes, MultipleOrder DEF Address
        <3> QED BY <2>1, <3>1 DEF EndOf, Below
    <2>2. CASE CacheRegionCommit > 0 BY <2>2 DEF EndOf, Below
    <2> QED BY <2>1, <2>2, Sizes DEF IInv, TypeOK
<1>5. Taken \union InFlight = all
    <2>1. CASE Filling = {} BY <1>4, <2>1, InFlightIs DEF IInv, FilledUp
    <2>2. CASE Filling # {}
        <3>1. PICK t \in Threads : pc[t] \in {"push", "keep"} BY <2>2 DEF Filling
        <3>2. /\ CacheRegionCommit \in 1 .. CacheRegionMax
              /\ CacheRegionCommit - 1 \in 0 .. CacheRegionMax - 1
              /\ pRecord[t] \in Records /\ Taken = Below(pRecord[t]) /\ t \in Filling
            BY <3>1, Filler
        <3>3. /\ RegionTail(CacheRegionCommit - 1) \in Int /\ CacheRecordSize \in Nat
              /\ LastRecord(CacheRegionCommit - 1) \in Int
            BY <3>2, Sizes, Regions
        <3>4. pRecord[t] <= LastRecord(CacheRegionCommit - 1)
            BY <3>1, <3>2, <3>3, AddressesAreNumbers DEF IInv, FillsUp
        <3>5. Taken \subseteq all
            <4>1. LastRecord(CacheRegionCommit - 1) <= RegionTail(CacheRegionCommit - 1)
                BY <3>3, Sizes DEF LastRecord
            <4>2. pRecord[t] \in Int /\ CacheRegionCommit > 0 BY <3>2, AddressesAreNumbers
            <4>3. pRecord[t] <= RegionTail(CacheRegionCommit - 1) BY <3>3, <3>4, <4>1, <4>2
            <4> HIDE DEF Taken
            <4> QED BY <3>2, <3>3, <4>2, <4>3, AddressesAreNumbers DEF Below
        <3> HIDE DEF all
        <3> QED BY <1>4, <2>2, <3>5, InFlightIs DEF Below
    <2> QED BY <2>1, <2>2
<1>6. ASSUME NEW x \in all
      PROVE  x \div cbRegion \in pages /\ (x + CacheRecordSize - 1) \div cbRegion \in pages
    <2>1. CacheRegionCommit - 1 \in 0 .. CacheRegionMax - 1 /\ pages = 0 .. CacheRegionCommit - 1
        BY <1>6, Sizes DEF IInv, TypeOK
    <2> QED BY <1>6, <2>1, RecordMemory
<1> QED BY <1>1, <1>2, <1>3, <1>5, <1>6 DEF Conserved, Taken

\* No record of the cached list is lost or there twice, and all lie in memory
\* that is committed: CacheList.cpp fills its regions right up to each other
\* whatever the sizes, and two threads never fill one.
THEOREM RecordsConserved == Spec => []Conserved
BY Invariance, ConservedHolds, PTL

LEMMA PoolStep ==
    ASSUME IInv, NEW t \in Threads,
           PopCacheListEntry(t) \/ PushCacheListEntry(t) \/ Pops(t)
    PROVE  [Pool!Next]_held
<1> USE DEF Pool!Next, Pool!Take, Pool!Give
<1>1. CASE PopCacheListEntry(t) \/ Retry(t)
    <2>1. CASE \E r \in FreeSListHead : held' = [held EXCEPT ![t] = @ \union {r}]
        <3>1. PICK r \in FreeSListHead : held' = [held EXCEPT ![t] = @ \union {r}] BY <2>1
        <3>2. r \in Records /\ \A v \in Threads : r \notin held[v] BY DEF IInv, TypeOK, Apart
        <3> QED BY <3>1, <3>2
    <2> QED BY <1>1, <2>1 DEF PopCacheListEntry, Retry, PopOr
<1>2. CASE PushCacheListEntry(t) BY <1>2 DEF PushCacheListEntry, IInv, TypeOK
<1>3. CASE KeepRecord(t)
    <2>1. pRecord[t] \in Records /\ \A v \in Threads : pRecord[t] \notin held[v]
        BY <1>3, Filler DEF KeepRecord
    <2> QED BY <1>3, <2>1 DEF KeepRecord
<1>4. CASE \/ CheckLimit(t) \/ SetCommitLockTagBit(t) \/ WaitForCommit(t)
           \/ ResetCommitEvent(t) \/ CommitRegion(t) \/ CommitFails(t)
           \/ PushRecord(t) \/ SetCommitEvent(t) \/ ClearCommitLockTagBit(t)
    BY <1>4 DEF CheckLimit, SetCommitLockTagBit, WaitForCommit, ResetCommitEvent, CommitRegion,
           CommitFails, PushRecord, SetCommitEvent, ClearCommitLockTagBit
<1> QED BY <1>1, <1>2, <1>3, <1>4 DEF Pops

\* To its users the lock-free list of CacheList.cpp, with its regions and the
\* thread that commits them, is the pool of RecordPool: a record is with one user.
THEOREM CacheListImplementsPool == Spec => ImplementsPool
<1>1. Init => Pool!Init BY DEF Init, Pool!Init
<1>2. IInv /\ [Next]_vars => [Pool!Next]_held BY PoolStep DEF Next, vars
<1> QED BY <1>1, <1>2, Invariance, PTL DEF Spec, ImplementsPool, Pool!Spec
=============================================================================
