------------------------------- MODULE Engine -------------------------------
(***************************************************************************)
(* The defragmentation engine, FragEng.Dll: the search of the volume       *)
(* bitmap for a free range (FragEng.cpp) and the loop that moves a file    *)
(* there (FileDefrag.cpp), on a volume that other programs allocate from   *)
(* and free to at any time.                                                *)
(*                                                                         *)
(* A step is what the engine does up to its next call of the system or of  *)
(* its caller.  Clusters of the file are numbered from 0 (VCN), clusters   *)
(* of the volume too (LCN).  A file without clusters fits in its directory *)
(* record.                                                                 *)
(***************************************************************************)
EXTENDS FileExtents

CONSTANTS
    VolumeSizes,        \* the sizes of the volume, in clusters
    Lengths,            \* the lengths of the file, in clusters
    MaxOthers,          \* bound: the clusters in use by others at first
    CountOfBitMap,      \* the clusters that one read of the bitmap covers
    Unit,               \* clusters per byte of the bitmap (8)
    Word,               \* clusters per word of the bitmap (32)
    BlockCounts,        \* iBlockCount: clusters moved at once
    SkipCounts,         \* iSkipCount: clusters left free between two blocks
    CallbackIncrement,  \* iCallbackIncrement: clusters moved between two reports
    MaxAttempts,        \* iAttempts (5)
    MaxChanges          \* bound: the changes other programs make

ASSUME ConstantsAssumption ==
    /\ VolumeSizes \subseteq Nat \ {0} /\ Lengths \subseteq Nat /\ MaxOthers \in Nat
    /\ {CountOfBitMap, Unit, Word} \subseteq Nat \ {0}
    /\ CountOfBitMap % Word = 0 /\ CountOfBitMap % Unit = 0
    /\ BlockCounts \subseteq Nat \ {0} /\ SkipCounts \subseteq Nat
    /\ CallbackIncrement \in Nat \ {0} /\ MaxAttempts \in Nat /\ MaxChanges \in Nat

VARIABLES
    size,           \* the clusters of the volume
    others,         \* the clusters in use by others than the file
    clusters,       \* the file: where each of its clusters is
    changes,        \* how often others have changed the volume
    at,             \* where the engine is
    result,         \* what the last call returned, and the attempts it took
    call,           \* arguments, extent data and totals of FpDefragmentFileEx
    search,         \* the locals of FpiLocateFreeClusterRange
    move            \* the locals of the move loop

volumeVars == <<size, others, changes>>
vars == <<volumeVars, clusters, at, result, call, search, move>>

-----------------------------------------------------------------------------
(* The volume, as the system shows it.                                     *)

Least(a, b) == IF a < b THEN a ELSE b
Used == others \union {clusters[v] : v \in Physical(clusters)}
Free(lcns) == lcns \subseteq 0 .. size - 1 /\ lcns \intersect Used = {}

\* FSCTL_GET_VOLUME_BITMAP: the bits from the byte that has the cluster, as
\* many whole bytes as there are and fit; bits past the volume are set.
GetVolumeBitmap(lcn) ==
    LET start == lcn - (lcn % Unit)
        bytes == (Least(CountOfBitMap, size - start) + Unit - 1) \div Unit
    IN  [start |-> start, size |-> size - start,
         bits |-> [b \in 0 .. bytes * Unit - 1 |-> start + b \in Used \/ start + b >= size]]

RtlAreBitsClear(bits, count, from, length) ==
    length > 0 /\ from + length <= count /\ \A b \in from .. from + length - 1 : ~bits[b]

ClearRuns(bits, count, length) ==
    {b \in 0 .. count - 1 : RtlAreBitsClear(bits, count, b, length)}

-----------------------------------------------------------------------------
(* FragEng.cpp.                                                            *)

\* The size of the map is what is left from its first cluster on: the first
\* cluster is subtracted twice, and a negative difference is a huge one.
FpiCalculateBitMapClusterCount(map) ==
    LET bits == Cardinality(DOMAIN map.bits)
        limit == map.size - map.start
    IN  IF limit < 0 THEN bits ELSE Least(bits, limit)

\* The last bit set in the whole words of the map, or 0.
FpiFindLastClusterInUse(map) ==
    LET count == FpiCalculateBitMapClusterCount(map)
        set == {b \in 0 .. (count \div Word) * Word - 1 : map.bits[b]}
    IN  IF set = {} THEN 0 ELSE CHOOSE b \in set : \A c \in set : c <= b

\* Mutant of NextLcn: the last cluster in use is looked at again.
NextLcnSame(map) == search.lcn + FpiFindLastClusterInUse(map)

\* Where the search goes on when the map has no free range.
NextLcn(map) == search.lcn + FpiFindLastClusterInUse(map) + 1

\* Mutant of LocateTail: the run found starts one cluster early.
LocateTailEarly(map, required) ==
    LET count == FpiCalculateBitMapClusterCount(map)
        adjust == search.lcn - map.start
        runs == {b - 1 : b \in ClearRuns(map.bits, count, required)}
    IN  IF search.multi
        THEN IF RtlAreBitsClear(map.bits, count, adjust, required) THEN 0 ELSE -1
        ELSE IF runs = {} THEN -1 ELSE CHOOSE b \in runs : \A c \in runs : b <= c

\* The offset of the last part of a range in the map, or -1.
LocateTail(map, required) ==
    LET count == FpiCalculateBitMapClusterCount(map)
        adjust == search.lcn - map.start
        runs == ClearRuns(map.bits, count, required)
    IN  IF search.multi
        THEN IF RtlAreBitsClear(map.bits, count, adjust, required) THEN 0 ELSE -1
        ELSE IF runs = {} THEN -1 ELSE CHOOSE b \in runs : \A c \in runs : b <= c

-----------------------------------------------------------------------------
NoCall == [extents |-> <<>>, block |-> 0, skip |-> 0, total |-> 0, remaining |-> 0,
           extra |-> 0, attempts |-> 0]
NoSearch == [lcn |-> 0, blocks |-> 0, multi |-> FALSE, since |-> 0]
NoMove == [vcn |-> 0, lcn |-> 0, index |-> 0, left |-> 0, moved |-> 0, reported |-> 0]

Files(n, lcns) ==
    {f \in [0 .. n - 1 -> lcns \union {Virtual}] :
        \A u, v \in 0 .. n - 1 : u # v /\ f[u] # Virtual => f[u] # f[v]}

Init ==
    /\ size \in VolumeSizes
    /\ \E n \in Lengths : clusters \in Files(n, 0 .. size - 1)
    /\ others \in {s \in SUBSET ((0 .. size - 1) \ {clusters[v] : v \in DOMAIN clusters}) :
                      Cardinality(s) <= MaxOthers}
    /\ changes = 0
    /\ at = "idle" /\ result = [status |-> "none"]
    /\ call = NoCall /\ search = NoSearch /\ move = NoMove

Return(status) ==
    /\ at' = "idle"
    /\ result' = [status |-> status, attempts |-> call.attempts, skip |-> call.skip]
    /\ call' = NoCall /\ search' = NoSearch /\ move' = NoMove

Continue == result' = result

\* FpDefragmentFileEx, up to its first report.
FpDefragmentFileEx ==
    /\ at = "idle"
    /\ \E block \in BlockCounts, skip \in SkipCounts, x \in ExtentLists(clusters) :
           /\ call' = [NoCall EXCEPT !.extents = x, !.block = block, !.skip = skip,
                                     !.total = Cardinality(DOMAIN clusters),
                                     !.remaining = Cardinality(DOMAIN clusters)]
           /\ move' = [NoMove EXCEPT !.index = 1, !.left = IF x = <<>> THEN 0 ELSE x[1].count]
    /\ at' = "begin" /\ result' = [status |-> "none"]
    /\ UNCHANGED <<volumeVars, clusters, search>>

\* The caller returns from the first report; a file without clusters is done.
Begin ==
    /\ at = "begin"
    /\ \/ Return("cancelled")
       \/ call.total = 0 /\ Return("ok")
       \/ call.total > 0 /\ at' = "attempt" /\ Continue /\ UNCHANGED <<call, search, move>>
    /\ UNCHANGED <<volumeVars, clusters>>

Needed(c) == c.remaining + c.extra

\* The next attempt: a search for room for the rest of the file.
NextAttempt ==
    /\ at = "attempt" /\ call.attempts < MaxAttempts
    /\ LET c == [call EXCEPT
                    !.attempts = @ + 1,
                    !.extra = IF call.skip > 0 THEN call.skip * (call.remaining \div call.block)
                              ELSE @]
           blocks == Needed(c) \div CountOfBitMap
       IN  /\ call' = c
           /\ search' = [NoSearch EXCEPT !.blocks = blocks, !.multi = blocks > 0,
                                         !.since = changes]
           /\ at' = IF blocks > 0 THEN "full" ELSE "tail"
    /\ Continue /\ UNCHANGED <<volumeVars, clusters, move>>

GiveUp ==
    /\ at = "attempt" /\ call.attempts = MaxAttempts
    /\ Return("failed")
    /\ UNCHANGED <<volumeVars, clusters>>

\* FSCTL_GET_VOLUME_BITMAP refuses a cluster that is not on the volume.
ReadFails ==
    /\ at \in {"full", "tail"} /\ search.lcn >= size
    /\ Return("error")
    /\ UNCHANGED <<volumeVars, clusters>>

ReadFull ==
    /\ at = "full" /\ search.lcn < size
    /\ LET map == GetVolumeBitmap(search.lcn)
           count == FpiCalculateBitMapClusterCount(map)
       IN  \/ count < CountOfBitMap /\ Return("diskfull")
           \/ /\ count >= CountOfBitMap
              /\ ~RtlAreBitsClear(map.bits, count, search.lcn - map.start, count)
              /\ search' = [search EXCEPT !.blocks = Needed(call) \div CountOfBitMap,
                                     !.lcn = NextLcn(map)]
              /\ Continue /\ UNCHANGED <<at, call, move>>
           \/ /\ count >= CountOfBitMap
              /\ RtlAreBitsClear(map.bits, count, search.lcn - map.start, count)
              /\ search' = [search EXCEPT !.blocks = @ - 1, !.lcn = @ + count]
              /\ at' = IF search.blocks = 1 THEN "tail" ELSE "full"
              /\ Continue /\ UNCHANGED <<call, move>>
    /\ UNCHANGED <<volumeVars, clusters>>

\* A range found starts the move loop at its first cluster.
ReadTail ==
    /\ at = "tail" /\ search.lcn < size
    /\ LET map == GetVolumeBitmap(search.lcn)
           count == FpiCalculateBitMapClusterCount(map)
           required == Needed(call) % CountOfBitMap
           offset == LocateTail(map, required)
       IN  \/ count < required /\ Return("diskfull")
           \/ /\ count >= required /\ offset = -1
              /\ search' = [search EXCEPT !.lcn = NextLcn(map)]
              /\ Continue /\ UNCHANGED <<at, call, move>>
           \/ /\ count >= required /\ offset # -1
              /\ move' = [move EXCEPT !.lcn = search.lcn + offset + required - Needed(call)]
              /\ at' = "move"
              /\ Continue /\ UNCHANGED <<call, search>>
    /\ UNCHANGED <<volumeVars, clusters>>

-----------------------------------------------------------------------------
(* The move loop of FpDefragmentFileEx.                                    *)

\* FSCTL_MOVE_FILE with n clusters: the ones with storage go to the free
\* clusters from lcn on, one after the other.
Moved(vcn, n, lcn) ==
    [v \in DOMAIN clusters |->
        IF v \in vcn .. vcn + n - 1 /\ clusters[v] # Virtual
        THEN lcn + Cardinality({u \in Physical(clusters) : vcn <= u /\ u < v})
        ELSE clusters[v]]

\* Mutant of Passed: the clusters of an extent without storage count as moved.
PassedAll(x, index, left, n) ==
    LET p[i \in 0 .. n] ==
            IF i = 0 THEN [index |-> index, left |-> left, physical |-> 0]
            ELSE LET q == p[i - 1]
                     next == q.left = 1
                 IN  [index |-> IF next THEN q.index + 1 ELSE q.index,
                      left |-> IF ~next THEN q.left - 1
                               ELSE IF q.index < Len(x) THEN x[q.index + 1].count ELSE 0,
                      physical |-> q.physical + 1]
    IN  p[n]

\* Where n clusters from the place in the extent data end, and how many of
\* them have storage.  What is read behind the last extent is not used.
Passed(x, index, left, n) ==
    LET p[i \in 0 .. n] ==
            IF i = 0 THEN [index |-> index, left |-> left, physical |-> 0]
            ELSE LET q == p[i - 1]
                     next == q.left = 1
                 IN  [index |-> IF next THEN q.index + 1 ELSE q.index,
                      left |-> IF ~next THEN q.left - 1
                               ELSE IF q.index < Len(x) THEN x[q.index + 1].count ELSE 0,
                      physical |-> q.physical + IF x[q.index].lcn = Virtual THEN 0 ELSE 1]
    IN  p[n]

\* One block is moved and accounted for; its report may be due.
MoveBlock ==
    /\ at = "move" /\ call.remaining > 0
    /\ LET n == Least(call.block, call.remaining)
           p == Passed(call.extents, move.index, move.left, n)
           to == Moved(move.vcn, n, move.lcn)
           moved == move.moved + p.physical
           due == move.reported + CallbackIncrement <= moved
       IN  /\ Free({to[v] : v \in {u \in Physical(clusters) : u \in move.vcn .. move.vcn + n - 1}})
           /\ clusters' = to
           /\ call' = [call EXCEPT !.remaining = @ - n]
           /\ move' = [move EXCEPT !.vcn = @ + n, !.index = p.index, !.left = p.left,
                                   !.moved = moved,
                                   !.lcn = @ + p.physical + IF due THEN 0 ELSE call.skip]
           /\ at' = IF due THEN "report" ELSE "move"
    /\ Continue /\ UNCHANGED <<volumeVars, search>>

\* Mutant of MoveFails: the block is tried again one cluster further on.
MoveFailsOn ==
    /\ at = "move" /\ call.remaining > 0
    /\ move' = [move EXCEPT !.lcn = Least(@ + 1, size)]
    /\ at' = IF move.lcn < size THEN "move" ELSE "attempt"
    /\ Continue /\ UNCHANGED <<volumeVars, clusters, call, search>>

\* The system refuses the move: a target is taken, or the disk fails.
MoveFails ==
    /\ at = "move" /\ call.remaining > 0
    /\ at' = "attempt"
    /\ Continue /\ UNCHANGED <<volumeVars, clusters, call, search, move>>

\* The caller returns from a report.
Report ==
    /\ at = "report"
    /\ \/ Return("cancelled")
       \/ /\ move' = [move EXCEPT !.reported = move.moved, !.lcn = @ + call.skip]
          /\ at' = "move" /\ Continue /\ UNCHANGED <<call, search>>
    /\ UNCHANGED <<volumeVars, clusters>>

MoveDone ==
    /\ at = "move" /\ call.remaining = 0
    /\ Return("ok")
    /\ UNCHANGED <<volumeVars, clusters>>

\* Another program allocates or frees a cluster; between two calls that is no
\* different from another initial state.
OthersChange ==
    /\ at # "idle" /\ changes < MaxChanges /\ changes' = changes + 1
    /\ \/ \E c \in (0 .. size - 1) \ Used : others' = others \union {c}
       \/ \E c \in others : others' = others \ {c}
    /\ UNCHANGED <<size, clusters, at, result, call, search, move>>

EngineStep ==
    \/ Begin \/ NextAttempt \/ GiveUp \/ ReadFails \/ ReadFull \/ ReadTail
    \/ MoveBlock \/ MoveFails \/ Report \/ MoveDone

Next == FpDefragmentFileEx \/ EngineStep \/ OthersChange

\* A call that has begun goes on; the caller returns from its reports.
Spec == Init /\ [][Next]_vars /\ WF_vars(EngineStep)

-----------------------------------------------------------------------------
ClusterRange(lcn, n) == lcn .. lcn + n - 1
OneRead == size <= CountOfBitMap /\ Needed(call) < CountOfBitMap
Fits == \E lcn \in 0 .. size - 1 : Free(ClusterRange(lcn, Needed(call)))

\* On a volume that one read of the bitmap shows, and that nobody changed while
\* the engine searched, FpiLocateFreeClusterRange gives a free range, and it
\* gives up only when there is none, for any range smaller than the buffer.
SearchExact ==
    [][at = "tail" /\ at' # "tail" /\ search.since = changes /\ OneRead =>
          IF at' = "move" THEN Free(ClusterRange(move'.lcn, Needed(call))) ELSE ~Fits]_vars

\* A file moved without gaps has no more fragments than the attempts it took,
\* whatever its extents were, which of them have storage, and wherever moves
\* failed: FpDefragmentFileEx goes on at the first cluster not moved.
FewFragments ==
    at = "idle" /\ result.status = "ok" /\ result.skip = 0 =>
        Cardinality(RunStarts(clusters)) <= result.attempts

OriginalLcn(v) ==
    LET x == call.extents
        before[i \in 1 .. Len(x) + 1] == IF i = 1 THEN 0 ELSE before[i - 1] + x[i - 1].count
        k == CHOOSE i \in 1 .. Len(x) : before[i] <= v /\ v < before[i + 1]
    IN  IF x[k].lcn = Virtual THEN Virtual ELSE x[k].lcn + v - before[k]

\* The counters of the move loop agree with the file: what is reported as moved
\* are the clusters with storage before the current VCN, and no cluster from
\* there on has been moved, however blocks and extents overlap.
ProgressExact ==
    call.extents # <<>> =>
        /\ move.moved = Cardinality({v \in Physical(clusters) : v < move.vcn})
        /\ move.vcn + call.remaining = call.total
        /\ \A v \in move.vcn .. call.total - 1 : clusters[v] = OriginalLcn(v)

\* A call returns, however often moves fail and others change the volume: the
\* search always advances, and FpDefragmentFileEx gives up in the end.
DefragEnds == at # "idle" ~> at = "idle"
=============================================================================
