--------------------------- MODULE FileFragments ---------------------------
(***************************************************************************)
(* The FileFragments object of CoFrag.Dll/FileFrags.cpp and its            *)
(* enumerators.  OpenFile takes a snapshot of a file, a fragment context   *)
(* of the engine, and swaps it in under the object's lock.  An enumerator  *)
(* keeps the tick count of the open; when the object's is another one it   *)
(* has expired.                                                            *)
(*                                                                         *)
(* An action is what is done under the locks of the object and the         *)
(* enumerator.  The file is a parameter: others change it.                 *)
(***************************************************************************)
EXTENDS FileExtents

CONSTANTS
    Openers,            \* the threads that call OpenFile
    Enums,              \* the enumerators
    MaxOpens,           \* bound: the calls of OpenFile
    MaxTick,            \* bound: the tick count
    ULONG               \* the width of an enumerator's counters (2^32)

ASSUME CountsAssumption ==
    {MaxOpens, MaxTick} \subseteq Nat \ {0} /\ ULONG \in Nat \ {0, 1}

VARIABLES
    clock,              \* GetTickCount
    _dwTick,            \* the tick count of the last OpenFile
    _hFragCtx,          \* its context, or NoCtx
    opening,            \* opening[o]: the context an open has made, or NotOpening
    enums,              \* enums[e]: tick, iterator, count, and the open it is of
    opens               \* the opens so far: tick and context

fragmentsVars == <<clock, _dwTick, _hFragCtx, opening, enums, opens>>

NoCtx == [extentCount |-> 0]
NotOpening == [extentCount |-> -1]
NoEnum == [of |-> 0]

FragmentsInit ==
    /\ clock = 1 /\ _dwTick = 0 /\ _hFragCtx = NoCtx
    /\ opening = [o \in Openers |-> NotOpening]
    /\ enums = [e \in Enums |-> NoEnum]
    /\ opens = <<>>

ClockTicks ==
    /\ clock < MaxTick /\ clock' = clock + 1
    /\ UNCHANGED <<_dwTick, _hFragCtx, opening, enums, opens>>

-----------------------------------------------------------------------------
(* CFileFragments.                                                         *)

Opening == {o \in Openers : opening[o] # NotOpening}

\* What FpCreateContext keeps of file f with extents x.
ContextOf(f, x, raw) ==
    LET ctx == FpiCreateFragCtx(x, raw)
    IN  [extentCount |-> ctx.extentCount, fragments |-> ctx.fragments, file |-> f, raw |-> raw]

\* OpenFile, before its lock: the context of the file as it is now, or none.
FpCreateContext(o, f) ==
    /\ opening[o] = NotOpening /\ Len(opens) + Cardinality(Opening) < MaxOpens
    /\ \E x \in ExtentLists(f), raw \in BOOLEAN :
          opening' \in {[opening EXCEPT ![o] = c] : c \in {NoCtx, ContextOf(f, x, raw)}}
    /\ UNCHANGED <<clock, _dwTick, _hFragCtx, enums, opens>>

\* In the lock: the old context is closed, whether or not there is a new one.
OpenFile(o) ==
    /\ opening[o] # NotOpening
    /\ _dwTick' = clock /\ _hFragCtx' = opening[o]
    /\ opens' = Append(opens, [tick |-> clock, ctx |-> opening[o]])
    /\ opening' = [opening EXCEPT ![o] = NotOpening]
    /\ UNCHANGED <<clock, enums>>

\* get_Item: one fragment is asked for, and that there are more after it counts
\* as a failure.
get_Item(i) == IF _hFragCtx = NoCtx \/ i + 1 < Len(_hFragCtx.fragments) THEN <<>>
               ELSE Part(_hFragCtx, i + 1, 1)

\* Mutant of _IsExpired: an enumerator of an older open goes on.
_IsExpiredLate(tick) == tick > _dwTick

_IsExpired(tick) == tick # _dwTick

-----------------------------------------------------------------------------
(* CEnumFileFragments.                                                     *)

\* An enumerator counts the fragments of the object's context; one that is
\* cloned has its tick and its place from the other.
CreateInstance(e, tick, iter, of) ==
    /\ enums[e] = NoEnum /\ _hFragCtx # NoCtx
    /\ enums' = [enums EXCEPT ![e] =
                    [tick |-> tick, iter |-> iter, elem |-> Len(_hFragCtx.fragments), of |-> of]]
    /\ UNCHANGED <<clock, _dwTick, _hFragCtx, opening, opens>>

get__NewEnum(e) == CreateInstance(e, _dwTick, 0, Len(opens))

Clone(e, other) ==
    /\ enums[other] # NoEnum
    /\ CreateInstance(e, enums[other].tick, enums[other].iter, enums[other].of)

Remaining(e) == (enums[e].elem - enums[e].iter) % ULONG

\* Next gives one item, or fails: after an item there is no other.  (When the
\* object was opened twice within a tick it may ask for one that is not there,
\* and does not return from clearing the item it has.)
EnumNext(e) ==
    /\ enums[e] # NoEnum /\ ~_IsExpired(enums[e].tick) /\ Remaining(e) > 0
    /\ get_Item(enums[e].iter) # <<>>
    /\ enums' = [enums EXCEPT ![e].iter = @ + 1]
    /\ UNCHANGED <<clock, _dwTick, _hFragCtx, opening, opens>>

Skip(e) ==
    /\ enums[e] # NoEnum
    /\ \E celt \in 1 .. 2 :
          enums' = [enums EXCEPT ![e].iter =
                       (@ + IF celt > Remaining(e) THEN Remaining(e) ELSE celt) % ULONG]
    /\ UNCHANGED <<clock, _dwTick, _hFragCtx, opening, opens>>

Reset(e) ==
    /\ enums[e] # NoEnum
    /\ enums' = [enums EXCEPT ![e].iter = 0]
    /\ UNCHANGED <<clock, _dwTick, _hFragCtx, opening, opens>>

ReleaseEnum(e) ==
    /\ enums[e] # NoEnum
    /\ enums' = [enums EXCEPT ![e] = NoEnum]
    /\ UNCHANGED <<clock, _dwTick, _hFragCtx, opening, opens>>

FragmentsNext(f) ==
    \/ ClockTicks
    \/ \E o \in Openers : FpCreateContext(o, f) \/ OpenFile(o)
    \/ \E e \in Enums :
          \/ get__NewEnum(e) \/ EnumNext(e) \/ Skip(e) \/ Reset(e) \/ ReleaseEnum(e)
          \/ \E other \in Enums : Clone(e, other)

-----------------------------------------------------------------------------
\* The tick count tells open n from every other.
Distinguished(n) == \A m \in DOMAIN opens : m # n => opens[m].tick # opens[n].tick

\* The i-th run of clusters that lie side by side on the volume.
IsFragment(item, f, i) ==
    i <= Cardinality(RunStarts(f)) /\ item.lcn = f[Nth(RunStarts(f), i)]

\* The i-th of the items that make up the file: it starts where those before it end.
IsExtent(item, ctx, i) ==
    LET start[k \in 1 .. i] == IF k = 1 THEN 0 ELSE start[k - 1] + ctx.fragments[k - 1].count
    IN  \A v \in start[i] .. start[i] + item.count - 1 :
            ctx.file[v] = IF item.lcn = Virtual THEN Virtual ELSE item.lcn + v - start[i]

\* What an enumerator gives next belongs to the file as it was at the open that
\* the enumerator is of, however often the file was changed and opened since, by
\* whomever, and through clones: fragment i + 1 of it.  Two opens within one
\* tick cannot be told apart.
ItemsExact ==
    \A e \in Enums :
        /\ enums[e] # NoEnum /\ ~_IsExpired(enums[e].tick) /\ Distinguished(enums[e].of)
        /\ Remaining(e) > 0 /\ get_Item(enums[e].iter) # <<>>
        => LET ctx == opens[enums[e].of].ctx
               item == get_Item(enums[e].iter)[1]
           IN  IF ctx.raw THEN IsExtent(item, ctx, enums[e].iter + 1)
               ELSE IsFragment(item, ctx.file, enums[e].iter + 1)
=============================================================================
