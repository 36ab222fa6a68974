---------------------------- MODULE FileExtents ----------------------------
(***************************************************************************)
(* What a file looks like on a volume and what a fragment context of the   *)
(* engine, FragEng.Dll/FragCtx.cpp, says of it.  A file maps each of its   *)
(* clusters, numbered from 0, to a cluster of the volume, or to Virtual:   *)
(* a cluster without storage, of a sparse or compressed file.              *)
(***************************************************************************)
EXTENDS Integers, Sequences, FiniteSets

CONSTANT Virtual

ASSUME VirtualAssumption == Virtual \notin Nat

\* A file has a finite number of clusters.
IsFile(f) ==
    LET n == Cardinality(DOMAIN f) IN n \in Nat /\ f \in [0 .. n - 1 -> Nat \union {Virtual}]

Physical(f) == {v \in DOMAIN f : f[v] # Virtual}

\* The i-th smallest element of S.
Nth(S, i) == CHOOSE x \in S : Cardinality({y \in S : y < x}) = i - 1

\* The clusters with storage that do not go on where the last one before them
\* ended: the first clusters of the fragments of the file.
RunStarts(f) ==
    {v \in Physical(f) :
        ~\E u \in Physical(f) : /\ u < v /\ f[v] = f[u] + 1
                               /\ \A w \in u + 1 .. v - 1 : f[w] = Virtual}

Joined(f, v) ==
    IF f[v - 1] = Virtual THEN f[v] = Virtual ELSE f[v] # Virtual /\ f[v] = f[v - 1] + 1

\* FSCTL_GET_RETRIEVAL_POINTERS: the extents of the file in the order of its
\* clusters.  Extents of a compressed file may be split at any place.
ExtentLists(f) ==
    LET n == Cardinality(DOMAIN f)
        list(starts) ==
            [i \in 1 .. Cardinality(starts) |->
                LET next == IF i = Cardinality(starts) THEN n ELSE Nth(starts, i + 1)
                IN  [lcn |-> f[Nth(starts, i)], count |-> next - Nth(starts, i)]]
        needed == {0} \union {v \in 1 .. n - 1 : ~Joined(f, v)}
    IN  IF n = 0 THEN {<<>>}
        ELSE {list(starts) : starts \in {s \in SUBSET (0 .. n - 1) : needed \subseteq s}}

-----------------------------------------------------------------------------
IsCompressionFragment(extent) == extent.lcn = Virtual

\* Extent k goes on where the last one with storage before it ended.
Adjacent(x, k) ==
    /\ ~IsCompressionFragment(x[k])
    /\ \E j \in 1 .. k - 1 :
           /\ ~IsCompressionFragment(x[j]) /\ x[j].lcn + x[j].count = x[k].lcn
           /\ \A i \in j + 1 .. k - 1 : IsCompressionFragment(x[i])

FragmentStarts(x) ==
    {k \in 1 .. Len(x) : ~IsCompressionFragment(x[k]) /\ ~Adjacent(x, k)}

\* The inner loop moves both indices, so it adds an adjacent extent to the one
\* right before it: what is added to any but the first is dropped with it.
FpiCompactFragmentInformation(x) ==
    LET starts == FragmentStarts(x)
    IN  [i \in 1 .. Cardinality(starts) |->
            LET k == Nth(starts, i)
                joins == k < Len(x) /\ Adjacent(x, k + 1)
            IN  [lcn |-> x[k].lcn,
                 extents |-> IF joins THEN 2 ELSE 1,
                 count |-> x[k].count + IF joins THEN x[k + 1].count ELSE 0]]

\* What the context says of a file with these extents; FPF_CTX_RAWEXTENTDATA
\* keeps the extents as they are.
FpiCreateFragCtx(x, raw) ==
    [extentCount |-> Len(x),
     fragments |-> IF raw THEN [i \in 1 .. Len(x) |->
                                   [lcn |-> x[i].lcn, extents |-> 1, count |-> x[i].count]]
                   ELSE FpiCompactFragmentInformation(x)]

\* FpGetContextFragmentInformation: at most n fragments from sequence id i on.
Part(ctx, i, n) ==
    IF i \in DOMAIN ctx.fragments
    THEN SubSeq(ctx.fragments, i,
                IF i + n - 1 < Len(ctx.fragments) THEN i + n - 1 ELSE Len(ctx.fragments))
    ELSE <<>>
=============================================================================
