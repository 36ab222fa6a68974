--------------------------- MODULE FragmentProofs ---------------------------
(***************************************************************************)
(* Proofs about the fragments of a file: about the engine that moves it    *)
(* (Engine), for any volume, file and parameters of a call, about the      *)
(* objects of CoFrag.Dll on it (CoFrag), for any number of callers,        *)
(* openers and enumerators, and about the page that shows them (PropPage), *)
(* for any number of files, streams and columns.                           *)
(*                                                                         *)
(*   - what extent data and one read of the volume bitmap say, as lemmas   *)
(*   - the engine accounts for every block it moves, leaves no more        *)
(*     fragments than its attempts, and finds a free range if there is one *)
(*   - a cancel is answered; an enumerator that has not expired has the    *)
(*     context of its own open, and gives the fragments of the file as it  *)
(*     was then                                                            *)
(*   - each context of the page is that of one row; a click on a column    *)
(*     sorts it and leaves the headings; only fragments are selected       *)
(*                                                                         *)
(* Spec and vars are the engine's; CoFragSpec and PageSpec are the others. *)
(***************************************************************************)
EXTENDS Engine, CoFrag, PropPage, FiniteSetTheorems, WellFoundedInduction, SequenceTheorems, TLAPS

-----------------------------------------------------------------------------
(* Induction on numbers, by sets.                                          *)

LEMMA LeastNumber ==
    ASSUME NEW S \in SUBSET Nat, S # {}
    PROVE  \E m \in S : \A n \in S : m <= n
<1>1. PICK x \in S : \A y \in S : ~(<<y, x>> \in OpToRel(<, Nat))
    BY NatLessThanWellFounded, WFMin
<1>2. \A y \in S : ~(y < x)
    <2> TAKE y \in S
    <2>1. <<y, x>> \in Nat \X Nat /\ <<y, x>>[1] = y /\ <<y, x>>[2] = x OBVIOUS
    <2> QED BY <1>1, <2>1 DEF OpToRel
<1> QED BY <1>2

LEMMA Induction ==
    ASSUME NEW S, NEW n \in Nat, 0 \in S, \A i \in 0 .. n - 1 : i \in S => i + 1 \in S
    PROVE  0 .. n \subseteq S
<1> SUFFICES ASSUME (0 .. n) \ S # {} PROVE FALSE OBVIOUS
<1>1. (0 .. n) \ S \in SUBSET Nat OBVIOUS
<1>2. PICK m \in (0 .. n) \ S : \A k \in (0 .. n) \ S : m <= k BY <1>1, LeastNumber
<1>3. m # 0 /\ m - 1 \in 0 .. n - 1 /\ m - 1 + 1 = m BY <1>2
<1>4. m - 1 \in S BY <1>2, <1>3
<1> QED BY <1>2, <1>3, <1>4

-----------------------------------------------------------------------------
(* The i-th smallest element.                                              *)

Less(S, x) == {y \in S : y < x}

LEMMA LessIs ==
    ASSUME NEW S \in SUBSET Nat, IsFiniteSet(S), NEW x
    PROVE  /\ Cardinality(S) \in Nat
           /\ IsFiniteSet(Less(S, x)) /\ Cardinality(Less(S, x)) \in Nat
           /\ x \in S => Cardinality(Less(S, x)) < Cardinality(S)
<1>2. Less(S, x) \subseteq S BY DEF Less
<1>3. IsFiniteSet(Less(S, x)) /\ Cardinality(Less(S, x)) <= Cardinality(S) BY <1>2, FS_Subset
<1>4. Cardinality(S) \in Nat /\ Cardinality(Less(S, x)) \in Nat BY <1>3, FS_CardinalityType
<1>5. ASSUME x \in S PROVE Cardinality(Less(S, x)) # Cardinality(S)
    <2>1. x \notin Less(S, x) BY <1>5 DEF Less
    <2> QED BY <1>2, <1>5, <2>1, FS_Subset
<1> QED BY <1>3, <1>4, <1>5

\* The next greater element of S has one more below it.
LEMMA LessNext ==
    ASSUME NEW S \in SUBSET Nat, IsFiniteSet(S), NEW x \in S, NEW y \in S,
           x < y, \A z \in S : ~(x < z /\ z < y)
    PROVE  Cardinality(Less(S, y)) = Cardinality(Less(S, x)) + 1
<1>0. \A z \in S : z \in Int OBVIOUS
<1>1. ASSUME NEW z \in S PROVE z < y <=> z < x \/ z = x
    <2>1. z \in Int /\ x \in Int /\ y \in Int BY <1>0
    <2> QED BY <2>1
<1>2. Less(S, y) = Less(S, x) \union {x} BY <1>1 DEF Less
<1>3. x \notin Less(S, x) BY <1>0 DEF Less
<1> QED BY <1>2, <1>3, LessIs, FS_AddElement

\* Of two elements the greater has more below it.
LEMMA LessOrder ==
    ASSUME NEW S \in SUBSET Nat, IsFiniteSet(S), NEW x \in S, NEW y \in S
    PROVE  x < y <=> Cardinality(Less(S, x)) < Cardinality(Less(S, y))
<1>0. \A z \in S : z \in Int OBVIOUS
<1>1. ASSUME NEW a \in S, NEW b \in S, a < b
      PROVE  Cardinality(Less(S, a)) < Cardinality(Less(S, b))
    <2>1. Less(S, a) \subseteq Less(S, b) /\ a \in Less(S, b) /\ a \notin Less(S, a)
        <3>1. a \in Int /\ b \in Int BY <1>0
        <3>2. \A z \in S : z < a => z < b BY <1>0, <1>1, <3>1
        <3>3. Less(S, a) \subseteq Less(S, b) BY <3>2 DEF Less
        <3>4. a \in Less(S, b) BY <1>1 DEF Less
        <3>5. ~(a < a) BY <3>1
        <3> QED BY <3>3, <3>4, <3>5 DEF Less
    <2>2. /\ Cardinality(Less(S, a)) <= Cardinality(Less(S, b))
          /\ Cardinality(Less(S, a)) # Cardinality(Less(S, b))
        BY <2>1, LessIs, FS_Subset
    <2> QED BY <2>2, LessIs
<1>2. x \in Int /\ y \in Int /\ Cardinality(Less(S, x)) \in Nat /\ Cardinality(Less(S, y)) \in Nat
    BY LessIs
<1>3. x = y \/ x < y \/ y < x BY <1>2
<1> QED BY <1>1, <1>2, <1>3

\* For each number less than that of its elements, S has one with as many below.
LEMMA LessAll ==
    ASSUME NEW S \in SUBSET Nat, IsFiniteSet(S), NEW k \in Nat, k < Cardinality(S)
    PROVE  \E x \in S : Cardinality(Less(S, x)) = k
<1> DEFINE G == {i \in Nat : \E x \in S : Cardinality(Less(S, x)) = i}
           c == Cardinality(S)
<1>0. \A z \in S : z \in Int OBVIOUS
<1>1. c \in Nat /\ S # {} BY FS_CardinalityType, FS_EmptySet
<1>2. 0 \in G
    <2>1. PICK x \in S : \A y \in S : x <= y BY <1>1, LeastNumber
    <2>2. \A y \in S : ~(y < x) BY <1>0, <2>1
    <2>3. Less(S, x) = {} BY <2>2 DEF Less
    <2> QED BY <2>3, FS_EmptySet
<1>3. ASSUME NEW i \in 0 .. (c - 1) - 1, i \in G PROVE i + 1 \in G
    <2>1. PICK x \in S : Cardinality(Less(S, x)) = i BY <1>3
    <2> DEFINE T == {y \in S : x < y}
    <2>2. T # {}
        <3> SUFFICES ASSUME T = {} PROVE FALSE OBVIOUS
        <3>1. \A y \in S : y = x \/ y < x BY <1>0
        <3>2. S = Less(S, x) \union {x} BY <3>1 DEF Less
        <3>3. c = i \/ c = i + 1 BY <2>1, <3>2, LessIs, FS_AddElement
        <3> QED BY <1>1, <3>3
    <2>3. PICK y \in T : \A z \in T : y <= z BY <2>2, LeastNumber
    <2>4. Cardinality(Less(S, y)) = i + 1 BY <2>1, <2>3, LessNext
    <2> QED BY <2>4, <2>3
<1> HIDE DEF G, c
<1>4. 0 .. c - 1 \subseteq G BY <1>1, <1>2, <1>3, Induction DEF c
<1>5. k \in G BY <1>1, <1>4 DEF c
<1> QED BY <1>5 DEF G

LEMMA NthIs ==
    ASSUME NEW S \in SUBSET Nat, IsFiniteSet(S), NEW i \in 1 .. Cardinality(S)
    PROVE  Nth(S, i) \in S /\ Cardinality(Less(S, Nth(S, i))) = i - 1
<1>1. Cardinality(S) \in Nat BY FS_CardinalityType
<1>2. i - 1 \in Nat /\ i - 1 < Cardinality(S) BY <1>1
<1>3. \E x \in S : Cardinality(Less(S, x)) = i - 1 BY <1>2, LessAll
<1> QED BY <1>3 DEF Nth, Less

LEMMA NthUnique ==
    ASSUME NEW S \in SUBSET Nat, IsFiniteSet(S), NEW x \in S
    PROVE  /\ Cardinality(Less(S, x)) + 1 \in 1 .. Cardinality(S)
           /\ Nth(S, Cardinality(Less(S, x)) + 1) = x
<1> DEFINE i == Cardinality(Less(S, x)) + 1
<1>0. \A z \in S : z \in Int OBVIOUS
<1>1. i \in 1 .. Cardinality(S) /\ i - 1 = Cardinality(Less(S, x)) BY LessIs
<1>2. Nth(S, i) \in S /\ Cardinality(Less(S, Nth(S, i))) = Cardinality(Less(S, x)) BY <1>1, NthIs
<1>3. Nth(S, i) = x
    <2> HIDE DEF i
    <2>1. ~(Cardinality(Less(S, x)) < Cardinality(Less(S, x))) BY LessIs
    <2>2. ~(x < Nth(S, i)) /\ ~(Nth(S, i) < x) BY <1>2, <2>1, LessOrder
    <2>3. x \in Int /\ Nth(S, i) \in Int BY <1>0, <1>2
    <2> QED BY <2>2, <2>3
<1> QED BY <1>1, <1>3

\* The first, the order, and that nothing is between one and the next.
LEMMA NthOrder ==
    ASSUME NEW S \in SUBSET Nat, IsFiniteSet(S)
    PROVE  /\ \A i, j \in 1 .. Cardinality(S) : i < j <=> Nth(S, i) < Nth(S, j)
           /\ \A i \in 1 .. Cardinality(S) - 1, x \in S : ~(Nth(S, i) < x /\ x < Nth(S, i + 1))
           /\ \A x \in S : S # {} => Nth(S, 1) <= x /\ x <= Nth(S, Cardinality(S))
<1>0. \A z \in S : z \in Int OBVIOUS
<1>1. Cardinality(S) \in Nat BY FS_CardinalityType
<1>2. ASSUME NEW i \in 1 .. Cardinality(S), NEW j \in 1 .. Cardinality(S)
      PROVE  i < j <=> Nth(S, i) < Nth(S, j)
    <2>1. /\ Nth(S, i) \in S /\ Cardinality(Less(S, Nth(S, i))) = i - 1
          /\ Nth(S, j) \in S /\ Cardinality(Less(S, Nth(S, j))) = j - 1
        BY NthIs
    <2>2. Nth(S, i) < Nth(S, j)
             <=> Cardinality(Less(S, Nth(S, i))) < Cardinality(Less(S, Nth(S, j)))
        BY <2>1, LessOrder
    <2>3. Nth(S, i) < Nth(S, j) <=> i - 1 < j - 1 BY <2>1, <2>2
    <2> QED BY <2>3, <1>1
<1>3. ASSUME NEW x \in S
      PROVE  \E k \in 1 .. Cardinality(S) : Nth(S, k) = x
    BY NthUnique
<1>4. ASSUME NEW i \in 1 .. Cardinality(S) - 1, NEW x \in S
      PROVE  ~(Nth(S, i) < x /\ x < Nth(S, i + 1))
    <2>1. PICK k \in 1 .. Cardinality(S) : Nth(S, k) = x BY <1>3
    <2>2. i \in 1 .. Cardinality(S) /\ i + 1 \in 1 .. Cardinality(S) BY <1>1
    <2>3. Nth(S, i) < x <=> i < k BY <1>2, <2>1, <2>2
    <2>4. x < Nth(S, i + 1) <=> k < i + 1 BY <1>2, <2>1, <2>2
    <2> QED BY <2>2, <2>3, <2>4
<1>5. ASSUME NEW x \in S PROVE Nth(S, 1) <= x /\ x <= Nth(S, Cardinality(S))
    <2>1. PICK k \in 1 .. Cardinality(S) : Nth(S, k) = x BY <1>3
    <2>2. 1 \in 1 .. Cardinality(S) /\ Cardinality(S) \in 1 .. Cardinality(S) BY <1>1, <2>1
    <2>3. Nth(S, 1) \in S /\ Nth(S, Cardinality(S)) \in S BY <2>2, NthIs
    <2>4. ~(k < 1) /\ ~(Cardinality(S) < k) BY <1>1
    <2>5. ~(x < Nth(S, 1)) /\ ~(Nth(S, Cardinality(S)) < x) BY <1>2, <2>1, <2>2, <2>4
    <2>6. x \in Int /\ Nth(S, 1) \in Int /\ Nth(S, Cardinality(S)) \in Int BY <1>0, <2>3
    <2> QED BY <2>5, <2>6
<1> QED BY <1>2, <1>4, <1>5

LEMMA Greatest ==
    ASSUME NEW S \in SUBSET Nat, IsFiniteSet(S), S # {}
    PROVE  \E m \in S : \A k \in S : k <= m
<1>1. Cardinality(S) \in Nat /\ Cardinality(S) # 0 BY FS_CardinalityType, FS_EmptySet
<1>2. Nth(S, Cardinality(S)) \in S BY <1>1, NthIs
<1> QED BY <1>2, NthOrder

\* A one-to-one function from A onto B.
LEMMA SameCardinality ==
    ASSUME NEW A, NEW B, IsFiniteSet(A), NEW g, \A x \in A : g[x] \in B,
           \A x, y \in A : g[x] = g[y] => x = y, \A z \in B : \E x \in A : g[x] = z
    PROVE  IsFiniteSet(B) /\ Cardinality(B) = Cardinality(A)
<1> DEFINE h == [x \in A |-> g[x]]
<1>1. h \in Injection(A, B) BY DEF Injection, IsInjective
<1>2. h \in Surjection(A, B) BY DEF Surjection
<1>3. ExistsBijection(A, B) BY <1>1, <1>2 DEF ExistsBijection, Bijection
<1> QED BY <1>3, FS_Bijection

\* A function that keeps the order takes the i-th element to the i-th.
LEMMA NthImage ==
    ASSUME NEW S \in SUBSET Nat, NEW T \in SUBSET Nat, IsFiniteSet(S), NEW g,
           \A x \in S : g[x] \in T, \A x, y \in S : x < y => g[x] < g[y],
           \A z \in T : \E x \in S : g[x] = z
    PROVE  /\ Cardinality(T) = Cardinality(S)
           /\ \A i \in 1 .. Cardinality(S) : Nth(T, i) = g[Nth(S, i)]
<1>1. \A x \in S : x \in Int /\ g[x] \in Int
    <2>1. \A z \in T : z \in Int OBVIOUS
    <2>2. \A x \in S : g[x] \in Int BY <2>1
    <2> QED BY <2>2
<1>2. \A x, y \in S : g[x] = g[y] => x = y
    <2> TAKE x, y \in S
    <2>1. ~(x < y) => x = y \/ y < x BY <1>1
    <2>2. ~(g[x] < g[x]) BY <1>1
    <2> QED BY <2>1, <2>2
<1>3. IsFiniteSet(T) /\ Cardinality(T) = Cardinality(S) BY <1>2, SameCardinality
<1>4. ASSUME NEW x \in S PROVE Cardinality(Less(T, g[x])) = Cardinality(Less(S, x))
    <2> DEFINE A == Less(S, x)
               B == Less(T, g[x])
    <2>1. A \subseteq S /\ IsFiniteSet(A) BY LessIs DEF Less
    <2>2. \A y \in A : g[y] \in B BY DEF Less
    <2>3. ASSUME NEW z \in B PROVE \E y \in A : g[y] = z
        <3>1. z \in T /\ z < g[x] BY DEF Less
        <3>2. PICK y \in S : g[y] = z BY <3>1
        <3>3. ~(x < y) /\ x # y
            <4>1. g[y] < g[x] /\ ~(g[x] < g[y]) /\ g[x] # g[y] BY <1>1, <3>1, <3>2
            <4> QED BY <4>1
        <3>4. y < x BY <1>1, <3>3
        <3> QED BY <3>2, <3>4 DEF Less
    <2> HIDE DEF A, B
    <2>4. \A y, z \in A : g[y] = g[z] => y = z BY <1>2, <2>1
    <2> QED BY <2>1, <2>2, <2>3, <2>4, SameCardinality DEF A, B
<1>5. ASSUME NEW i \in 1 .. Cardinality(S) PROVE Nth(T, i) = g[Nth(S, i)]
    <2> DEFINE x == Nth(S, i)
    <2>1. x \in S /\ Cardinality(Less(S, x)) = i - 1 BY NthIs
    <2> HIDE DEF x
    <2>2. g[x] \in T /\ Cardinality(Less(T, g[x])) = i - 1 BY <1>4, <2>1
    <2>3. (i - 1) + 1 = i OBVIOUS
    <2>4. Nth(T, (i - 1) + 1) = g[x] BY <1>3, <2>2, NthUnique
    <2> QED BY <2>3, <2>4 DEF x
<1> QED BY <1>3, <1>5

-----------------------------------------------------------------------------
(* The extents of a file.                                                  *)

\* Extent i of x starts at cluster s[i] of a file of n clusters.
Extents(x, s, n) ==
    /\ Len(x) \in Nat \ {0} /\ s \in [1 .. Len(x) + 1 -> Nat]
    /\ s[1] = 0 /\ s[Len(x) + 1] = n
    /\ \A i \in 1 .. Len(x) :
          /\ x[i].lcn \in Nat \union {Virtual} /\ x[i].count \in Nat \ {0}
          /\ s[i + 1] = s[i] + x[i].count

\* Where extent i has cluster v.
In(x, s, i, v) == IF x[i].lcn = Virtual THEN Virtual ELSE x[i].lcn + v - s[i]

Clusters(s, i) == s[i] .. s[i + 1] - 1

Shows(x, s, f) == \A i \in 1 .. Len(x) : \A v \in Clusters(s, i) : f[v] = In(x, s, i, v)

LEMMA StartsGrow ==
    ASSUME NEW x, NEW s, NEW n, Extents(x, s, n),
           NEW i \in 1 .. Len(x) + 1, NEW j \in 1 .. Len(x) + 1, i < j
    PROVE  s[i] < s[j]
<1> DEFINE G == {k \in Nat : i + k + 1 <= Len(x) + 1 => s[i] < s[i + k + 1]}
<1>1. /\ Len(x) \in Nat /\ \A k \in 1 .. Len(x) + 1 : s[k] \in Nat
      /\ \A k \in 1 .. Len(x) : s[k + 1] = s[k] + x[k].count /\ x[k].count \in Nat \ {0}
    BY DEF Extents
<1>2. \A k \in 1 .. Len(x) : s[k] < s[k + 1]
    <2> TAKE k \in 1 .. Len(x)
    <2>1. s[k] \in Nat /\ x[k].count \in Nat \ {0} /\ s[k + 1] = s[k] + x[k].count BY <1>1
    <2> QED BY <2>1
<1>3. 0 \in G
    <2>1. i \in 1 .. Len(x) BY <1>1
    <2> QED BY <1>2, <2>1
<1>4. ASSUME NEW k \in 0 .. Len(x) - 1, k \in G PROVE k + 1 \in G
    <2> SUFFICES ASSUME i + (k + 1) + 1 <= Len(x) + 1 PROVE s[i] < s[i + (k + 1) + 1] OBVIOUS
    <2>1. i + k + 1 \in 1 .. Len(x) /\ i + (k + 1) + 1 = (i + k + 1) + 1 BY <1>1
    <2>2. s[i] < s[i + k + 1] /\ s[i + k + 1] < s[(i + k + 1) + 1] BY <1>2, <1>4, <2>1
    <2>3. s[i] \in Nat /\ s[i + k + 1] \in Nat /\ s[(i + k + 1) + 1] \in Nat BY <1>1, <2>1
    <2> QED BY <2>1, <2>2, <2>3
<1> DEFINE d == j - i - 1
<1>5. d \in 0 .. Len(x) /\ i + d + 1 = j BY <1>1
<1> HIDE DEF G, d
<1>6. d \in G BY <1>1, <1>3, <1>4, <1>5, Induction
<1>7. i + d + 1 <= Len(x) + 1 => s[i] < s[i + d + 1] BY <1>6 DEF G
<1>8. i + d + 1 <= Len(x) + 1 BY <1>1, <1>5
<1> QED BY <1>5, <1>7, <1>8

\* Each cluster of the file is in one extent.
LEMMA OneExtent ==
    ASSUME NEW x, NEW s, NEW n \in Nat, Extents(x, s, n), NEW v \in 0 .. n - 1
    PROVE  \E i \in 1 .. Len(x) : /\ v \in Clusters(s, i)
                                  /\ \A j \in 1 .. Len(x) : v \in Clusters(s, j) => j = i
<1> DEFINE S == {i \in 1 .. Len(x) + 1 : s[i] <= v}
<1>1. /\ Len(x) \in Nat \ {0} /\ \A k \in 1 .. Len(x) + 1 : s[k] \in Nat
      /\ s[1] = 0 /\ s[Len(x) + 1] = n
    BY DEF Extents
<1>2. 1 \in S /\ S \in SUBSET Nat BY <1>1
<1>3. IsFiniteSet(S)
    <2>1. S \in SUBSET (1 .. Len(x) + 1) OBVIOUS
    <2>2. IsFiniteSet(1 .. Len(x) + 1) BY <1>1, FS_Interval
    <2> HIDE DEF S
    <2> QED BY <2>1, <2>2, FS_Subset
<1> HIDE DEF S
<1>4. PICK i \in S : \A j \in S : j <= i BY <1>2, <1>3, Greatest
<1>5. i \in 1 .. Len(x) /\ s[i] <= v /\ i + 1 \in 1 .. Len(x) + 1 BY <1>1, <1>4 DEF S
<1>6. ~(i + 1 <= i) BY <1>5
<1>7. i + 1 \notin S BY <1>4, <1>6
<1>8. v \in Clusters(s, i)
    <2>1. ~(s[i + 1] <= v) BY <1>5, <1>7 DEF S
    <2>2. s[i] \in Nat /\ s[i + 1] \in Nat BY <1>1, <1>5
    <2> QED BY <1>5, <2>1, <2>2 DEF Clusters
<1>9. ASSUME NEW j \in 1 .. Len(x), v \in Clusters(s, j) PROVE j = i
    <2>0. s[i] \in Nat /\ s[i + 1] \in Nat /\ s[j] \in Nat /\ s[j + 1] \in Nat BY <1>1, <1>5
    <2>1. ~(s[i + 1] <= s[j]) /\ ~(s[j + 1] <= s[i]) BY <1>8, <1>9, <2>0 DEF Clusters
    <2>2. ~(i + 1 < j) /\ i + 1 # j
        <3>1. i + 1 < j => s[i + 1] < s[j] BY <1>1, <1>5, StartsGrow
        <3> QED BY <2>0, <2>1, <3>1
    <2>3. ~(j + 1 < i) /\ j + 1 # i
        <3>1. j + 1 < i => s[j + 1] < s[i] BY <1>1, <1>5, StartsGrow
        <3> QED BY <2>0, <2>1, <3>1
    <2> QED BY <1>5, <2>2, <2>3
<1> QED BY <1>5, <1>8, <1>9

\* The places that add up the counts are those of the extents.
LEMMA BeforeIs ==
    ASSUME NEW x, NEW s, NEW n, Extents(x, s, n),
           NEW b, b = [i \in 1 .. Len(x) + 1 |-> IF i = 1 THEN 0 ELSE b[i - 1] + x[i - 1].count]
    PROVE  b = s
<1> DEFINE G == {k \in Nat : k + 1 <= Len(x) + 1 => b[k + 1] = s[k + 1]}
<1>1. /\ Len(x) \in Nat /\ s \in [1 .. Len(x) + 1 -> Nat] /\ s[1] = 0
      /\ \A k \in 1 .. Len(x) : s[k + 1] = s[k] + x[k].count
    BY DEF Extents
<1>2. \A i \in 1 .. Len(x) + 1 : b[i] = IF i = 1 THEN 0 ELSE b[i - 1] + x[i - 1].count
    OBVIOUS
<1>3. 0 \in G
    <2>1. 1 \in 1 .. Len(x) + 1 BY <1>1
    <2> QED BY <1>1, <1>2, <2>1
<1>4. ASSUME NEW k \in 0 .. Len(x) - 1, k \in G PROVE k + 1 \in G
    <2>1. k + 1 \in 1 .. Len(x) /\ (k + 1) + 1 \in 1 .. Len(x) + 1 /\ (k + 1) + 1 # 1
          /\ (k + 1) + 1 - 1 = k + 1 BY <1>1
    <2>2. b[(k + 1) + 1] = b[k + 1] + x[k + 1].count BY <1>2, <2>1
    <2>3. b[k + 1] = s[k + 1] BY <1>4, <2>1
    <2>4. s[(k + 1) + 1] = s[k + 1] + x[k + 1].count BY <1>1, <2>1
    <2> QED BY <2>2, <2>3, <2>4
<1> HIDE DEF G
<1>5. 0 .. Len(x) \subseteq G BY <1>1, <1>3, <1>4, Induction
<1>6. ASSUME NEW i \in 1 .. Len(x) + 1 PROVE b[i] = s[i]
    <2>1. i - 1 \in 0 .. Len(x) /\ (i - 1) + 1 = i BY <1>1
    <2>2. i - 1 \in G BY <1>5, <2>1
    <2> QED BY <2>1, <2>2 DEF G
<1>7. DOMAIN b = 1 .. Len(x) + 1 /\ DOMAIN s = 1 .. Len(x) + 1 BY <1>1
<1>8. b = [i \in 1 .. Len(x) + 1 |-> s[i]] 
    <2>1. b = [i \in 1 .. Len(x) + 1 |-> b[i]] OBVIOUS
    <2> QED BY <1>6, <2>1
<1> QED BY <1>1, <1>8

LEMMA PlacesIn ==
    ASSUME NEW x, NEW s, NEW n, Extents(x, s, n)
    PROVE  (CHOOSE b : b = [i \in 1 .. Len(x) + 1 |->
                               IF i = 1 THEN 0 ELSE b[i - 1] + x[i - 1].count]) = s
<1>1. s = [i \in 1 .. Len(x) + 1 |-> IF i = 1 THEN 0 ELSE s[i - 1] + x[i - 1].count]
    <2>1. /\ Len(x) \in Nat /\ s \in [1 .. Len(x) + 1 -> Nat] /\ s[1] = 0
          /\ \A k \in 1 .. Len(x) : s[k + 1] = s[k] + x[k].count
        BY DEF Extents
    <2>2. ASSUME NEW i \in 1 .. Len(x) + 1
          PROVE  s[i] = IF i = 1 THEN 0 ELSE s[i - 1] + x[i - 1].count
        <3>1. i # 1 => i - 1 \in 1 .. Len(x) /\ (i - 1) + 1 = i BY <2>1
        <3> QED BY <2>1, <3>1
    <2>3. s = [i \in 1 .. Len(x) + 1 |-> s[i]] BY <2>1
    <2> QED BY <2>2, <2>3
<1> QED BY <1>1, BeforeIs

LEMMA OriginalIs ==
    ASSUME NEW s, NEW n \in Nat, Extents(call.extents, s, n),
           NEW i \in 1 .. Len(call.extents), NEW v \in Clusters(s, i)
    PROVE  OriginalLcn(v) = In(call.extents, s, i, v)
<1> DEFINE x == call.extents
           before == CHOOSE b : b = [j \in 1 .. Len(x) + 1 |->
                                        IF j = 1 THEN 0 ELSE b[j - 1] + x[j - 1].count]
           k == CHOOSE j \in 1 .. Len(x) : before[j] <= v /\ v < before[j + 1]
<1>1. OriginalLcn(v) = IF x[k].lcn = Virtual THEN Virtual ELSE x[k].lcn + v - before[k]
    BY DEF OriginalLcn
<1> HIDE DEF x
<1>2. before = s BY PlacesIn DEF x
<1> HIDE DEF before
<1>3. /\ Len(x) \in Nat /\ \A j \in 1 .. Len(x) + 1 : s[j] \in Nat /\ s[Len(x) + 1] = n /\ s[1] = 0
    BY DEF Extents, x
<1>4. /\ i \in 1 .. Len(x) /\ s[i] \in Nat /\ s[i + 1] \in Nat
    BY <1>3 DEF x
<1>5. v \in Int /\ s[i] <= v /\ v < s[i + 1] BY <1>4 DEF Clusters
<1>6. v \in 0 .. n - 1
    <2>1. i + 1 = Len(x) + 1 \/ s[i + 1] < s[Len(x) + 1] BY <1>3, <1>4, StartsGrow DEF x
    <2> QED BY <1>3, <1>4, <1>5, <2>1
<1>7. k \in 1 .. Len(x) /\ s[k] <= v /\ v < s[k + 1] BY <1>2, <1>4, <1>5
<1> HIDE DEF k
<1>8. s[k] \in Nat /\ s[k + 1] \in Nat BY <1>3, <1>7
<1>9. v \in Clusters(s, k) BY <1>5, <1>7, <1>8 DEF Clusters
<1>10. k = i
    <2>1. PICK j \in 1 .. Len(x) : \A l \in 1 .. Len(x) : v \in Clusters(s, l) => l = j
        BY <1>6, OneExtent DEF x
    <2> QED BY <1>4, <1>7, <1>9, <2>1
<1> QED BY <1>1, <1>2, <1>10 DEF In, x

\* Clusters that are joined go on like the first one.
LEMMA JoinedOn ==
    ASSUME NEW n \in Nat, NEW f \in [0 .. n - 1 -> Nat \union {Virtual}],
           NEW a \in 0 .. n - 1, NEW b \in 0 .. n,
           \A w \in a + 1 .. b - 1 : Joined(f, w), NEW v \in a .. b - 1
    PROVE  f[v] = IF f[a] = Virtual THEN Virtual ELSE f[a] + v - a
<1> DEFINE G == {k \in Nat : f[a + k] = IF f[a] = Virtual THEN Virtual ELSE f[a] + k}
           m == b - 1 - a
<1>1. m \in Nat /\ v - a \in 0 .. m /\ a + (v - a) = v OBVIOUS
<1>2. 0 \in G
    <2>1. a + 0 = a /\ f[a] \in Nat \union {Virtual} OBVIOUS
    <2>2. f[a] # Virtual => f[a] + 0 = f[a] BY <2>1
    <2> QED BY <2>1, <2>2
<1>3. ASSUME NEW k \in 0 .. m - 1, k \in G PROVE k + 1 \in G
    <2> SUFFICES f[a + (k + 1)] = IF f[a] = Virtual THEN Virtual ELSE f[a] + (k + 1) OBVIOUS
    <2>1. f[a + k] = IF f[a] = Virtual THEN Virtual ELSE f[a] + k BY <1>3
    <2> DEFINE w == a + (k + 1)
    <2>2. w \in a + 1 .. b - 1 /\ w - 1 = a + k /\ w \in 0 .. n - 1 OBVIOUS
    <2> HIDE DEF w
    <2>3. Joined(f, w) BY <2>2
    <2>4. f[a] \in Nat \union {Virtual} OBVIOUS
    <2>5. CASE f[a] = Virtual BY <2>1, <2>2, <2>3, <2>5 DEF Joined, w
    <2>6. CASE f[a] # Virtual
        <3>1. f[a] + k \in Nat BY <2>4, <2>6
        <3>2. f[w - 1] = f[a] + k /\ f[w - 1] # Virtual
            BY <2>1, <2>2, <2>6, <3>1, VirtualAssumption
        <3>3. f[w] = f[a] + k + 1 BY <2>3, <3>2 DEF Joined
        <3>4. f[a] + k + 1 = f[a] + (k + 1) BY <2>4, <2>6
        <3> QED BY <2>6, <3>3, <3>4 DEF w
    <2> QED BY <2>5, <2>6
<1> HIDE DEF G, m
<1>4. v - a \in G BY <1>1, <1>2, <1>3, Induction
<1>5. f[a] \in Nat \union {Virtual} OBVIOUS
<1>6. f[a] # Virtual => f[a] + (v - a) = f[a] + v - a BY <1>5
<1> QED BY <1>1, <1>4, <1>6 DEF G

\* A list of extents that begins one wherever clusters are not joined.
ListOf(f, n, S) ==
    [i \in 1 .. Cardinality(S) |->
        LET next == IF i = Cardinality(S) THEN n ELSE Nth(S, i + 1)
        IN  [lcn |-> f[Nth(S, i)], count |-> next - Nth(S, i)]]

\* Where each of its extents starts.
StartsOf(n, S) ==
    [i \in 1 .. Cardinality(S) + 1 |-> IF i = Cardinality(S) + 1 THEN n ELSE Nth(S, i)]

LEMMA StartsOfIs ==
    ASSUME NEW n \in Nat \ {0}, NEW S \in SUBSET (0 .. n - 1), 0 \in S,
           NEW s, s = StartsOf(n, S), NEW c, c = Cardinality(S)
    PROVE  /\ c \in Nat \ {0} /\ s \in [1 .. c + 1 -> Nat] /\ s[1] = 0 /\ s[c + 1] = n
           /\ \A i \in 1 .. c : /\ s[i] = Nth(S, i) /\ s[i] \in 0 .. n - 1
                                /\ s[i + 1] = IF i = c THEN n ELSE Nth(S, i + 1)
                                /\ s[i] < s[i + 1] /\ s[i + 1] <= n
                                /\ \A v \in S : ~(s[i] < v /\ v < s[i + 1])
<1>1. /\ S \in SUBSET Nat /\ IsFiniteSet(S) /\ \A v \in S : v \in 0 .. n - 1
    <2>1. IsFiniteSet(0 .. n - 1) BY FS_Interval
    <2>2. IsFiniteSet(S) BY <2>1, FS_Subset
    <2> QED BY <2>2
<1>2. c \in Nat \ {0}
    <2>1. c \in Nat /\ c # 0 BY <1>1, FS_CardinalityType, FS_EmptySet
    <2> QED BY <2>1
<1>3. \A i \in 1 .. c : Nth(S, i) \in S
    <2>1. \A i \in 1 .. Cardinality(S) : Nth(S, i) \in S BY <1>1, NthIs
    <2> QED BY <2>1
<1>4. DOMAIN s = 1 .. c + 1 /\ \A i \in 1 .. c + 1 : s[i] = IF i = c + 1 THEN n ELSE Nth(S, i)
    BY DEF StartsOf
<1>5. s[c + 1] = n BY <1>2, <1>4
<1>6. ASSUME NEW i \in 1 .. c
      PROVE  /\ s[i] = Nth(S, i) /\ s[i] \in 0 .. n - 1
             /\ s[i + 1] = IF i = c THEN n ELSE Nth(S, i + 1)
    <2>1. i \in 1 .. c + 1 /\ i # c + 1 /\ i + 1 \in 1 .. c + 1 /\ (i + 1 = c + 1 <=> i = c)
        BY <1>2
    <2>2. s[i] = Nth(S, i) /\ s[i + 1] = IF i = c THEN n ELSE Nth(S, i + 1) BY <1>4, <2>1
    <2> QED BY <1>1, <1>3, <2>2
<1>7. s \in [1 .. c + 1 -> Nat]
    <2>1. \A i \in 1 .. c + 1 : s[i] \in Nat
        <3> TAKE i \in 1 .. c + 1
        <3>1. i = c + 1 \/ i \in 1 .. c BY <1>2
        <3> QED BY <1>5, <1>6, <3>1
    <2>2. s = [i \in 1 .. c + 1 |-> s[i]] BY <1>4 DEF StartsOf
    <2> QED BY <2>1, <2>2
<1>8. s[1] = 0
    <2>1. 1 \in 1 .. c BY <1>2
    <2>2. Nth(S, 1) <= 0
        <3>1. \A x \in S : S # {} => Nth(S, 1) <= x BY <1>1, NthOrder
        <3> QED BY <3>1
    <2>3. s[1] = Nth(S, 1) /\ s[1] \in 0 .. n - 1 BY <1>6, <2>1
    <2> QED BY <2>2, <2>3
<1>9. ASSUME NEW i \in 1 .. c
      PROVE  s[i] < s[i + 1] /\ s[i + 1] <= n /\ \A v \in S : ~(s[i] < v /\ v < s[i + 1])
    <2>1. CASE i = c
        <3>1. s[i + 1] = n /\ s[i] = Nth(S, i) /\ s[i] \in 0 .. n - 1 BY <1>6, <2>1
        <3>2. \A v \in S : v <= s[i]
            <4>1. \A v \in S : S # {} => v <= Nth(S, Cardinality(S)) BY <1>1, NthOrder
            <4> QED BY <2>1, <3>1, <4>1
        <3>3. \A v \in S : v \in Nat BY <1>1
        <3> QED BY <3>1, <3>2, <3>3
    <2>2. CASE i # c
        <3>1. i \in 1 .. Cardinality(S) - 1 /\ i + 1 \in 1 .. Cardinality(S)
              /\ i \in 1 .. Cardinality(S) /\ i < i + 1
            BY <1>2, <2>2
        <3>2. s[i] = Nth(S, i) /\ s[i + 1] = Nth(S, i + 1) BY <1>6, <2>2
        <3>3. Nth(S, i) < Nth(S, i + 1)
            <4>1. \A k, j \in 1 .. Cardinality(S) : k < j <=> Nth(S, k) < Nth(S, j)
                BY <1>1, NthOrder
            <4> QED BY <3>1, <4>1
        <3>4. \A v \in S : ~(Nth(S, i) < v /\ v < Nth(S, i + 1))
            <4>1. \A k \in 1 .. Cardinality(S) - 1, v \in S : ~(Nth(S, k) < v /\ v < Nth(S, k + 1))
                BY <1>1, NthOrder
            <4> QED BY <3>1, <4>1
        <3>5. s[i + 1] \in 0 .. n - 1 BY <1>6, <3>1
        <3> QED BY <3>2, <3>3, <3>4, <3>5
    <2> QED BY <2>1, <2>2
<1> QED BY <1>2, <1>5, <1>6, <1>7, <1>8, <1>9

\* What the system returns for a file shows the file.
LEMMA ListShows ==
    ASSUME NEW n \in Nat \ {0}, NEW f \in [0 .. n - 1 -> Nat \union {Virtual}],
           NEW x \in ExtentLists(f)
    PROVE  \E s : Extents(x, s, n) /\ Shows(x, s, f)
<1>1. Cardinality(DOMAIN f) = n
    <2>1. DOMAIN f = 0 .. n - 1 OBVIOUS
    <2>2. Cardinality(0 .. n - 1) = n BY FS_Interval
    <2> QED BY <2>1, <2>2
<1>2. \E S \in SUBSET (0 .. n - 1) :
          /\ {0} \union {v \in 1 .. n - 1 : ~Joined(f, v)} \subseteq S
          /\ x = ListOf(f, n, S)
    BY <1>1 DEF ExtentLists, ListOf
<1>3. PICK S \in SUBSET (0 .. n - 1) :
          /\ 0 \in S /\ \A v \in 1 .. n - 1 : v \notin S => Joined(f, v)
          /\ x = ListOf(f, n, S)
    BY <1>2
<1> DEFINE c == Cardinality(S)
           s == StartsOf(n, S)
<1> HIDE DEF c, s
<1>4. /\ c \in Nat \ {0} /\ s \in [1 .. c + 1 -> Nat] /\ s[1] = 0 /\ s[c + 1] = n
      /\ \A i \in 1 .. c : /\ s[i] = Nth(S, i) /\ s[i] \in 0 .. n - 1
                           /\ s[i + 1] = IF i = c THEN n ELSE Nth(S, i + 1)
                           /\ s[i] < s[i + 1] /\ s[i + 1] <= n
                           /\ \A v \in S : ~(s[i] < v /\ v < s[i + 1])
    BY <1>3, StartsOfIs DEF c, s
<1>5. Len(x) = c /\ \A i \in 1 .. c : x[i] = [lcn |-> f[s[i]], count |-> s[i + 1] - s[i]]
    <2>1. x = [i \in 1 .. c |-> LET next == IF i = c THEN n ELSE Nth(S, i + 1)
                                IN  [lcn |-> f[Nth(S, i)], count |-> next - Nth(S, i)]]
        BY <1>3 DEF ListOf, c
    <2>2. Len(x) = c BY <1>4, <2>1
    <2>3. ASSUME NEW i \in 1 .. c PROVE x[i] = [lcn |-> f[s[i]], count |-> s[i + 1] - s[i]]
        <3>1. s[i] = Nth(S, i) /\ s[i + 1] = IF i = c THEN n ELSE Nth(S, i + 1) BY <1>4
        <3> QED BY <2>1, <3>1
    <2> QED BY <2>2, <2>3
<1>6. ASSUME NEW i \in 1 .. c
      PROVE  /\ x[i].lcn = f[s[i]] /\ x[i].lcn \in Nat \union {Virtual}
             /\ x[i].count \in Nat \ {0} /\ s[i + 1] = s[i] + x[i].count
    <2>1. x[i].lcn = f[s[i]] /\ x[i].count = s[i + 1] - s[i] BY <1>5
    <2>2. s[i] \in 0 .. n - 1 /\ s[i] < s[i + 1] BY <1>4
    <2>3. i + 1 \in 1 .. c + 1 BY <1>4
    <2>4. s[i + 1] \in Nat BY <1>4, <2>3
    <2>5. f[s[i]] \in Nat \union {Virtual} BY <2>2
    <2> QED BY <2>1, <2>2, <2>4, <2>5
<1>7. Extents(x, s, n) BY <1>4, <1>5, <1>6 DEF Extents
<1>8. ASSUME NEW i \in 1 .. c, NEW v \in Clusters(s, i) PROVE f[v] = In(x, s, i, v)
    <2>1. i + 1 \in 1 .. c + 1 BY <1>4
    <2>2. s[i + 1] \in 0 .. n /\ s[i] \in 0 .. n - 1 /\ s[i] < s[i + 1]
          /\ \A w \in S : ~(s[i] < w /\ w < s[i + 1]) BY <1>4, <2>1
    <2>3. \A w \in s[i] + 1 .. s[i + 1] - 1 : Joined(f, w)
        <3> TAKE w \in s[i] + 1 .. s[i + 1] - 1
        <3>1. w \in 1 .. n - 1 /\ s[i] < w /\ w < s[i + 1] BY <2>2
        <3> QED BY <1>3, <2>2, <3>1
    <2>4. v \in s[i] .. s[i + 1] - 1 BY DEF Clusters
    <2>5. f[v] = IF f[s[i]] = Virtual THEN Virtual ELSE f[s[i]] + v - s[i]
        <3> DEFINE a == s[i]
                   b == s[i + 1]
        <3> HIDE DEF a, b
        <3>1. n \in Nat /\ a \in 0 .. n - 1 /\ b \in 0 .. n /\ v \in a .. b - 1 BY <2>2, <2>4 DEF a, b
        <3>2. \A w \in a + 1 .. b - 1 : Joined(f, w) BY <2>3 DEF a, b
        <3>3. f[v] = IF f[a] = Virtual THEN Virtual ELSE f[a] + v - a BY <3>1, <3>2, JoinedOn
        <3> QED BY <3>3 DEF a
    <2> QED BY <1>6, <2>5 DEF In
<1> QED BY <1>5, <1>7, <1>8 DEF Shows

-----------------------------------------------------------------------------
(* Clusters with storage, and the walk through the extents.                *)

\* The clusters with storage from a to before b.
Stored(f, a, b) == {v \in a .. b - 1 : f[v] # Virtual}

LEMMA StoredFinite ==
    ASSUME NEW f, NEW a \in Int, NEW b \in Int
    PROVE  /\ IsFiniteSet(Stored(f, a, b)) /\ Cardinality(Stored(f, a, b)) \in Nat
           /\ Cardinality(Stored(f, a, b)) = 0 <=> Stored(f, a, b) = {}
           /\ b <= a => Stored(f, a, b) = {}
<1>1. IsFiniteSet(a .. b - 1) BY FS_Interval
<1>2. Stored(f, a, b) \subseteq a .. b - 1 BY DEF Stored
<1>3. IsFiniteSet(Stored(f, a, b)) BY <1>1, <1>2, FS_Subset
<1>4. b <= a => Stored(f, a, b) = {} BY <1>2
<1> QED BY <1>3, <1>4, FS_CardinalityType, FS_EmptySet

LEMMA StoredSame ==
    ASSUME NEW f, NEW g, NEW a, NEW b, \A v \in a .. b - 1 : g[v] # Virtual <=> f[v] # Virtual
    PROVE  Stored(g, a, b) = Stored(f, a, b)
BY DEF Stored

LEMMA StoredNext ==
    ASSUME NEW f, NEW a \in Int, NEW b \in Int, a <= b
    PROVE  Cardinality(Stored(f, a, b + 1))
               = Cardinality(Stored(f, a, b)) + IF f[b] = Virtual THEN 0 ELSE 1
<1>1. \A v : v \in a .. (b + 1) - 1 <=> v \in a .. b - 1 \/ v = b OBVIOUS
<1>2. b \notin Stored(f, a, b) BY DEF Stored
<1>3. CASE f[b] = Virtual
    <2>1. Stored(f, a, b + 1) = Stored(f, a, b) BY <1>1, <1>3 DEF Stored
    <2> QED BY <1>3, <2>1, StoredFinite
<1>4. CASE f[b] # Virtual
    <2>1. Stored(f, a, b + 1) = Stored(f, a, b) \union {b} BY <1>1, <1>4 DEF Stored
    <2> QED BY <1>2, <1>4, <2>1, StoredFinite, FS_AddElement
<1> QED BY <1>3, <1>4

LEMMA StoredSum ==
    ASSUME NEW f, NEW a \in Int, NEW b \in Int, NEW c \in Int, a <= b, b <= c
    PROVE  Cardinality(Stored(f, a, c))
               = Cardinality(Stored(f, a, b)) + Cardinality(Stored(f, b, c))
<1>1. \A v : v \in a .. c - 1 <=> v \in a .. b - 1 \/ v \in b .. c - 1 OBVIOUS
<1>2. \A v : ~(v \in a .. b - 1 /\ v \in b .. c - 1) OBVIOUS
<1>3. Stored(f, a, c) = Stored(f, a, b) \union Stored(f, b, c) BY <1>1 DEF Stored
<1>4. Stored(f, a, b) \intersect Stored(f, b, c) = {} BY <1>2 DEF Stored
<1>5. Cardinality(Stored(f, a, b) \intersect Stored(f, b, c)) = 0 BY <1>4, FS_EmptySet
<1>6. /\ IsFiniteSet(Stored(f, a, b)) /\ Cardinality(Stored(f, a, b)) \in Nat
      /\ IsFiniteSet(Stored(f, b, c)) /\ Cardinality(Stored(f, b, c)) \in Nat
    BY StoredFinite
<1>7. Cardinality(Stored(f, a, b) \union Stored(f, b, c))
         = Cardinality(Stored(f, a, b)) + Cardinality(Stored(f, b, c))
           - Cardinality(Stored(f, a, b) \intersect Stored(f, b, c))
    BY <1>6, FS_Union
<1> QED BY <1>3, <1>5, <1>6, <1>7

\* A place in the extents: the extent with cluster v and what is left of it
\* from there on.
PlaceAt(x, s, n, v, index, left) ==
    \/ /\ index \in 1 .. Len(x) /\ s[index] <= v /\ v < s[index + 1]
       /\ left = s[index + 1] - v
    \/ v = n /\ index = Len(x) + 1 /\ left = 0

PlaceIndex(x, index, left) == IF left = 1 THEN index + 1 ELSE index
PlaceLeft(x, index, left) ==
    IF left # 1 THEN left - 1 ELSE IF index < Len(x) THEN x[index + 1].count ELSE 0

LEMMA ExtentType ==
    ASSUME NEW x, NEW s, NEW n, Extents(x, s, n)
    PROVE  /\ Len(x) \in Nat \ {0} /\ n \in Nat /\ \A i \in 1 .. Len(x) + 1 : s[i] \in Nat
           /\ s[1] = 0 /\ s[Len(x) + 1] = n
           /\ \A i \in 1 .. Len(x) : /\ s[i] \in Nat /\ s[i + 1] \in Nat /\ s[i] < s[i + 1]
                                     /\ s[i + 1] = s[i] + x[i].count /\ x[i].count \in Nat \ {0}
                                     /\ x[i].lcn \in Nat \union {Virtual}
<1>1. /\ Len(x) \in Nat \ {0} /\ \A i \in 1 .. Len(x) + 1 : s[i] \in Nat
      /\ s[1] = 0 /\ s[Len(x) + 1] = n
      /\ \A i \in 1 .. Len(x) :
            /\ x[i].lcn \in Nat \union {Virtual} /\ x[i].count \in Nat \ {0}
            /\ s[i + 1] = s[i] + x[i].count
    BY DEF Extents
<1>2. ASSUME NEW i \in 1 .. Len(x) PROVE s[i] \in Nat /\ s[i + 1] \in Nat /\ s[i] < s[i + 1]
    <2>1. i \in 1 .. Len(x) + 1 /\ i + 1 \in 1 .. Len(x) + 1 BY <1>1
    <2>2. s[i] \in Nat /\ s[i + 1] \in Nat /\ x[i].count \in Nat \ {0} BY <1>1, <2>1
    <2> QED BY <1>1, <2>2
<1>3. n \in Nat
    <2>1. Len(x) + 1 \in 1 .. Len(x) + 1 BY <1>1
    <2> QED BY <1>1, <2>1
<1> QED BY <1>1, <1>2, <1>3

\* Every cluster has one place.
LEMMA OnePlace ==
    ASSUME NEW x, NEW s, NEW n \in Nat, Extents(x, s, n), NEW v \in 0 .. n
    PROVE  /\ \E i, l : PlaceAt(x, s, n, v, i, l)
           /\ \A i, l, j, k : PlaceAt(x, s, n, v, i, l) /\ PlaceAt(x, s, n, v, j, k)
                                => i = j /\ l = k
<1>1. CASE v = n
    <2>1. PlaceAt(x, s, n, v, Len(x) + 1, 0) BY <1>1 DEF PlaceAt
    <2>2. ASSUME NEW i \in 1 .. Len(x) PROVE ~(v < s[i + 1])
        <3>1. i + 1 \in 1 .. Len(x) + 1 /\ Len(x) + 1 \in 1 .. Len(x) + 1
              /\ (i + 1 = Len(x) + 1 \/ i + 1 < Len(x) + 1) /\ s[i + 1] \in Nat
            BY ExtentType
        <3>2. s[i + 1] = n \/ s[i + 1] < n BY <3>1, ExtentType, StartsGrow
        <3> QED BY <1>1, <3>1, <3>2
    <2> QED BY <2>1, <2>2 DEF PlaceAt
<1>2. CASE v # n
    <2>1. v \in 0 .. n - 1 BY <1>2
    <2>2. PICK i \in 1 .. Len(x) : /\ v \in Clusters(s, i)
                                   /\ \A j \in 1 .. Len(x) : v \in Clusters(s, j) => j = i
        BY <2>1, OneExtent
    <2>3. s[i] <= v /\ v < s[i + 1]
        <3>1. s[i] \in Nat /\ s[i + 1] \in Nat BY ExtentType
        <3> QED BY <2>2, <3>1 DEF Clusters
    <2>4. PlaceAt(x, s, n, v, i, s[i + 1] - v) BY <2>3 DEF PlaceAt
    <2>5. ASSUME NEW j, NEW l, PlaceAt(x, s, n, v, j, l) PROVE j = i /\ l = s[i + 1] - v
        <3>1. j \in 1 .. Len(x) /\ s[j] <= v /\ v < s[j + 1] /\ l = s[j + 1] - v
            BY <1>2, <2>5 DEF PlaceAt
        <3>2. s[j] \in Nat /\ s[j + 1] \in Nat BY <3>1, ExtentType
        <3>3. v \in Clusters(s, j) BY <3>1, <3>2 DEF Clusters
        <3> QED BY <2>2, <3>1, <3>3
    <2> QED BY <2>4, <2>5
<1> QED BY <1>1, <1>2

\* What one cluster further does to the place.
LEMMA PlaceNext ==
    ASSUME NEW x, NEW s, NEW n \in Nat, Extents(x, s, n), NEW v \in 0 .. n - 1,
           NEW i, NEW l, PlaceAt(x, s, n, v, i, l)
    PROVE  /\ PlaceAt(x, s, n, v + 1, PlaceIndex(x, i, l), PlaceLeft(x, i, l))
           /\ i \in 1 .. Len(x) /\ v \in Clusters(s, i)
<1>1. i \in 1 .. Len(x) /\ s[i] <= v /\ v < s[i + 1] /\ l = s[i + 1] - v BY DEF PlaceAt
<1>2. /\ Len(x) \in Nat /\ s[i] \in Nat /\ s[i + 1] \in Nat /\ s[Len(x) + 1] = n
      /\ i + 1 \in 1 .. Len(x) + 1
    BY <1>1, ExtentType
<1>3. v \in Clusters(s, i) BY <1>1, <1>2 DEF Clusters
<1>4. CASE l # 1
    <2>1. s[i] <= v + 1 /\ v + 1 < s[i + 1] /\ l - 1 = s[i + 1] - (v + 1) BY <1>1, <1>2, <1>4
    <2> QED BY <1>1, <1>3, <1>4, <2>1 DEF PlaceAt, PlaceIndex, PlaceLeft
<1>5. CASE l = 1 /\ i < Len(x)
    <2>1. i + 1 \in 1 .. Len(x) /\ s[i + 1] = v + 1 BY <1>1, <1>2, <1>5
    <2>2. s[(i + 1) + 1] = s[i + 1] + x[i + 1].count /\ x[i + 1].count \in Nat \ {0}
        BY <2>1, ExtentType
    <2>3. s[i + 1] <= v + 1 /\ v + 1 < s[(i + 1) + 1] /\ x[i + 1].count = s[(i + 1) + 1] - (v + 1)
        BY <1>2, <2>1, <2>2
    <2> QED BY <1>1, <1>3, <1>5, <2>1, <2>3 DEF PlaceAt, PlaceIndex, PlaceLeft
<1>6. CASE l = 1 /\ ~(i < Len(x))
    <2>1. i = Len(x) /\ v + 1 = n BY <1>1, <1>2, <1>6
    <2> QED BY <1>1, <1>3, <1>6, <2>1 DEF PlaceAt, PlaceIndex, PlaceLeft
<1> QED BY <1>4, <1>5, <1>6

\* Passed goes from one place to another and counts the clusters with storage.
LEMMA PassedIs ==
    ASSUME NEW x, NEW s, NEW n \in Nat, Extents(x, s, n), NEW f,
           NEW a \in 0 .. n, NEW k \in 0 .. n - a, NEW i0, NEW l0, PlaceAt(x, s, n, a, i0, l0),
           \A v \in a .. n - 1 : \A i \in 1 .. Len(x) :
               v \in Clusters(s, i) => f[v] = In(x, s, i, v),
           NEW p, p = Passed(x, i0, l0, k)
    PROVE  /\ PlaceAt(x, s, n, a + k, p.index, p.left)
           /\ p.physical = Cardinality(Stored(f, a, a + k))
<1> DEFINE First == [index |-> i0, left |-> l0, physical |-> 0]
           Then(q) == [index |-> PlaceIndex(x, q.index, q.left),
                       left |-> PlaceLeft(x, q.index, q.left),
                       physical |-> q.physical + IF x[q.index].lcn = Virtual THEN 0 ELSE 1]
           OK(r, i) == /\ r = [index |-> r.index, left |-> r.left, physical |-> r.physical]
                       /\ PlaceAt(x, s, n, a + i, r.index, r.left)
                       /\ r.physical = Cardinality(Stored(f, a, a + i))
           Eq(g) == g = [i \in 0 .. k |-> IF i = 0 THEN First ELSE Then(g[i - 1])]
           P == CHOOSE g : Eq(g)
<1>1. p = P[k] BY DEF Passed, PlaceIndex, PlaceLeft
<1>2. OK(First, 0)
    <2>1. Cardinality(Stored(f, a, a + 0)) = 0 /\ a + 0 = a BY StoredFinite
    <2> QED BY <2>1
<1>3. ASSUME NEW r, NEW i \in 0 .. k - 1, OK(r, i) PROVE OK(Then(r), i + 1)
    <2>1. a + i \in 0 .. n - 1 /\ (a + i) + 1 = a + (i + 1) /\ a + i \in a .. n - 1 OBVIOUS
    <2>2. /\ PlaceAt(x, s, n, (a + i) + 1, PlaceIndex(x, r.index, r.left),
                     PlaceLeft(x, r.index, r.left))
          /\ r.index \in 1 .. Len(x) /\ a + i \in Clusters(s, r.index)
        BY <1>3, <2>1, PlaceNext
    <2>3. f[a + i] = In(x, s, r.index, a + i) BY <2>1, <2>2
    <2>4. f[a + i] = Virtual <=> x[r.index].lcn = Virtual
        <3>1. CASE x[r.index].lcn = Virtual BY <2>3, <3>1 DEF In
        <3>2. CASE x[r.index].lcn # Virtual
            <4>1. /\ x[r.index].lcn \in Nat /\ s[r.index] \in Nat /\ s[r.index + 1] \in Nat
                BY <2>2, <3>2, ExtentType
            <4>2. s[r.index] <= a + i BY <2>2, <4>1 DEF Clusters
            <4>3. x[r.index].lcn + (a + i) - s[r.index] \in Nat BY <4>1, <4>2
            <4>4. f[a + i] \in Nat BY <2>3, <3>2, <4>3 DEF In
            <4> QED BY <3>2, <4>4, VirtualAssumption
        <3> QED BY <3>1, <3>2
    <2>5. Cardinality(Stored(f, a, (a + i) + 1))
            = Cardinality(Stored(f, a, a + i)) + IF f[a + i] = Virtual THEN 0 ELSE 1
        BY <2>1, StoredNext
    <2> QED BY <1>3, <2>1, <2>2, <2>4, <2>5
<1> DEFINE W == [i \in 0 .. k |-> CHOOSE r : OK(r, i)]
<1>4. ASSUME NEW i \in 0 .. k, NEW r, NEW q, OK(r, i), OK(q, i) PROVE r = q
    <2>1. a + i \in 0 .. n OBVIOUS
    <2>2. r.index = q.index /\ r.left = q.left BY <1>4, <2>1, OnePlace
    <2>3. r.physical = q.physical BY <1>4
    <2> QED BY <1>4, <2>2, <2>3
<1>5. ASSUME NEW i \in 0 .. k PROVE OK(W[i], i)
    <2>1. a + i \in 0 .. n OBVIOUS
    <2>2. PICK j, l : PlaceAt(x, s, n, a + i, j, l) BY <2>1, OnePlace
    <2>3. OK([index |-> j, left |-> l, physical |-> Cardinality(Stored(f, a, a + i))], i)
        BY <2>2
    <2> HIDE DEF OK
    <2>4. OK(CHOOSE r : OK(r, i), i) BY <2>3
    <2> QED BY <2>4
<1> HIDE DEF OK, First, Then
<1>6. Eq(W)
    <2>1. ASSUME NEW i \in 0 .. k PROVE W[i] = IF i = 0 THEN First ELSE Then(W[i - 1])
        <3>1. CASE i = 0 BY <1>2, <1>4, <1>5, <3>1
        <3>2. CASE i # 0
            <4>1. i - 1 \in 0 .. k - 1 /\ i - 1 \in 0 .. k /\ (i - 1) + 1 = i BY <3>2
            <4>2. OK(Then(W[i - 1]), i) BY <1>3, <1>5, <4>1
            <4> QED BY <1>4, <1>5, <3>2, <4>2
        <3> QED BY <3>1, <3>2
    <2>2. W = [i \in 0 .. k |-> W[i]] OBVIOUS
    <2> HIDE DEF W
    <2> QED BY <2>1, <2>2
<1> HIDE DEF W
<1>7. Eq(P) BY <1>6
<1> HIDE DEF P
<1>8. \A i \in 0 .. k : P[i] = IF i = 0 THEN First ELSE Then(P[i - 1])
    BY <1>7
<1> DEFINE G == {i \in Nat : OK(P[i], i)}
<1>9. 0 \in G BY <1>2, <1>8
<1>10. ASSUME NEW i \in 0 .. k - 1, i \in G PROVE i + 1 \in G
    <2>1. i + 1 \in 0 .. k /\ i + 1 # 0 /\ (i + 1) - 1 = i OBVIOUS
    <2> QED BY <1>3, <1>8, <1>10, <2>1
<1> HIDE DEF G
<1>11. k \in G
    <2>1. k \in Nat /\ k \in 0 .. k OBVIOUS
    <2> QED BY <1>9, <1>10, <2>1, Induction
<1> QED BY <1>1, <1>11 DEF G, OK

LEMMA ExtentListType ==
    ASSUME NEW n \in Nat, NEW f \in [0 .. n - 1 -> Nat \union {Virtual}],
           NEW x \in ExtentLists(f)
    PROVE  /\ x \in Seq([lcn : Nat \union {Virtual}, count : Nat \ {0}])
           /\ n = 0 <=> x = <<>>
<1>1. Cardinality(DOMAIN f) = n
    <2>1. DOMAIN f = 0 .. n - 1 OBVIOUS
    <2>2. Cardinality(0 .. n - 1) = n BY FS_Interval
    <2> QED BY <2>1, <2>2
<1>2. CASE n = 0
    <2>1. x = <<>> BY <1>1, <1>2 DEF ExtentLists
    <2> QED BY <1>2, <2>1
<1>3. CASE n # 0
    <2>1. PICK s : Extents(x, s, n) BY <1>3, ListShows
    <2>2. /\ Len(x) \in Nat \ {0}
          /\ \A i \in 1 .. Len(x) : x[i].lcn \in Nat \union {Virtual} /\ x[i].count \in Nat \ {0}
        BY <2>1 DEF Extents
    <2>3. PICK S \in SUBSET (0 .. n - 1) : x = ListOf(f, n, S)
        BY <1>1, <1>3 DEF ExtentLists, ListOf
    <2> DEFINE c == Cardinality(S)
               R == [lcn : Nat \union {Virtual}, count : Nat \ {0}]
    <2>4. c \in Nat
        <3>1. IsFiniteSet(0 .. n - 1) BY FS_Interval
        <3>2. IsFiniteSet(S) BY <3>1, FS_Subset
        <3> QED BY <3>2, FS_CardinalityType
    <2> HIDE DEF c
    <2>5. x = [i \in 1 .. c |-> [lcn |-> f[Nth(S, i)],
                  count |-> (IF i = c THEN n ELSE Nth(S, i + 1)) - Nth(S, i)]]
        BY <2>3 DEF ListOf, c
    <2>6. Len(x) = c BY <2>4, <2>5
    <2>7. ASSUME NEW i \in 1 .. c PROVE x[i] \in R
        <3>1. x[i] = [lcn |-> x[i].lcn, count |-> x[i].count] BY <2>5
        <3>2. x[i].lcn \in Nat \union {Virtual} /\ x[i].count \in Nat \ {0} BY <2>2, <2>6
        <3> QED BY <3>1, <3>2
    <2>8. x \in [1 .. c -> R]
        <3>1. x = [i \in 1 .. c |-> x[i]] BY <2>5
        <3> QED BY <2>7, <3>1
    <2> HIDE DEF R
    <2>9. x \in Seq(R)
        <3>1. Seq(R) = UNION {[1 .. k -> R] : k \in Nat} BY SeqDef
        <3>2. [1 .. c -> R] \in {[1 .. k -> R] : k \in Nat} BY <2>4
        <3> HIDE DEF c
        <3> QED BY <2>8, <3>1, <3>2, Zenon
    <2> QED BY <1>3, <2>2, <2>9 DEF R
<1> QED BY <1>2, <1>3

-----------------------------------------------------------------------------
(* The engine: types.                                                      *)

FileLength == Cardinality(DOMAIN clusters)

\* Values of the variables of the engine.
EngineTypeOK ==
    /\ size \in Nat \ {0} /\ changes \in Nat
    /\ FileLength \in Nat /\ clusters \in [0 .. FileLength - 1 -> Nat \union {Virtual}]
    /\ at \in {"idle", "begin", "attempt", "full", "tail", "move", "report"}
    /\ call \in [extents : Seq([lcn : Nat \union {Virtual}, count : Nat \ {0}]), block : Nat,
                 skip : Nat, total : Nat, remaining : Nat, extra : Nat, attempts : Nat]
    /\ search \in [lcn : Nat, blocks : Int, multi : BOOLEAN, since : Nat]
    /\ move \in [vcn : Nat, lcn : Int, index : Nat, left : Nat, moved : Nat, reported : Nat]

\* The extent data shows the part of the file that has not been moved, and the
\* counters of the move loop are those of the place it has got to.
Progress(s) ==
    /\ Extents(call.extents, s, call.total)
    /\ PlaceAt(call.extents, s, call.total, move.vcn, move.index, move.left)
    /\ move.vcn + call.remaining = call.total
    /\ move.moved = Cardinality(Stored(clusters, 0, move.vcn))
    /\ \A i \in 1 .. Len(call.extents) : \A v \in Clusters(s, i) :
          v >= move.vcn => clusters[v] = In(call.extents, s, i, v)

\* A call has a length, and counters and extent data that agree with the file.
CallInv ==
    /\ at = "idle" => call = NoCall
    /\ at # "idle" =>
          /\ call.block > 0 /\ call.total = FileLength
          /\ call.total = 0 => at = "begin" /\ call.extents = <<>>
          /\ call.total > 0 => call.extents # <<>> /\ \E s : Progress(s)

LEMMA FileOf ==
    ASSUME NEW n \in Nat, NEW f \in [0 .. n - 1 -> Nat \union {Virtual}]
    PROVE  Cardinality(DOMAIN f) = n
<1>1. DOMAIN f = 0 .. n - 1 OBVIOUS
<1>2. Cardinality(0 .. n - 1) = n BY FS_Interval
<1> QED BY <1>1, <1>2

LEMMA EngineInit ==
    ASSUME Init PROVE EngineTypeOK /\ CallInv
<1>1. PICK n \in Lengths : clusters \in Files(n, 0 .. size - 1) BY DEF Init
<1>2. n \in Nat /\ size \in Nat \ {0} BY ConstantsAssumption DEF Init
<1>3. clusters \in [0 .. n - 1 -> Nat \union {Virtual}]
    <2>1. clusters \in [0 .. n - 1 -> (0 .. size - 1) \union {Virtual}] BY <1>1 DEF Files
    <2> QED BY <1>2, <2>1
<1>4. FileLength = n BY <1>2, <1>3, FileOf DEF FileLength
<1>5. call = NoCall /\ search = NoSearch /\ move = NoMove /\ at = "idle" /\ changes = 0
    BY DEF Init
<1>6. <<>> \in Seq([lcn : Nat \union {Virtual}, count : Nat \ {0}]) OBVIOUS
<1>7. call \in [extents : Seq([lcn : Nat \union {Virtual}, count : Nat \ {0}]), block : Nat,
                skip : Nat, total : Nat, remaining : Nat, extra : Nat, attempts : Nat]
    BY <1>5, <1>6 DEF NoCall
<1> QED BY <1>2, <1>3, <1>4, <1>5, <1>7 DEF EngineTypeOK, CallInv, NoSearch, NoMove

-----------------------------------------------------------------------------
(* What one read of the bitmap shows.                                      *)

LEMMA Division ==
    ASSUME NEW a \in Nat, NEW c \in Nat \ {0}
    PROVE  /\ a \div c \in Nat /\ a % c \in 0 .. c - 1 /\ a % c <= a
           /\ a < c => a \div c = 0 /\ a % c = a
           /\ a \div c > 0 => a >= c
           /\ ((a + c - 1) \div c) * c >= a /\ (a + c - 1) \div c \in Nat
<1>1. a \div c \in Nat BY Z3
<1>2. a % c \in 0 .. c - 1 BY Z3
<1>3. a % c <= a BY Z3
<1>4. a < c => a \div c = 0 BY Z3
<1>5. a < c => a % c = a BY Z3
<1>6. a \div c > 0 => a >= c BY Z3
<1>7. ((a + c - 1) \div c) * c >= a BY Z3
<1>8. (a + c - 1) \div c \in Nat
    <2>1. a + c - 1 \in Nat OBVIOUS
    <2> DEFINE d == a + c - 1
    <2> HIDE DEF d
    <2>2. d \in Nat => d \div c \in Nat BY Z3
    <2> QED BY <2>1, <2>2 DEF d
<1> QED BY <1>1, <1>2, <1>3, <1>4, <1>5, <1>6, <1>7, <1>8

LEMMA MapIs ==
    ASSUME size \in Nat \ {0}, NEW lcn \in Nat, lcn < size,
           NEW map, map = GetVolumeBitmap(lcn), NEW m, m = Cardinality(DOMAIN map.bits),
           NEW count, count = FpiCalculateBitMapClusterCount(map)
    PROVE  /\ map.start \in Nat /\ map.start <= lcn /\ m \in Nat /\ DOMAIN map.bits = 0 .. m - 1
           /\ \A b \in 0 .. m - 1 :
                 map.bits[b] = (map.start + b \in Used \/ map.start + b >= size)
           /\ count \in Nat /\ count <= m
           /\ lcn = 0 /\ size <= CountOfBitMap => map.start = 0 /\ count = size
<1> DEFINE start == lcn - (lcn % Unit)
           l == Least(CountOfBitMap, size - start)
           bytes == (l + Unit - 1) \div Unit
           k == bytes * Unit
<1>1. Unit \in Nat \ {0} /\ CountOfBitMap \in Nat \ {0} BY ConstantsAssumption
<1>2. start \in Nat /\ start <= lcn /\ (lcn = 0 => start = 0)
    <2>1. lcn % Unit \in 0 .. Unit - 1 /\ lcn % Unit <= lcn BY <1>1, Division
    <2> QED BY <2>1
<1>3. /\ map.start = start /\ map.size = size - start
      /\ map.bits = [b \in 0 .. k - 1 |-> start + b \in Used \/ start + b >= size]
    BY DEF GetVolumeBitmap
<1> HIDE DEF start
<1>4. l \in Nat /\ l <= size - start /\ (size - start <= CountOfBitMap => l = size - start)
    BY <1>1, <1>2 DEF Least
<1> HIDE DEF l
<1>5. k \in Nat /\ k >= l
    <2>1. bytes \in Nat /\ bytes * Unit >= l BY <1>1, <1>4, Division
    <2> HIDE DEF bytes
    <2> QED BY <1>1, <2>1
<1> HIDE DEF k
<1>6. DOMAIN map.bits = 0 .. k - 1 BY <1>3
<1>7. m = k
    <2>1. Cardinality(0 .. k - 1) = k BY <1>5, FS_Interval
    <2> QED BY <1>6, <2>1
<1>8. count = IF (size - start) - start < 0 THEN k
              ELSE Least(k, (size - start) - start)
    BY <1>3, <1>7 DEF FpiCalculateBitMapClusterCount
<1>9. count \in Nat /\ count <= k BY <1>2, <1>5, <1>8 DEF Least
<1>10. lcn = 0 /\ size <= CountOfBitMap => start = 0 /\ count = size
    BY <1>2, <1>4, <1>5, <1>8 DEF Least
<1>11. \A b \in 0 .. k - 1 : map.bits[b] = (start + b \in Used \/ start + b >= size) BY <1>3
<1> QED BY <1>2, <1>3, <1>5, <1>6, <1>7, <1>9, <1>10, <1>11

\* A run of clear bits is a range of free clusters.
LEMMA ClearIsFree ==
    ASSUME size \in Nat \ {0}, NEW lcn \in Nat, lcn < size, NEW b \in Nat, NEW n \in Nat,
           NEW map, map = GetVolumeBitmap(lcn),
           NEW count, count = FpiCalculateBitMapClusterCount(map)
    PROVE  /\ RtlAreBitsClear(map.bits, count, b, n) => n > 0 /\ Free(ClusterRange(map.start + b, n))
           /\ n > 0 /\ b + n <= count /\ Free(ClusterRange(map.start + b, n))
                 => RtlAreBitsClear(map.bits, count, b, n)
<1> DEFINE m == Cardinality(DOMAIN map.bits)
<1>1. /\ map.start \in Nat /\ m \in Nat /\ count \in Nat /\ count <= m
      /\ \A i \in 0 .. m - 1 : map.bits[i] = (map.start + i \in Used \/ map.start + i >= size)
    BY MapIs
<1> HIDE DEF m
<1>2. ASSUME RtlAreBitsClear(map.bits, count, b, n)
      PROVE  n > 0 /\ Free(ClusterRange(map.start + b, n))
    <2>1. n > 0 /\ b + n <= count /\ \A i \in b .. b + n - 1 : ~map.bits[i]
        BY <1>2 DEF RtlAreBitsClear
    <2>2. ASSUME NEW c \in ClusterRange(map.start + b, n) PROVE c \in 0 .. size - 1 /\ c \notin Used
        <3> DEFINE i == c - map.start
        <3>1. c \in Int /\ i \in b .. b + n - 1 /\ i \in 0 .. m - 1 /\ map.start + i = c /\ c >= 0
            BY <1>1, <2>1 DEF ClusterRange
        <3> HIDE DEF i
        <3>2. ~(map.start + i \in Used \/ map.start + i >= size) BY <1>1, <2>1, <3>1
        <3> QED BY <3>1, <3>2
    <2> QED BY <2>1, <2>2 DEF Free
<1>3. ASSUME n > 0, b + n <= count, Free(ClusterRange(map.start + b, n))
      PROVE  RtlAreBitsClear(map.bits, count, b, n)
    <2>1. ASSUME NEW i \in b .. b + n - 1 PROVE ~map.bits[i]
        <3>1. i \in 0 .. m - 1 BY <1>1, <1>3
        <3>2. map.start + i \in ClusterRange(map.start + b, n) BY <1>1 DEF ClusterRange
        <3>3. map.start + i \in 0 .. size - 1 /\ map.start + i \notin Used BY <1>3, <3>2 DEF Free
        <3>4. ~(map.start + i >= size) BY <1>1, <3>1, <3>3
        <3>5. map.bits[i] = (map.start + i \in Used \/ map.start + i >= size) BY <1>1, <3>1
        <3> QED BY <3>3, <3>4, <3>5
    <2> QED BY <1>3, <2>1 DEF RtlAreBitsClear
<1> QED BY <1>2, <1>3

LEMMA NextLcnIs ==
    ASSUME EngineTypeOK, search.lcn < size,
           NEW map, map = GetVolumeBitmap(search.lcn)
    PROVE  NextLcn(map) \in Nat /\ NextLcn(map) > search.lcn
<1> DEFINE count == FpiCalculateBitMapClusterCount(map)
           k == (count \div Word) * Word - 1
           set == {b \in 0 .. k : map.bits[b]}
<1>1. search.lcn \in Nat /\ size \in Nat \ {0} BY DEF EngineTypeOK
<1>2. FpiFindLastClusterInUse(map) =
          IF set = {} THEN 0 ELSE CHOOSE b \in set : \A c \in set : c <= b
    BY DEF FpiFindLastClusterInUse
<1>3. k \in Int
    <2>1. count \in Nat BY <1>1, MapIs
    <2> HIDE DEF count
    <2>2. Word \in Nat \ {0} BY ConstantsAssumption
    <2>3. count \div Word \in Nat BY <2>1, <2>2, Division
    <2> QED BY <2>2, <2>3
<1> HIDE DEF k
<1>4. set \in SUBSET Nat /\ IsFiniteSet(set)
    <2>1. set \subseteq 0 .. k OBVIOUS
    <2>2. IsFiniteSet(0 .. k) /\ 0 .. k \subseteq Nat BY <1>3, FS_Interval
    <2> HIDE DEF set
    <2>3. IsFiniteSet(set) BY <2>1, <2>2, FS_Subset
    <2> QED BY <2>1, <2>2, <2>3
<1> HIDE DEF set
<1>5. FpiFindLastClusterInUse(map) \in Nat
    <2>1. CASE set = {} BY <1>2, <2>1
    <2>2. CASE set # {}
        <3>1. \E b \in set : \A c \in set : c <= b BY <1>4, <2>2, Greatest
        <3> QED BY <1>2, <1>4, <2>2, <3>1
    <2> QED BY <2>1, <2>2
<1> QED BY <1>1, <1>5 DEF NextLcn

\* What the search in one map finds.
LEMMA TailIs ==
    ASSUME EngineTypeOK, search.lcn < size,
           NEW map, map = GetVolumeBitmap(search.lcn), NEW required \in Nat,
           NEW count, count = FpiCalculateBitMapClusterCount(map),
           NEW offset, offset = LocateTail(map, required)
    PROVE  /\ offset \in Nat \/ offset = -1
           /\ ~search.multi =>
                 IF offset = -1
                 THEN \A b \in Nat : ~RtlAreBitsClear(map.bits, count, b, required)
                 ELSE RtlAreBitsClear(map.bits, count, offset, required)
<1> DEFINE runs == ClearRuns(map.bits, count, required)
<1>1. count \in Nat
    <2>1. search.lcn \in Nat /\ size \in Nat \ {0} BY DEF EngineTypeOK
    <2> QED BY <2>1, MapIs
<1>2. runs \in SUBSET Nat /\ \A b : b \in runs <=>
          b \in 0 .. count - 1 /\ RtlAreBitsClear(map.bits, count, b, required)
    BY <1>1 DEF ClearRuns
<1> HIDE DEF runs
<1>3. CASE search.multi BY <1>3 DEF LocateTail
<1>4. CASE ~search.multi
    <2>1. offset = IF runs = {} THEN -1 ELSE CHOOSE b \in runs : \A c \in runs : b <= c
        BY <1>4 DEF LocateTail, runs
    <2>2. CASE runs = {}
        <3>1. ASSUME NEW b \in Nat, RtlAreBitsClear(map.bits, count, b, required) PROVE FALSE
            <4>1. b \in 0 .. count - 1 BY <1>1, <3>1 DEF RtlAreBitsClear
            <4> QED BY <1>2, <2>2, <3>1, <4>1
        <3> QED BY <2>1, <2>2, <3>1
    <2>3. CASE runs # {}
        <3>1. \E b \in runs : \A c \in runs : b <= c BY <1>2, <2>3, LeastNumber
        <3>2. offset \in runs BY <2>1, <2>3, <3>1
        <3>3. offset \in Nat /\ offset # -1 BY <1>2, <3>2
        <3> QED BY <1>2, <3>2, <3>3
    <2> QED BY <2>2, <2>3
<1> QED BY <1>3, <1>4

ExtentList == Seq([lcn : Nat \union {Virtual}, count : Nat \ {0}])

LEMMA TypesAtReturn ==
    ASSUME EngineTypeOK, NEW status, Return(status),
           size' = size, changes' \in Nat, clusters' = clusters
    PROVE  EngineTypeOK' /\ CallInv'
<1>1. <<>> \in ExtentList BY DEF ExtentList
<1>2. call' \in [extents : ExtentList, block : Nat, skip : Nat, total : Nat, remaining : Nat,
                 extra : Nat, attempts : Nat]
    BY <1>1 DEF Return, NoCall
<1> QED BY <1>2 DEF EngineTypeOK, CallInv, Return, NoSearch, NoMove, FileLength, ExtentList

\* The block that moves, and where its clusters go.
LEMMA BlockIs ==
    ASSUME EngineTypeOK, CallInv, MoveBlock
    PROVE  LET n == Least(call.block, call.remaining)
               p == Passed(call.extents, move.index, move.left, n)
               last == move.vcn + n - 1
           IN  /\ n \in Nat \ {0} /\ n <= call.remaining
               /\ clusters' = Moved(move.vcn, n, move.lcn)
               /\ clusters' \in [0 .. FileLength - 1 -> Nat \union {Virtual}]
               /\ FileLength' = FileLength /\ call.total = FileLength
               /\ move.vcn + call.remaining = call.total
               /\ \A v \in 0 .. FileLength - 1 :
                     /\ clusters'[v] = Virtual <=> clusters[v] = Virtual
                     /\ v \notin move.vcn .. last => clusters'[v] = clusters[v]
                     /\ v \in move.vcn .. last /\ clusters[v] # Virtual
                           => clusters'[v] = move.lcn + Cardinality(Stored(clusters, move.vcn, v))
               /\ p.physical = Cardinality(Stored(clusters, move.vcn, move.vcn + n))
               /\ p.index \in Nat /\ p.left \in Nat
               /\ \E s : Progress(s)
               /\ \A s : Progress(s) =>
                     PlaceAt(call.extents, s, call.total, move.vcn + n, p.index, p.left)
<1> DEFINE n == Least(call.block, call.remaining)
           p == Passed(call.extents, move.index, move.left, n)
           last == move.vcn + n - 1
           L == FileLength
           to == Moved(move.vcn, n, move.lcn)
<1>1. /\ at = "move" /\ call.remaining > 0 /\ clusters' = to
      /\ Free({to[v] : v \in {u \in Physical(clusters) : u \in move.vcn .. move.vcn + n - 1}})
    BY DEF MoveBlock
<1>2. /\ L \in Nat /\ clusters \in [0 .. L - 1 -> Nat \union {Virtual}] /\ size \in Nat
      /\ call.block \in Nat /\ call.remaining \in Nat /\ call.total \in Nat
      /\ move.vcn \in Nat /\ move.lcn \in Int
    BY DEF EngineTypeOK
<1>3. call.block > 0 /\ call.total = L /\ call.total > 0 /\ \E s : Progress(s)
    <2>1. call.total # 0 BY <1>1 DEF CallInv
    <2> QED BY <1>1, <1>2, <2>1 DEF CallInv
<1>4. n \in Nat \ {0} /\ n <= call.remaining BY <1>1, <1>2, <1>3 DEF Least
<1>5. move.vcn + call.remaining = call.total BY <1>3 DEF Progress
<1> HIDE DEF n, L
<1>6. DOMAIN clusters = 0 .. L - 1 /\ Physical(clusters) = {v \in 0 .. L - 1 : clusters[v] # Virtual}
    BY <1>2 DEF Physical
<1>7. ASSUME NEW v \in 0 .. L - 1
      PROVE  to[v] = IF v \in move.vcn .. last /\ clusters[v] # Virtual
                     THEN move.lcn + Cardinality(Stored(clusters, move.vcn, v))
                     ELSE clusters[v]
    <2>1. {u \in Physical(clusters) : move.vcn <= u /\ u < v} = Stored(clusters, move.vcn, v)
        BY <1>2, <1>6 DEF Stored
    <2> QED BY <1>6, <2>1 DEF Moved
<1>8. ASSUME NEW v \in 0 .. L - 1 PROVE to[v] \in Nat \union {Virtual} /\ (to[v] = Virtual <=> clusters[v] = Virtual)
    <2>1. CASE v \in move.vcn .. last /\ clusters[v] # Virtual
        <3>1. v \in {u \in Physical(clusters) : u \in move.vcn .. move.vcn + n - 1}
            BY <1>6, <2>1
        <3>2. to[v] \in 0 .. size - 1 BY <1>1, <3>1 DEF Free
        <3>3. to[v] \in Nat BY <1>2, <3>2
        <3> QED BY <2>1, <3>3, VirtualAssumption
    <2>2. CASE ~(v \in move.vcn .. last /\ clusters[v] # Virtual)
        BY <1>2, <1>7, <2>2
    <2> QED BY <2>1, <2>2
<1>9. to \in [0 .. L - 1 -> Nat \union {Virtual}]
    <2>1. to = [v \in 0 .. L - 1 |-> to[v]] BY <1>6 DEF Moved
    <2> HIDE DEF to
    <2> QED BY <1>8, <2>1
<1> HIDE DEF to
<1>10. FileLength' = L
    <2>1. Cardinality(DOMAIN to) = L BY <1>2, <1>9, FileOf
    <2> QED BY <1>1, <2>1 DEF FileLength
<1>11. ASSUME NEW s, Progress(s)
       PROVE  /\ PlaceAt(call.extents, s, call.total, move.vcn + n, p.index, p.left)
              /\ p.physical = Cardinality(Stored(clusters, move.vcn, move.vcn + n))
              /\ p.index \in Nat /\ p.left \in Nat
    <2>1. /\ Extents(call.extents, s, call.total)
          /\ PlaceAt(call.extents, s, call.total, move.vcn, move.index, move.left)
          /\ \A i \in 1 .. Len(call.extents) : \A v \in Clusters(s, i) :
                v >= move.vcn => clusters[v] = In(call.extents, s, i, v)
        BY <1>11 DEF Progress
    <2>2. move.vcn \in 0 .. call.total /\ n \in 0 .. call.total - move.vcn
        BY <1>2, <1>4, <1>5
    <2>3. \A v \in move.vcn .. call.total - 1 : \A i \in 1 .. Len(call.extents) :
              v \in Clusters(s, i) => clusters[v] = In(call.extents, s, i, v)
        BY <1>2, <2>1
    <2>4. /\ PlaceAt(call.extents, s, call.total, move.vcn + n, p.index, p.left)
          /\ p.physical = Cardinality(Stored(clusters, move.vcn, move.vcn + n))
        <3> DEFINE x == call.extents
                   t == call.total
                   a == move.vcn
        <3>1. /\ t \in Nat /\ Extents(x, s, t) /\ a \in 0 .. t /\ n \in 0 .. t - a
              /\ PlaceAt(x, s, t, a, move.index, move.left)
              /\ \A v \in a .. t - 1 : \A i \in 1 .. Len(x) :
                    v \in Clusters(s, i) => clusters[v] = In(x, s, i, v)
              /\ p = Passed(x, move.index, move.left, n)
            BY <1>2, <2>1, <2>2, <2>3
        <3> HIDE DEF x, t, a, p
        <3>2. /\ PlaceAt(x, s, t, a + n, p.index, p.left)
              /\ p.physical = Cardinality(Stored(clusters, a, a + n))
            BY <3>1, PassedIs
        <3> QED BY <3>2 DEF x, t, a
    <2> HIDE DEF p
    <2>5. p.index \in Nat /\ p.left \in Nat
        <3>1. CASE p.index \in 1 .. Len(call.extents)
            <4>1. s[p.index + 1] \in Nat /\ Len(call.extents) \in Nat BY <2>1, <3>1, ExtentType
            <4>2. p.left = 0 \/ (p.left = s[p.index + 1] - (move.vcn + n)
                                 /\ move.vcn + n < s[p.index + 1])
                BY <2>4 DEF PlaceAt
            <4> QED BY <1>2, <1>4, <3>1, <4>1, <4>2
        <3>2. CASE p.index \notin 1 .. Len(call.extents)
            <4>1. p.index = Len(call.extents) + 1 /\ p.left = 0 BY <2>4, <3>2 DEF PlaceAt
            <4>2. Len(call.extents) \in Nat BY <2>1, ExtentType
            <4> QED BY <4>1, <4>2
        <3> QED BY <3>1, <3>2
    <2> QED BY <2>4, <2>5
<1>12. /\ p.physical = Cardinality(Stored(clusters, move.vcn, move.vcn + n))
       /\ p.index \in Nat /\ p.left \in Nat
    BY <1>3, <1>11
<1> HIDE DEF p
<1>13. \A v \in 0 .. L - 1 :
          /\ clusters'[v] = Virtual <=> clusters[v] = Virtual
          /\ v \notin move.vcn .. last => clusters'[v] = clusters[v]
          /\ v \in move.vcn .. last /\ clusters[v] # Virtual
                => clusters'[v] = move.lcn + Cardinality(Stored(clusters, move.vcn, v))
    BY <1>1, <1>7, <1>8
<1> HIDE DEF last
<1>14. clusters' = Moved(move.vcn, n, move.lcn) BY <1>1 DEF to
<1>15. clusters' \in [0 .. L - 1 -> Nat \union {Virtual}] BY <1>1, <1>9
<1>16. \A s : Progress(s) => PlaceAt(call.extents, s, call.total, move.vcn + n, p.index, p.left)
    BY <1>11
<1> QED BY <1>3, <1>4, <1>5, <1>10, <1>12, <1>13, <1>14, <1>15, <1>16 DEF n, p, last, L

\* The call begins at the first cluster of the first extent.
LEMMA CallBegins ==
    ASSUME EngineTypeOK, CallInv, FpDefragmentFileEx
    PROVE  EngineTypeOK' /\ CallInv'
<1> DEFINE n == FileLength
<1>1. PICK block \in BlockCounts, skip \in SkipCounts, x \in ExtentLists(clusters) :
          /\ call' = [NoCall EXCEPT !.extents = x, !.block = block, !.skip = skip,
                                    !.total = n, !.remaining = n]
          /\ move' = [NoMove EXCEPT !.index = 1, !.left = IF x = <<>> THEN 0 ELSE x[1].count]
    BY DEF FpDefragmentFileEx, FileLength
<1>2. /\ n \in Nat /\ clusters \in [0 .. n - 1 -> Nat \union {Virtual}]
      /\ block \in Nat \ {0} /\ skip \in Nat
    BY ConstantsAssumption DEF EngineTypeOK
<1>3. /\ size' = size /\ changes' = changes /\ clusters' = clusters /\ search' = search
      /\ n' = n /\ at' = "begin"
    BY DEF FpDefragmentFileEx, volumeVars, FileLength
<1> HIDE DEF n
<1>4. /\ call' = [extents |-> x, block |-> block, skip |-> skip, total |-> n,
                  remaining |-> n, extra |-> 0, attempts |-> 0]
      /\ move' = [vcn |-> 0, lcn |-> 0, index |-> 1, moved |-> 0, reported |-> 0,
                  left |-> IF x = <<>> THEN 0 ELSE x[1].count]
    BY <1>1 DEF NoCall, NoMove
<1>5. x \in ExtentList /\ (n = 0 <=> x = <<>>) BY <1>2, ExtentListType DEF ExtentList
<1>6. ASSUME n # 0
      PROVE  /\ x # <<>> /\ x[1].count \in Nat
             /\ \E s : /\ Extents(x, s, n) /\ PlaceAt(x, s, n, 0, 1, x[1].count)
                       /\ \A i \in 1 .. Len(x) : \A v \in Clusters(s, i) :
                             clusters[v] = In(x, s, i, v)
    <2>1. PICK s : Extents(x, s, n) /\ Shows(x, s, clusters)
        BY <1>2, <1>6, ListShows
    <2>2. /\ 1 \in 1 .. Len(x) /\ s[1] = 0 /\ s[1 + 1] = s[1] + x[1].count
          /\ x[1].count \in Nat \ {0}
        <3>1. Len(x) \in Nat \ {0} BY <2>1, ExtentType
        <3>2. 1 \in 1 .. Len(x) BY <3>1
        <3> QED BY <2>1, <3>2, ExtentType
    <2>3. s[1] <= 0 /\ 0 < s[1 + 1] /\ x[1].count = s[1 + 1] - 0 BY <2>2
    <2>4. PlaceAt(x, s, n, 0, 1, x[1].count) BY <2>2, <2>3 DEF PlaceAt
    <2> QED BY <1>5, <1>6, <2>1, <2>2, <2>4 DEF Shows
<1>7. EngineTypeOK'
    <2>1. call' \in [extents : ExtentList, block : Nat, skip : Nat, total : Nat,
                     remaining : Nat, extra : Nat, attempts : Nat]
        BY <1>2, <1>4, <1>5
    <2>2. (IF x = <<>> THEN 0 ELSE x[1].count) \in Nat BY <1>5, <1>6
    <2>3. move' \in [vcn : Nat, lcn : Int, index : Nat, left : Nat, moved : Nat, reported : Nat]
        BY <1>4, <2>2
    <2> QED BY <1>3, <2>1, <2>3 DEF EngineTypeOK, ExtentList, FileLength
<1>8. CallInv'
    <2>1. ASSUME n # 0 PROVE \E s : Progress(s)'
        <3>1. PICK s : /\ Extents(x, s, n) /\ PlaceAt(x, s, n, 0, 1, x[1].count)
                       /\ \A i \in 1 .. Len(x) : \A v \in Clusters(s, i) :
                             clusters[v] = In(x, s, i, v)
            BY <1>6, <2>1
        <3>2. Cardinality(Stored(clusters, 0, 0)) = 0 BY StoredFinite
        <3>3. x # <<>> BY <1>5, <2>1
        <3>4. Progress(s)' BY <1>2, <1>3, <1>4, <3>1, <3>2, <3>3 DEF Progress
        <3> QED BY <3>4
    <2> QED BY <1>2, <1>3, <1>4, <1>5, <2>1 DEF CallInv, n
<1> QED BY <1>7, <1>8

\* The steps that move nothing keep the progress; the search keeps its types.
LEMMA StepTypes ==
    ASSUME EngineTypeOK, CallInv, Next PROVE EngineTypeOK'
<1>0. /\ size \in Nat \ {0} /\ changes \in Nat /\ changes + 1 \in Nat
      /\ FileLength \in Nat /\ clusters \in [0 .. FileLength - 1 -> Nat \union {Virtual}]
      /\ call \in [extents : ExtentList, block : Nat, skip : Nat, total : Nat,
                   remaining : Nat, extra : Nat, attempts : Nat]
      /\ search \in [lcn : Nat, blocks : Int, multi : BOOLEAN, since : Nat]
      /\ move \in [vcn : Nat, lcn : Int, index : Nat, left : Nat, moved : Nat, reported : Nat]
      /\ CountOfBitMap \in Nat \ {0}
    BY ConstantsAssumption DEF EngineTypeOK, ExtentList
<1>1. Needed(call) \in Nat /\ Needed(call) \div CountOfBitMap \in Nat
      /\ Needed(call) % CountOfBitMap \in Nat
    <2> DEFINE k == Needed(call)
    <2>1. k \in Nat BY <1>0 DEF Needed
    <2> HIDE DEF k
    <2>2. k \div CountOfBitMap \in Nat /\ k % CountOfBitMap \in 0 .. CountOfBitMap - 1
        BY <1>0, <2>1, Division
    <2>3. k % CountOfBitMap \in Nat BY <1>0, <2>2
    <2> QED BY <2>1, <2>2, <2>3 DEF k
<1>01. /\ call.extents \in ExtentList /\ call.block \in Nat /\ call.skip \in Nat
       /\ call.total \in Nat /\ call.remaining \in Nat /\ call.extra \in Nat
       /\ call.attempts \in Nat /\ search.lcn \in Nat /\ search.blocks \in Int
       /\ search.multi \in BOOLEAN /\ search.since \in Nat /\ move.vcn \in Nat
       /\ move.lcn \in Int /\ move.index \in Nat /\ move.left \in Nat /\ move.moved \in Nat
       /\ move.reported \in Nat
    BY <1>0
<1>2. CASE FpDefragmentFileEx BY <1>2, CallBegins
<1>3. CASE Begin
    <2>1. CASE \E status : Return(status) BY <1>0, <1>3, <2>1, TypesAtReturn DEF Begin, volumeVars
    <2>2. CASE ~\E status : Return(status)
        BY <1>3, <2>2 DEF Begin, volumeVars, EngineTypeOK, FileLength
    <2> QED BY <2>1, <2>2
<1>4. CASE NextAttempt
    <2> DEFINE extra == IF call.skip > 0 THEN call.skip * (call.remaining \div call.block)
                        ELSE call.extra
               c == [call EXCEPT !.attempts = @ + 1, !.extra = extra]
               blocks == Needed(c) \div CountOfBitMap
    <2>1. /\ call' = c /\ at' = (IF blocks > 0 THEN "full" ELSE "tail")
          /\ search' = [NoSearch EXCEPT !.blocks = blocks, !.multi = blocks > 0,
                                        !.since = changes]
          /\ UNCHANGED <<volumeVars, clusters, move>>
        BY <1>4 DEF NextAttempt
    <2>2. extra \in Nat
        <3>1. call.block \in Nat \ {0} BY <1>0, <1>4 DEF CallInv, NextAttempt
        <3>2. call.remaining \div call.block \in Nat BY <1>0, <3>1, Division
        <3> QED BY <1>0, <3>2
    <2> HIDE DEF extra
    <2>3. /\ c \in [extents : ExtentList, block : Nat, skip : Nat, total : Nat,
                    remaining : Nat, extra : Nat, attempts : Nat]
        <3>1. call.attempts + 1 \in Nat BY <1>01
        <3> QED BY <1>0, <2>2, <3>1
    <2> HIDE DEF c
    <2>4. blocks \in Nat
        <3>1. Needed(c) \in Nat BY <2>3 DEF Needed
        <3> QED BY <1>0, <3>1, Division
    <2> HIDE DEF blocks
    <2>5. search' \in [lcn : Nat, blocks : Int, multi : BOOLEAN, since : Nat]
        <3>1. search' = [lcn |-> 0, blocks |-> blocks, multi |-> blocks > 0, since |-> changes]
            BY <2>1 DEF NoSearch
        <3>2. blocks \in Int /\ (blocks > 0) \in BOOLEAN BY <2>4
        <3> QED BY <1>0, <3>1, <3>2
    <2> QED BY <2>1, <2>3, <2>5 DEF EngineTypeOK, volumeVars, FileLength, ExtentList
<1>5. CASE GiveUp BY <1>0, <1>5, TypesAtReturn DEF GiveUp, volumeVars
<1>6. CASE ReadFails BY <1>0, <1>6, TypesAtReturn DEF ReadFails, volumeVars
<1>7. CASE ReadFull
    <2>1. CASE \E status : Return(status)
        BY <1>0, <1>7, <2>1, TypesAtReturn DEF ReadFull, volumeVars
    <2>2. CASE ~\E status : Return(status)
        <3> DEFINE map == GetVolumeBitmap(search.lcn)
                   count == FpiCalculateBitMapClusterCount(map)
        <3>1. /\ search.lcn < size /\ at = "full" /\ UNCHANGED <<volumeVars, clusters, call, move>>
              /\ \/ /\ at' = "full"
                    /\ search' = [search EXCEPT !.blocks = Needed(call) \div CountOfBitMap,
                                                !.lcn = NextLcn(map)]
                 \/ /\ at' \in {"full", "tail"}
                    /\ search' = [search EXCEPT !.blocks = @ - 1, !.lcn = @ + count]
            BY <1>7, <2>2 DEF ReadFull
        <3>2. NextLcn(map) \in Nat BY <3>1, NextLcnIs
        <3>3. count \in Nat BY <1>0, <3>1, MapIs
        <3> HIDE DEF map, count
        <3>4. search' \in [lcn : Nat, blocks : Int, multi : BOOLEAN, since : Nat]
            <4>1. search.blocks - 1 \in Int /\ search.lcn + count \in Nat BY <1>01, <3>3
            <4>2. Needed(call) \div CountOfBitMap \in Int BY <1>1
            <4> QED BY <1>0, <3>1, <3>2, <4>1, <4>2
        <3> QED BY <3>1, <3>4 DEF EngineTypeOK, volumeVars, FileLength
    <2> QED BY <2>1, <2>2
<1>8. CASE ReadTail
    <2>1. CASE \E status : Return(status)
        BY <1>0, <1>8, <2>1, TypesAtReturn DEF ReadTail, volumeVars
    <2>2. CASE ~\E status : Return(status)
        <3> DEFINE map == GetVolumeBitmap(search.lcn)
                   required == Needed(call) % CountOfBitMap
                   offset == LocateTail(map, required)
                   lcn == search.lcn + offset + required - Needed(call)
        <3>1. /\ search.lcn < size /\ at = "tail" /\ UNCHANGED <<volumeVars, clusters, call>>
              /\ \/ /\ at' = "tail" /\ move' = move
                    /\ search' = [search EXCEPT !.lcn = NextLcn(map)]
                 \/ /\ at' = "move" /\ search' = search
                    /\ move' = [move EXCEPT !.lcn = lcn]
            BY <1>8, <2>2 DEF ReadTail
        <3>2. NextLcn(map) \in Nat BY <3>1, NextLcnIs
        <3>3. offset \in Int BY <1>1, <3>1, TailIs
        <3> HIDE DEF map, offset
        <3> HIDE DEF required
        <3>4. lcn \in Int BY <1>01, <1>1, <3>3 DEF required
        <3> HIDE DEF lcn
        <3>5. /\ search' \in [lcn : Nat, blocks : Int, multi : BOOLEAN, since : Nat]
              /\ move' \in [vcn : Nat, lcn : Int, index : Nat, left : Nat, moved : Nat,
                            reported : Nat]
            BY <1>0, <3>1, <3>2, <3>4
        <3> QED BY <3>1, <3>5 DEF EngineTypeOK, volumeVars, FileLength
    <2> QED BY <2>1, <2>2
<1>9. CASE MoveBlock
    <2> DEFINE n == Least(call.block, call.remaining)
               p == Passed(call.extents, move.index, move.left, n)
    <2>1. /\ n \in Nat /\ n <= call.remaining /\ p.index \in Nat /\ p.left \in Nat
          /\ p.physical = Cardinality(Stored(clusters, move.vcn, move.vcn + n))
          /\ clusters' \in [0 .. FileLength - 1 -> Nat \union {Virtual}]
          /\ FileLength' = FileLength
        BY <1>9, BlockIs
    <2>2. p.physical \in Nat BY <1>0, <2>1, StoredFinite
    <2>3. /\ call' = [call EXCEPT !.remaining = @ - n] /\ at' \in {"report", "move"}
          /\ UNCHANGED <<volumeVars, search>>
          /\ \E due \in BOOLEAN :
               move' = [move EXCEPT !.vcn = @ + n, !.index = p.index, !.left = p.left,
                                    !.moved = move.moved + p.physical,
                                    !.lcn = @ + p.physical + IF due THEN 0 ELSE call.skip]
        BY <1>9 DEF MoveBlock
    <2> HIDE DEF n, p
    <2>4. call' \in [extents : ExtentList, block : Nat, skip : Nat, total : Nat,
                     remaining : Nat, extra : Nat, attempts : Nat]
        <3>1. call.remaining - n \in Nat BY <1>01, <2>1
        <3> QED BY <1>0, <2>3, <3>1
    <2>5. move' \in [vcn : Nat, lcn : Int, index : Nat, left : Nat, moved : Nat, reported : Nat]
        <3>1. PICK due \in BOOLEAN :
                  move' = [move EXCEPT !.vcn = @ + n, !.index = p.index, !.left = p.left,
                                       !.moved = move.moved + p.physical,
                                       !.lcn = @ + p.physical + IF due THEN 0 ELSE call.skip]
            BY <2>3
        <3>2. /\ move.vcn + n \in Nat /\ move.moved + p.physical \in Nat
              /\ move.lcn + p.physical + (IF due THEN 0 ELSE call.skip) \in Int
            <4> DEFINE gap == IF due THEN 0 ELSE call.skip
            <4>1. gap \in Nat BY <1>01
            <4> HIDE DEF gap
            <4>2. move.vcn + n \in Nat /\ move.moved + p.physical \in Nat
                <5>1. move.vcn \in Nat /\ move.moved \in Nat BY <1>01
                <5>2. n \in Nat BY <2>1
                <5>3. move.vcn + n \in Nat BY <5>1, <5>2
                <5>4. move.moved + p.physical \in Nat BY <2>2, <5>1
                <5> QED BY <5>3, <5>4
            <4>3. move.lcn + p.physical + gap \in Int BY <1>01, <2>2, <4>1
            <4> QED BY <4>2, <4>3 DEF gap
        <3> QED BY <1>0, <2>1, <3>1, <3>2
    <2> QED BY <2>1, <2>3, <2>4, <2>5 DEF EngineTypeOK, volumeVars, ExtentList
<1>10. CASE MoveFails BY <1>10 DEF MoveFails, volumeVars, EngineTypeOK, FileLength
<1>11. CASE Report
    <2>1. CASE \E status : Return(status) BY <1>0, <1>11, <2>1, TypesAtReturn DEF Report, volumeVars
    <2>2. CASE ~\E status : Return(status)
        <3>1. /\ move' = [move EXCEPT !.reported = move.moved, !.lcn = @ + call.skip]
              /\ at' = "move" /\ UNCHANGED <<volumeVars, clusters, call, search>>
            BY <1>11, <2>2 DEF Report
        <3>2. move' \in [vcn : Nat, lcn : Int, index : Nat, left : Nat, moved : Nat, reported : Nat]
            <4>1. move.lcn + call.skip \in Int BY <1>01
            <4> QED BY <1>0, <3>1, <4>1
        <3> QED BY <3>1, <3>2 DEF EngineTypeOK, volumeVars, FileLength
    <2> QED BY <2>1, <2>2
<1>12. CASE MoveDone BY <1>0, <1>12, TypesAtReturn DEF MoveDone, volumeVars
<1>13. CASE OthersChange BY <1>0, <1>13 DEF OthersChange, EngineTypeOK, FileLength
<1> QED BY <1>2, <1>3, <1>4, <1>5, <1>6, <1>7, <1>8, <1>9, <1>10, <1>11, <1>12, <1>13
        DEF Next, EngineStep

\* A step that leaves the file and the place alone keeps the progress.
LEMMA CallStays ==
    ASSUME CallInv, at # "idle", at' # "idle", at' = "begin" \/ call.total > 0,
           call.total \in Nat, clusters' = clusters,
           call'.extents = call.extents, call'.total = call.total, call'.block = call.block,
           call'.remaining = call.remaining, move'.vcn = move.vcn, move'.index = move.index,
           move'.left = move.left, move'.moved = move.moved
    PROVE  CallInv'
<1>1. FileLength' = FileLength BY DEF FileLength
<1>2. ASSUME NEW s, Progress(s) PROVE Progress(s)' BY <1>2 DEF Progress
<1>3. (\E s : Progress(s)) => \E s : Progress(s)' BY <1>2
<1> QED BY <1>1, <1>3 DEF CallInv

LEMMA StepProgress ==
    ASSUME EngineTypeOK, CallInv, Next PROVE CallInv'
<1>0. /\ size' = size /\ changes' \in Nat /\ call.total \in Nat /\ call.remaining \in Nat
    <2>1. changes + 1 \in Nat /\ changes \in Nat BY DEF EngineTypeOK
    <2> QED BY <2>1
        DEF Next, EngineStep, EngineTypeOK, volumeVars, FpDefragmentFileEx, Begin, NextAttempt,
            GiveUp, ReadFails, ReadFull, ReadTail, MoveBlock, MoveFails, Report, MoveDone,
            OthersChange
<1>1. CASE \E status : Return(status)
    <2>1. clusters' = clusters
        BY <1>1 DEF Return, Next, EngineStep, FpDefragmentFileEx, Begin, NextAttempt, GiveUp,
            ReadFails, ReadFull, ReadTail, MoveBlock, MoveFails, Report, MoveDone, OthersChange
    <2> QED BY <1>0, <1>1, <2>1, TypesAtReturn
<1>2. CASE FpDefragmentFileEx BY <1>2, CallBegins
<1>3. CASE MoveBlock
    <2> DEFINE n == Least(call.block, call.remaining)
               p == Passed(call.extents, move.index, move.left, n)
               last == move.vcn + n - 1
    <2>1. /\ n \in Nat \ {0} /\ n <= call.remaining
          /\ FileLength' = FileLength /\ call.total = FileLength
          /\ move.vcn + call.remaining = call.total
          /\ \A v \in 0 .. FileLength - 1 :
                /\ clusters'[v] = Virtual <=> clusters[v] = Virtual
                /\ v \notin move.vcn .. last => clusters'[v] = clusters[v]
          /\ p.physical = Cardinality(Stored(clusters, move.vcn, move.vcn + n))
          /\ \E s : Progress(s)
          /\ \A s : Progress(s) =>
                PlaceAt(call.extents, s, call.total, move.vcn + n, p.index, p.left)
        BY <1>3, BlockIs
    <2>2. /\ at = "move" /\ at' \in {"report", "move"}
          /\ call'.extents = call.extents /\ call'.total = call.total
          /\ call'.block = call.block /\ call'.remaining = call.remaining - n
          /\ move'.vcn = move.vcn + n /\ move'.index = p.index /\ move'.left = p.left
          /\ move'.moved = move.moved + p.physical
        BY <1>3 DEF MoveBlock, EngineTypeOK
    <2> HIDE DEF n, p
    <2>3. move.vcn \in Nat /\ move.vcn + n \in Nat /\ move.vcn + n <= call.total
        BY <1>0, <2>1 DEF EngineTypeOK
    <2>4. Cardinality(Stored(clusters', 0, move.vcn + n))
             = Cardinality(Stored(clusters, 0, move.vcn))
               + Cardinality(Stored(clusters, move.vcn, move.vcn + n))
        <3>1. Stored(clusters', 0, move.vcn + n) = Stored(clusters, 0, move.vcn + n)
            <4>1. \A v \in 0 .. move.vcn + n - 1 : v \in 0 .. FileLength - 1
                BY <1>0, <2>1, <2>3
            <4>2. \A v \in 0 .. move.vcn + n - 1 : clusters'[v] # Virtual <=> clusters[v] # Virtual
                BY <2>1, <4>1
            <4>3. move.vcn + n - 1 = (move.vcn + n) - 1 BY <2>1, <2>3
            <4> QED BY <4>2, <4>3, StoredSame
        <3>2. 0 <= move.vcn /\ move.vcn <= move.vcn + n BY <2>1, <2>3
        <3> QED BY <2>3, <3>1, <3>2, StoredSum
    <2>5. ASSUME NEW s, Progress(s) PROVE Progress(s)'
        <3>1. /\ Extents(call.extents, s, call.total)
              /\ PlaceAt(call.extents, s, call.total, move.vcn + n, p.index, p.left)
              /\ move.moved = Cardinality(Stored(clusters, 0, move.vcn))
              /\ \A i \in 1 .. Len(call.extents) : \A v \in Clusters(s, i) :
                    v >= move.vcn => clusters[v] = In(call.extents, s, i, v)
            BY <2>1, <2>5 DEF Progress
        <3>2. (move.vcn + n) + (call.remaining - n) = call.total BY <1>0, <2>1, <2>3
        <3>3. ASSUME NEW i \in 1 .. Len(call.extents), NEW v \in Clusters(s, i), v >= move.vcn + n
              PROVE  clusters'[v] = In(call.extents, s, i, v)
            <4>1. s[i] \in Nat /\ s[i + 1] \in Nat /\ s[i + 1] <= call.total
                <5>1. /\ s[i] \in Nat /\ s[i + 1] \in Nat /\ Len(call.extents) \in Nat
                      /\ s[Len(call.extents) + 1] = call.total
                    BY <3>1, ExtentType DEF Extents
                <5>2. i + 1 = Len(call.extents) + 1 \/ s[i + 1] < s[Len(call.extents) + 1]
                    <6>1. i + 1 = Len(call.extents) + 1 \/ i + 1 < Len(call.extents) + 1 BY <5>1
                    <6>2. i + 1 \in 1 .. Len(call.extents) + 1
                          /\ Len(call.extents) + 1 \in 1 .. Len(call.extents) + 1
                        BY <5>1
                    <6> QED BY <3>1, <6>1, <6>2, StartsGrow
                <5> QED BY <1>0, <5>1, <5>2
            <4>2. v \in 0 .. FileLength - 1 /\ v \notin move.vcn .. last /\ v >= move.vcn
                BY <1>0, <2>1, <2>3, <3>3, <4>1 DEF Clusters
            <4> QED BY <2>1, <3>1, <4>2
        <3>4. move.moved + p.physical = Cardinality(Stored(clusters', 0, move.vcn + n))
            BY <2>1, <2>4, <3>1
        <3> HIDE DEF last
        <3> QED BY <2>2, <3>1, <3>2, <3>3, <3>4 DEF Progress
    <2>6. call.total > 0 /\ call.block > 0 /\ call.extents # <<>> BY <1>0, <2>2 DEF CallInv
    <2>7. \E s : Progress(s)' BY <2>1, <2>5
    <2> QED BY <2>1, <2>2, <2>6, <2>7 DEF CallInv
<1>4. CASE /\ ~\E status : Return(status)
           /\ \/ Begin \/ NextAttempt \/ GiveUp \/ ReadFails \/ ReadFull \/ ReadTail
              \/ MoveFails \/ Report \/ MoveDone \/ OthersChange
    <2>1. /\ at # "idle" /\ at' # "idle" /\ (at' = "begin" => at = "begin")
          /\ (at = "begin" => at' = "begin" \/ call.total > 0)
        BY <1>4 DEF Begin, NextAttempt, GiveUp, ReadFails, ReadFull, ReadTail, MoveFails, Report,
                    MoveDone, OthersChange
    <2>2. at' = "begin" \/ call.total > 0 BY <1>0, <2>1 DEF CallInv
    <2>3. /\ call'.extents = call.extents /\ call'.total = call.total /\ call'.block = call.block
          /\ call'.remaining = call.remaining /\ clusters' = clusters
        BY <1>4 DEF Begin, NextAttempt, GiveUp, ReadFails, ReadFull, ReadTail, MoveFails, Report,
                    MoveDone, OthersChange, EngineTypeOK
    <2>4. /\ move'.vcn = move.vcn /\ move'.index = move.index
          /\ move'.left = move.left /\ move'.moved = move.moved
        BY <1>4 DEF Begin, NextAttempt, GiveUp, ReadFails, ReadFull, ReadTail, MoveFails, Report,
                    MoveDone, OthersChange, EngineTypeOK
    <2> QED BY <1>0, <2>1, <2>2, <2>3, <2>4, CallStays
<1> QED BY <1>1, <1>2, <1>3, <1>4 DEF Next, EngineStep

-----------------------------------------------------------------------------
(* The fragments of the file below a cluster.                              *)

Runs(f, b) == {v \in RunStarts(f) : v < b}

\* The last cluster with storage below b ends where the cluster lcn begins.
Follows(f, b, lcn) ==
    \E u \in 0 .. b - 1 : /\ f[u] # Virtual /\ f[u] + 1 = lcn
                          /\ \A w \in u + 1 .. b - 1 : f[w] = Virtual

LEMMA LastStored ==
    ASSUME NEW f, NEW a \in Nat, NEW b \in Nat, Stored(f, a, b) # {}
    PROVE  \E u \in Stored(f, a, b) :
              /\ \A w \in u + 1 .. b - 1 : f[w] = Virtual
              /\ Cardinality(Stored(f, a, b)) = Cardinality(Stored(f, a, u)) + 1
<1>1. Stored(f, a, b) \in SUBSET Nat /\ IsFiniteSet(Stored(f, a, b))
    <2>1. Stored(f, a, b) \subseteq a .. b - 1 BY DEF Stored
    <2> QED BY <2>1, StoredFinite
<1>2. PICK u \in Stored(f, a, b) : \A w \in Stored(f, a, b) : w <= u BY <1>1, Greatest
<1>3. u \in Nat /\ a <= u /\ u < b /\ f[u] # Virtual BY <1>1 DEF Stored
<1>4. ASSUME NEW w \in u + 1 .. b - 1 PROVE f[w] = Virtual
    <2>1. w \in a .. b - 1 /\ ~(w <= u) BY <1>3
    <2> QED BY <1>2, <2>1 DEF Stored
<1>5. Stored(f, a, b) = Stored(f, a, u + 1)
    <2>1. ASSUME NEW w \in Stored(f, a, b) PROVE w \in a .. (u + 1) - 1
        <3>1. w <= u /\ w \in a .. b - 1 BY <1>2 DEF Stored
        <3> QED BY <1>3, <3>1
    <2>2. a .. (u + 1) - 1 \subseteq a .. b - 1 BY <1>3
    <2> QED BY <2>1, <2>2 DEF Stored
<1>6. Cardinality(Stored(f, a, u + 1)) = Cardinality(Stored(f, a, u)) + 1
    BY <1>3, StoredNext
<1> QED BY <1>4, <1>5, <1>6

LEMMA RunsFinite ==
    ASSUME NEW n \in Nat, NEW f \in [0 .. n - 1 -> Nat \union {Virtual}], NEW b
    PROVE  IsFiniteSet(Runs(f, b)) /\ Cardinality(Runs(f, b)) \in Nat
<1>1. Runs(f, b) \subseteq 0 .. n - 1 BY DEF Runs, RunStarts, Physical
<1>2. IsFiniteSet(0 .. n - 1) BY FS_Interval
<1> QED BY <1>1, <1>2, FS_Subset, FS_CardinalityType

\* A block of n clusters from a on that goes to the clusters from lcn on, one
\* after the other, begins one fragment at most, and none where the block
\* before it ended.
LEMMA BlockRuns ==
    ASSUME NEW L \in Nat, NEW f \in [0 .. L - 1 -> Nat \union {Virtual}],
           NEW g \in [0 .. L - 1 -> Nat \union {Virtual}],
           NEW a \in Nat, NEW n \in Nat, a + n <= L, NEW lcn \in Int,
           \A v \in 0 .. L - 1 :
              /\ g[v] = Virtual <=> f[v] = Virtual
              /\ v \notin a .. (a + n) - 1 => g[v] = f[v]
              /\ v \in a .. (a + n) - 1 /\ f[v] # Virtual
                    => g[v] = lcn + Cardinality(Stored(f, a, v))
    PROVE  /\ Cardinality(Runs(g, a + n)) <= Cardinality(Runs(f, a)) + 1
           /\ Stored(f, a, a + n) # {}
                 => Follows(g, a + n, lcn + Cardinality(Stored(f, a, a + n)))
           /\ Stored(f, a, a + n) = {} => Cardinality(Runs(g, a + n)) <= Cardinality(Runs(f, a))
           /\ Follows(f, a, lcn) =>
                 /\ Cardinality(Runs(g, a + n)) <= Cardinality(Runs(f, a))
                 /\ Follows(g, a + n, lcn + Cardinality(Stored(f, a, a + n)))
<1> DEFINE b == a + n
           New == {v \in RunStarts(g) : a <= v /\ v < b}
<1>1. b \in Nat /\ a <= b /\ b <= L OBVIOUS
<1>2. /\ Physical(f) = {v \in 0 .. L - 1 : f[v] # Virtual}
      /\ Physical(g) = {v \in 0 .. L - 1 : g[v] # Virtual}
      /\ Physical(f) = Physical(g)
    BY DEF Physical
<1>3. /\ \A v \in 0 .. L - 1 : g[v] = Virtual <=> f[v] = Virtual
      /\ \A v \in 0 .. L - 1 : v < a => g[v] = f[v]
      /\ \A v \in a .. b - 1 : f[v] # Virtual => g[v] = lcn + Cardinality(Stored(f, a, v))
    <2>1. \A v \in 0 .. L - 1 : v < a => v \notin a .. (a + n) - 1 OBVIOUS
    <2>2. \A v \in a .. b - 1 : v \in 0 .. L - 1 OBVIOUS
    <2> QED BY <2>1, <2>2
<1> HIDE DEF b
<1>4. Runs(g, a) = Runs(f, a)
    <2>1. ASSUME NEW v \in Physical(f), v < a PROVE v \in RunStarts(f) <=> v \in RunStarts(g)
        <3>1. \A u \in Physical(f) : u < v =>
                 /\ f[v] = f[u] + 1 <=> g[v] = g[u] + 1
                 /\ \A w \in u + 1 .. v - 1 : f[w] = Virtual <=> g[w] = Virtual
            <4>1. v \in 0 .. L - 1 /\ v \in Nat BY <1>2
            <4>2. ASSUME NEW u \in Physical(f), u < v
                  PROVE  /\ u \in 0 .. L - 1 /\ u < a
                         /\ \A w \in u + 1 .. v - 1 : w \in 0 .. L - 1
                <5>1. u \in 0 .. L - 1 BY <1>2
                <5> QED BY <2>1, <4>1, <4>2, <5>1
            <4> QED BY <1>3, <2>1, <4>1, <4>2
        <3> QED BY <1>2, <3>1 DEF RunStarts
    <2> QED BY <1>2, <2>1 DEF Runs, RunStarts
<1>5. ASSUME NEW v \in New PROVE v \in a .. b - 1 /\ f[v] # Virtual /\ Stored(f, a, v) = {}
    <2>1. v \in 0 .. L - 1 /\ g[v] # Virtual /\ v \in a .. b - 1 /\ f[v] # Virtual
        BY <1>1, <1>2, <1>3 DEF RunStarts
    <2>2. ASSUME Stored(f, a, v) # {} PROVE FALSE
        <3>1. PICK u \in Stored(f, a, v) :
                  /\ \A w \in u + 1 .. v - 1 : f[w] = Virtual
                  /\ Cardinality(Stored(f, a, v)) = Cardinality(Stored(f, a, u)) + 1
            BY <2>1, <2>2, LastStored
        <3>2. u \in a .. v - 1 /\ f[u] # Virtual BY DEF Stored
        <3>3. u \in a .. b - 1 /\ u < v /\ u \in Physical(g) BY <1>1, <1>2, <1>3, <2>1, <3>2
        <3>4. Cardinality(Stored(f, a, u)) \in Nat BY <3>2, StoredFinite
        <3>5. g[v] = g[u] + 1
            <4>1. g[v] = lcn + (Cardinality(Stored(f, a, u)) + 1) BY <1>3, <2>1, <3>1
            <4>2. g[u] = lcn + Cardinality(Stored(f, a, u)) BY <1>3, <3>2, <3>3
            <4> QED BY <3>4, <4>1, <4>2
        <3>6. \A w \in u + 1 .. v - 1 : g[w] = Virtual
            <4>1. \A w \in u + 1 .. v - 1 : w \in 0 .. L - 1 BY <2>1, <3>2
            <4> QED BY <1>3, <3>1, <4>1
        <3> QED BY <3>3, <3>5, <3>6 DEF RunStarts
    <2> QED BY <2>1, <2>2
<1>6. Runs(g, b) = Runs(f, a) \union New
    <2>1. \A v \in Physical(g) : v < b <=> v < a \/ (a <= v /\ v < b)
        BY <1>1, <1>2
    <2>2. RunStarts(g) \subseteq Physical(g) BY DEF RunStarts
    <2> QED BY <1>4, <2>1, <2>2 DEF Runs
<1> HIDE DEF New
<1>7. IsFiniteSet(Runs(f, a)) /\ Cardinality(Runs(f, a)) \in Nat BY RunsFinite
<1>8. New = {} \/ \E x : New = {x}
    <2>1. ASSUME NEW x \in New, NEW y \in New PROVE x = y
        <3>1. /\ x \in a .. b - 1 /\ f[x] # Virtual /\ Stored(f, a, x) = {}
              /\ y \in a .. b - 1 /\ f[y] # Virtual /\ Stored(f, a, y) = {}
            BY <1>5
        <3>2. ~(x < y)
            <4>1. x < y => x \in a .. y - 1 BY <1>1, <3>1
            <4> QED BY <3>1, <4>1 DEF Stored
        <3>3. ~(y < x)
            <4>1. y < x => y \in a .. x - 1 BY <1>1, <3>1
            <4> QED BY <3>1, <4>1 DEF Stored
        <3> QED BY <1>1, <3>1, <3>2, <3>3
    <2>2. ASSUME NEW x \in New PROVE New = {x} BY <2>1
    <2> QED BY <2>2, Zenon
<1>9. New = {} => Cardinality(Runs(g, b)) = Cardinality(Runs(f, a)) BY <1>6
<1>10. Cardinality(Runs(g, b)) <= Cardinality(Runs(f, a)) + 1
    <2>1. ASSUME NEW x, New = {x}
          PROVE  Cardinality(Runs(g, b)) <= Cardinality(Runs(f, a)) + 1
        <3>1. Runs(g, b) = Runs(f, a) \union {x} BY <1>6, <2>1
        <3>2. \/ Cardinality(Runs(g, b)) = Cardinality(Runs(f, a))
              \/ Cardinality(Runs(g, b)) = Cardinality(Runs(f, a)) + 1
            BY <1>7, <3>1, FS_AddElement
        <3> QED BY <1>7, <3>2
    <2>2. CASE New = {}
        <3>1. Cardinality(Runs(g, b)) = Cardinality(Runs(f, a)) BY <1>9, <2>2
        <3> QED BY <1>7, <3>1
    <2>3. CASE New # {} BY <1>8, <2>1, <2>3
    <2> QED BY <2>2, <2>3
<1>11. ASSUME Stored(f, a, b) # {}
       PROVE  Follows(g, b, lcn + Cardinality(Stored(f, a, b)))
    <2>1. PICK u \in Stored(f, a, b) :
              /\ \A w \in u + 1 .. b - 1 : f[w] = Virtual
              /\ Cardinality(Stored(f, a, b)) = Cardinality(Stored(f, a, u)) + 1
        BY <1>1, <1>11, LastStored
    <2>2. u \in a .. b - 1 /\ f[u] # Virtual BY DEF Stored
    <2>3. Cardinality(Stored(f, a, u)) \in Nat BY <2>2, StoredFinite
    <2>4. g[u] = lcn + Cardinality(Stored(f, a, u)) BY <1>3, <2>2
    <2>5. g[u] + 1 = lcn + Cardinality(Stored(f, a, b)) BY <2>1, <2>3, <2>4
    <2>6. u \in 0 .. b - 1 /\ g[u] # Virtual BY <1>1, <1>3, <2>2
    <2>7. \A w \in u + 1 .. b - 1 : g[w] = Virtual
        <3>1. \A w \in u + 1 .. b - 1 : w \in 0 .. L - 1 BY <1>1, <2>6
        <3> QED BY <1>3, <2>1, <3>1
    <2> QED BY <2>5, <2>6, <2>7 DEF Follows
<1>12. ASSUME Stored(f, a, b) = {} PROVE New = {}
    <2>1. \A v \in New : v \in Stored(f, a, b) BY <1>5 DEF Stored
    <2> QED BY <1>12, <2>1
<1>13. ASSUME Follows(f, a, lcn)
       PROVE  New = {} /\ Follows(g, b, lcn + Cardinality(Stored(f, a, b)))
    <2>1. PICK u \in 0 .. a - 1 : /\ f[u] # Virtual /\ f[u] + 1 = lcn
                                  /\ \A w \in u + 1 .. a - 1 : f[w] = Virtual
        BY <1>13 DEF Follows
    <2>2. u \in 0 .. L - 1 /\ u < a /\ g[u] = f[u] /\ u \in Physical(g) /\ u \in Nat
        <3>1. u \in 0 .. L - 1 /\ u < a /\ u \in Nat BY <1>1
        <3> QED BY <1>2, <1>3, <2>1, <3>1
    <2>3. ASSUME NEW v \in a .. b, Stored(f, a, v) = {}, NEW w \in u + 1 .. v - 1
          PROVE  g[w] = Virtual
        <3>1. w \in 0 .. L - 1 /\ (w \in u + 1 .. a - 1 \/ w \in a .. v - 1) BY <1>1, <2>2
        <3>2. f[w] = Virtual BY <2>1, <2>3, <3>1 DEF Stored
        <3> QED BY <1>3, <3>1, <3>2
    <2>4. ASSUME NEW v \in New PROVE FALSE
        <3>1. v \in a .. b - 1 /\ f[v] # Virtual /\ Stored(f, a, v) = {} BY <1>5
        <3>2. v \in a .. b /\ u < v BY <1>1, <2>2, <3>1
        <3>3. g[v] = lcn + 0
            <4>1. Cardinality(Stored(f, a, v)) = 0 BY <3>1, FS_EmptySet
            <4> QED BY <1>3, <3>1, <4>1
        <3>4. g[v] = g[u] + 1 BY <2>1, <2>2, <3>3
        <3>5. \A w \in u + 1 .. v - 1 : g[w] = Virtual BY <2>3, <3>1, <3>2
        <3> QED BY <2>2, <3>2, <3>4, <3>5 DEF New, RunStarts
    <2>5. ASSUME Stored(f, a, b) = {}
          PROVE  Follows(g, b, lcn + Cardinality(Stored(f, a, b)))
        <3>1. Cardinality(Stored(f, a, b)) = 0 BY <2>5, FS_EmptySet
        <3>2. b \in a .. b /\ u \in 0 .. b - 1 BY <1>1, <2>2
        <3>3. \A w \in u + 1 .. b - 1 : g[w] = Virtual BY <2>3, <2>5, <3>2
        <3>4. g[u] + 1 = lcn + 0 /\ g[u] # Virtual BY <2>1, <2>2
        <3> QED BY <3>1, <3>2, <3>3, <3>4 DEF Follows
    <2> QED BY <1>11, <2>4, <2>5
<1> QED BY <1>9, <1>10, <1>11, <1>12, <1>13, <1>7 DEF b

-----------------------------------------------------------------------------
(* The engine: fragments and attempts.                                     *)

RunsBelow == Cardinality(Runs(clusters, move.vcn))

\* An attempt that moves a first cluster begins a fragment, and the blocks after
\* it go on where that one ended.
RunsInv ==
    at # "idle" /\ call.skip = 0 =>
        /\ at \in {"begin", "attempt"} => RunsBelow <= call.attempts
        /\ at \in {"full", "tail"} => RunsBelow + 1 <= call.attempts
        /\ at \in {"move", "report"} =>
              \/ RunsBelow + 1 <= call.attempts
              \/ RunsBelow <= call.attempts /\ Follows(clusters, move.vcn, move.lcn)

LEMMA RunsBelowType ==
    ASSUME EngineTypeOK PROVE RunsBelow \in Nat
BY RunsFinite DEF EngineTypeOK, RunsBelow

LEMMA MovedRuns ==
    ASSUME EngineTypeOK, CallInv, RunsInv, MoveBlock PROVE RunsInv'
<1> DEFINE n == Least(call.block, call.remaining)
           p == Passed(call.extents, move.index, move.left, n)
           a == move.vcn
           L == FileLength
           k == Cardinality(Stored(clusters, a, a + n))
<1> SUFFICES ASSUME call.skip = 0
             PROVE  \/ RunsBelow' + 1 <= call.attempts
                    \/ RunsBelow' <= call.attempts /\ Follows(clusters', move'.vcn, move'.lcn)
    <2>1. at' \in {"move", "report"} /\ call'.skip = call.skip /\ call'.attempts = call.attempts
        BY DEF MoveBlock, EngineTypeOK
    <2> QED BY <2>1 DEF RunsInv, RunsBelow
<1>1. /\ n \in Nat \ {0} /\ n <= call.remaining
      /\ clusters' \in [0 .. L - 1 -> Nat \union {Virtual}] /\ call.total = L
      /\ a + call.remaining = L
      /\ \A v \in 0 .. L - 1 :
            /\ clusters'[v] = Virtual <=> clusters[v] = Virtual
            /\ v \notin a .. a + n - 1 => clusters'[v] = clusters[v]
            /\ v \in a .. a + n - 1 /\ clusters[v] # Virtual
                  => clusters'[v] = move.lcn + Cardinality(Stored(clusters, a, v))
      /\ p.physical = k
    BY BlockIs
<1>2. /\ L \in Nat /\ clusters \in [0 .. L - 1 -> Nat \union {Virtual}] /\ a \in Nat
      /\ move.lcn \in Int /\ call.remaining \in Nat /\ call.attempts \in Nat
    BY DEF EngineTypeOK
<1> HIDE DEF n, p, L
<1>3. a + n <= L /\ a + n - 1 = (a + n) - 1 /\ k \in Nat BY <1>1, <1>2, StoredFinite
<1>4. /\ move'.vcn = a + n
      /\ \E gap \in {0, call.skip} : move'.lcn = move.lcn + p.physical + gap
    BY DEF MoveBlock, EngineTypeOK, n, p
<1>5. move'.lcn = move.lcn + k
    <2>1. move'.lcn = move.lcn + k + 0 BY <1>1, <1>4
    <2> QED BY <1>2, <1>3, <2>1
<1>6. /\ RunsBelow = Cardinality(Runs(clusters, a))
      /\ RunsBelow' = Cardinality(Runs(clusters', a + n))
    BY <1>4 DEF RunsBelow
<1> HIDE DEF a
<1> DEFINE g == clusters'
<1>7. /\ g \in [0 .. L - 1 -> Nat \union {Virtual}]
      /\ \A v \in 0 .. L - 1 :
            /\ g[v] = Virtual <=> clusters[v] = Virtual
            /\ v \notin a .. (a + n) - 1 => g[v] = clusters[v]
            /\ v \in a .. (a + n) - 1 /\ clusters[v] # Virtual
                  => g[v] = move.lcn + Cardinality(Stored(clusters, a, v))
    BY <1>1, <1>3
<1>8. n \in Nat BY <1>1
<1> HIDE DEF g
<1>9. /\ Cardinality(Runs(g, a + n)) <= Cardinality(Runs(clusters, a)) + 1
      /\ Stored(clusters, a, a + n) # {} => Follows(g, a + n, move.lcn + k)
      /\ Stored(clusters, a, a + n) = {}
            => Cardinality(Runs(g, a + n)) <= Cardinality(Runs(clusters, a))
      /\ Follows(clusters, a, move.lcn) =>
            /\ Cardinality(Runs(g, a + n)) <= Cardinality(Runs(clusters, a))
            /\ Follows(g, a + n, move.lcn + k)
    BY <1>2, <1>3, <1>7, <1>8, BlockRuns
<1> DEFINE c == Cardinality(Runs(clusters, a))
           d == Cardinality(Runs(g, a + n))
<1>10. c \in Nat /\ d \in Nat BY <1>2, <1>7, RunsFinite
<1>11. \/ c + 1 <= call.attempts
       \/ c <= call.attempts /\ Follows(clusters, a, move.lcn)
    <2>1. at = "move" BY DEF MoveBlock
    <2> QED BY <1>6, <2>1 DEF RunsInv, a
<1> HIDE DEF c, d
<1>12. d + 1 <= call.attempts \/ (d <= call.attempts /\ Follows(g, a + n, move.lcn + k))
    <2>1. CASE Follows(clusters, a, move.lcn)
        <3>1. d <= c /\ Follows(g, a + n, move.lcn + k) BY <1>9, <2>1 DEF c, d
        <3>2. c <= call.attempts BY <1>2, <1>10, <1>11
        <3> QED BY <1>2, <1>10, <3>1, <3>2
    <2>2. CASE ~Follows(clusters, a, move.lcn) /\ Stored(clusters, a, a + n) # {}
        <3>1. d <= c + 1 /\ Follows(g, a + n, move.lcn + k) BY <1>9, <2>2 DEF c, d
        <3>2. c + 1 <= call.attempts BY <1>11, <2>2
        <3> QED BY <1>2, <1>10, <3>1, <3>2
    <2>3. CASE ~Follows(clusters, a, move.lcn) /\ Stored(clusters, a, a + n) = {}
        <3>1. d <= c BY <1>9, <2>3 DEF c, d
        <3>2. c + 1 <= call.attempts BY <1>11, <2>3
        <3> QED BY <1>2, <1>10, <3>1, <3>2
    <2> QED BY <2>1, <2>2, <2>3
<1> QED BY <1>4, <1>5, <1>6, <1>12 DEF d, g, a

LEMMA StepRuns ==
    ASSUME EngineTypeOK, CallInv, RunsInv, Next PROVE RunsInv'
<1>0. /\ RunsBelow \in Nat /\ call.attempts \in Nat /\ move.lcn \in Int /\ call.skip \in Nat
    BY RunsBelowType DEF EngineTypeOK
<1>1. CASE \E status : Return(status) BY <1>1 DEF Return, RunsInv
<1>2. CASE FpDefragmentFileEx
    <2>1. at' = "begin" /\ move'.vcn = 0 /\ call'.attempts = 0 /\ clusters' = clusters
        BY <1>2 DEF FpDefragmentFileEx, NoCall, NoMove
    <2>2. Runs(clusters, 0) = {}
        <3>1. \A v \in RunStarts(clusters) : v \in Nat
            BY DEF EngineTypeOK, RunStarts, Physical
        <3> QED BY <3>1 DEF Runs
    <2>3. RunsBelow' = 0 BY <2>1, <2>2, FS_EmptySet DEF RunsBelow
    <2> QED BY <2>1, <2>3 DEF RunsInv
<1>3. CASE MoveBlock BY <1>3, MovedRuns
<1>4. CASE NextAttempt
    <2>1. /\ at = "attempt" /\ at' \in {"full", "tail"} /\ clusters' = clusters /\ move' = move
          /\ call'.attempts = call.attempts + 1 /\ call'.skip = call.skip
        BY <1>4 DEF NextAttempt, EngineTypeOK
    <2> QED BY <1>0, <2>1 DEF RunsInv, RunsBelow
<1>5. CASE Report /\ ~\E status : Return(status)
    <2>1. /\ at = "report" /\ at' = "move" /\ clusters' = clusters /\ call' = call
          /\ move'.vcn = move.vcn /\ move'.lcn = move.lcn + call.skip
        BY <1>5 DEF Report, EngineTypeOK
    <2>2. call.skip = 0 => move'.lcn = move.lcn BY <1>0, <2>1
    <2> QED BY <2>1, <2>2 DEF RunsInv, RunsBelow
<1>6. CASE ReadTail /\ ~\E status : Return(status)
    <2>1. /\ at = "tail" /\ at' \in {"tail", "move"} /\ clusters' = clusters /\ call' = call
          /\ move'.vcn = move.vcn
        BY <1>6 DEF ReadTail, EngineTypeOK
    <2> QED BY <2>1 DEF RunsInv, RunsBelow
<1>7. CASE /\ ~\E status : Return(status)
           /\ Begin \/ GiveUp \/ ReadFails \/ ReadFull \/ MoveFails \/ MoveDone \/ OthersChange
    <2>1. /\ clusters' = clusters /\ call' = call /\ move' = move
          /\ \/ at = "begin" /\ at' = "attempt"
             \/ at = "full" /\ at' \in {"full", "tail"}
             \/ at = "move" /\ at' = "attempt"
             \/ at' = at
        BY <1>7 DEF Begin, GiveUp, ReadFails, ReadFull, MoveFails, MoveDone, OthersChange
    <2> QED BY <1>0, <2>1 DEF RunsInv, RunsBelow
<1> QED BY <1>1, <1>2, <1>3, <1>4, <1>5, <1>6, <1>7 DEF Next, EngineStep

LEMMA StepFragments ==
    ASSUME EngineTypeOK, CallInv, RunsInv, FewFragments, Next PROVE FewFragments'
<1> SUFFICES ASSUME at' = "idle", result'.status = "ok", result'.skip = 0
             PROVE  Cardinality(RunStarts(clusters')) <= result'.attempts
    BY DEF FewFragments
<1>1. /\ clusters' = clusters /\ result'.skip = call.skip /\ result'.attempts = call.attempts
      /\ \/ at = "begin" /\ call.total = 0
         \/ at = "move" /\ call.remaining = 0
    <2>1. PICK status : Return(status) /\ clusters' = clusters
        BY DEF Next, EngineStep, FpDefragmentFileEx, Begin, NextAttempt, GiveUp, ReadFails,
            ReadFull, ReadTail, MoveBlock, MoveFails, Report, MoveDone, OthersChange
    <2>2. result' = [status |-> status, attempts |-> call.attempts, skip |-> call.skip]
          /\ status = "ok"
        BY <2>1 DEF Return
    <2>3. (Begin /\ call.total = 0) \/ MoveDone
        BY <2>2 DEF Next, EngineStep, FpDefragmentFileEx, Begin, NextAttempt, GiveUp, ReadFails,
            ReadFull, ReadTail, MoveBlock, MoveFails, Report, MoveDone, OthersChange, Return
    <2> QED BY <2>1, <2>2, <2>3 DEF Begin, MoveDone
<1>2. /\ FileLength \in Nat /\ clusters \in [0 .. FileLength - 1 -> Nat \union {Virtual}]
      /\ call.attempts \in Nat /\ move.vcn \in Nat /\ call.total \in Nat
    BY DEF EngineTypeOK
<1>3. RunStarts(clusters) \subseteq 0 .. FileLength - 1 BY <1>2 DEF RunStarts, Physical
<1>4. call.total = FileLength BY <1>1 DEF CallInv
<1>5. CASE at = "begin" /\ call.total = 0
    <2>1. RunStarts(clusters) = {} BY <1>2, <1>3, <1>4, <1>5
    <2>2. Cardinality(RunStarts(clusters)) = 0 BY <2>1, FS_EmptySet
    <2> QED BY <1>1, <1>2, <2>2
<1>6. CASE at = "move" /\ call.remaining = 0
    <2>1. call.total > 0 /\ \E s : Progress(s)
        <3>1. call.total # 0 BY <1>6 DEF CallInv
        <3> QED BY <1>2, <1>6, <3>1 DEF CallInv
    <2>2. move.vcn = FileLength BY <1>2, <1>4, <1>6, <2>1 DEF Progress
    <2>3. Runs(clusters, move.vcn) = RunStarts(clusters) BY <1>2, <1>3, <2>2 DEF Runs
    <2>4. RunsBelow <= call.attempts
        <3>1. RunsBelow \in Nat BY RunsBelowType
        <3>2. RunsBelow + 1 <= call.attempts \/ RunsBelow <= call.attempts
            BY <1>1, <1>6 DEF RunsInv
        <3> QED BY <1>2, <3>1, <3>2
    <2> QED BY <1>1, <2>3, <2>4 DEF RunsBelow
<1> QED BY <1>1, <1>5, <1>6

-----------------------------------------------------------------------------
(* The engine: the search.                                                 *)

\* A search in one map has looked at the whole volume after its first read.
SearchInv ==
    /\ at = "begin" => call.remaining = call.total
    /\ at \in {"attempt", "full", "tail"} => call.remaining > 0
    /\ at \in {"full", "tail"} => search.since <= changes
    /\ at = "full" => Needed(call) >= CountOfBitMap
    /\ at = "tail" /\ Needed(call) < CountOfBitMap => ~search.multi
    /\ at = "tail" /\ OneRead /\ search.since = changes /\ search.lcn # 0 => ~Fits

\* On such a volume the first read decides, and the later ones find nothing.
LEMMA TailReads ==
    ASSUME EngineTypeOK, SearchInv, at = "tail", search.lcn < size,
           OneRead, search.since = changes,
           NEW map, map = GetVolumeBitmap(search.lcn),
           NEW count, count = FpiCalculateBitMapClusterCount(map),
           NEW required, required = Needed(call) % CountOfBitMap,
           NEW offset, offset = LocateTail(map, required)
    PROVE  /\ required = Needed(call)
           /\ offset = -1 => ~Fits
           /\ count < required => ~Fits
           /\ offset # -1 => /\ search.lcn + offset + required - Needed(call) = offset
                             /\ Free(ClusterRange(offset, Needed(call)))
<1> DEFINE n == Needed(call)
<1>1. /\ n \in Nat /\ n > 0 /\ n < CountOfBitMap /\ size <= CountOfBitMap /\ size \in Nat \ {0}
      /\ search.lcn \in Nat /\ CountOfBitMap \in Nat \ {0}
    <2>1. call.remaining \in Nat /\ call.extra \in Nat BY DEF EngineTypeOK
    <2>2. call.remaining > 0 BY DEF SearchInv
    <2>3. n \in Nat /\ n > 0 BY <2>1, <2>2 DEF Needed
    <2> QED BY <2>3, ConstantsAssumption DEF OneRead, EngineTypeOK
<1>2. ~search.multi BY <1>1 DEF SearchInv
<1> HIDE DEF n
<1>3. required = n /\ required \in Nat
    <2>1. n % CountOfBitMap = n BY <1>1, Division
    <2> QED BY <1>1, <2>1 DEF n
<1>4. /\ offset \in Nat \/ offset = -1
      /\ IF offset = -1 THEN \A b \in Nat : ~RtlAreBitsClear(map.bits, count, b, required)
         ELSE RtlAreBitsClear(map.bits, count, offset, required)
    BY <1>2, <1>3, TailIs
<1>5. /\ map.start \in Nat /\ count \in Nat
      /\ search.lcn = 0 => map.start = 0 /\ count = size
    BY <1>1, MapIs
<1>6. ASSUME NEW b \in Nat
      PROVE  /\ RtlAreBitsClear(map.bits, count, b, required)
                   => Free(ClusterRange(map.start + b, required))
             /\ b + required <= count /\ Free(ClusterRange(map.start + b, required))
                   => RtlAreBitsClear(map.bits, count, b, required)
    BY <1>1, <1>3, ClearIsFree
<1>7. ASSUME offset # -1
      PROVE  Free(ClusterRange(map.start + offset, required)) /\ map.start + offset \in 0 .. size - 1
    <2>1. offset \in Nat /\ Free(ClusterRange(map.start + offset, required)) BY <1>4, <1>6, <1>7
    <2>2. map.start + offset \in ClusterRange(map.start + offset, required)
        BY <1>1, <1>3, <1>5, <2>1 DEF ClusterRange
    <2> QED BY <2>1, <2>2 DEF Free
<1>8. CASE search.lcn # 0
    <2>1. ~Fits BY <1>8 DEF SearchInv
    <2>2. offset = -1 BY <1>3, <1>7, <2>1 DEF Fits, n
    <2> QED BY <1>3, <2>1, <2>2 DEF n
<1>9. CASE search.lcn = 0
    <2>1. map.start = 0 /\ count = size BY <1>5, <1>9
    <2>2. ASSUME Fits PROVE offset # -1 /\ ~(count < required)
        <3>1. PICK lcn \in 0 .. size - 1 : Free(ClusterRange(lcn, required))
            BY <1>3, <2>2 DEF Fits, n
        <3>2. lcn + required - 1 \in ClusterRange(lcn, required) BY <1>1, <1>3 DEF ClusterRange
        <3>3. lcn + required - 1 \in 0 .. size - 1 BY <3>1, <3>2 DEF Free
        <3>4. lcn \in Nat /\ lcn + required <= count /\ map.start + lcn = lcn
            BY <1>1, <1>3, <2>1, <3>3
        <3>5. RtlAreBitsClear(map.bits, count, lcn, required) BY <1>6, <3>1, <3>4
        <3> QED BY <1>1, <1>3, <1>4, <2>1, <3>4, <3>5
    <2>3. ASSUME offset # -1
          PROVE  /\ search.lcn + offset + required - Needed(call) = offset
                 /\ Free(ClusterRange(offset, Needed(call)))
        <3>1. offset \in Nat /\ map.start + offset = offset BY <1>4, <2>1, <2>3
        <3>2. search.lcn + offset + n - n = offset BY <1>1, <1>9, <3>1
        <3> QED BY <1>3, <1>7, <2>3, <3>1, <3>2 DEF n
    <2> QED BY <1>3, <2>2, <2>3 DEF n
<1> QED BY <1>8, <1>9

LEMMA FitsStays ==
    ASSUME UNCHANGED <<size, others, clusters>>, call'.remaining = call.remaining,
           call'.extra = call.extra
    PROVE  (Fits' <=> Fits) /\ (OneRead' <=> OneRead) /\ Needed(call)' = Needed(call)
BY DEF Fits, OneRead, Needed, Free, Used, Physical

LEMMA StepSearch ==
    ASSUME EngineTypeOK, CallInv, SearchInv, Next PROVE SearchInv'
<1>0. /\ call.remaining \in Nat /\ call.extra \in Nat /\ call.total \in Nat /\ changes \in Nat
      /\ size \in Nat \ {0} /\ search.lcn \in Nat /\ search.since \in Nat
      /\ CountOfBitMap \in Nat \ {0} /\ call.attempts \in Nat
    BY ConstantsAssumption DEF EngineTypeOK
<1>1. CASE \E status : Return(status) BY <1>1 DEF Return, SearchInv
<1>2. CASE FpDefragmentFileEx BY <1>2 DEF FpDefragmentFileEx, SearchInv
<1>3. CASE MoveBlock BY <1>3 DEF MoveBlock, SearchInv
<1>4. CASE Report BY <1>4 DEF Report, SearchInv, Return
<1>5. CASE Begin /\ ~\E status : Return(status)
    <2>1. at = "begin" /\ at' = "attempt" /\ call' = call /\ call.total > 0
        BY <1>5 DEF Begin
    <2>3. call.remaining > 0 BY <1>0, <2>1 DEF SearchInv
    <2> QED BY <2>1, <2>3 DEF SearchInv
<1>6. CASE NextAttempt
    <2> DEFINE k == Needed(call)'
               blocks == k \div CountOfBitMap
    <2>1. EngineTypeOK' BY StepTypes
    <2>2. k \in Nat /\ call'.remaining = call.remaining /\ at = "attempt"
        <3>1. call'.remaining \in Nat /\ call'.extra \in Nat BY <2>1 DEF EngineTypeOK
        <3>2. k \in Nat BY <3>1 DEF Needed
        <3> QED BY <1>6, <3>2 DEF NextAttempt, EngineTypeOK
    <2>3. /\ at' = (IF blocks > 0 THEN "full" ELSE "tail")
          /\ search'.multi = (blocks > 0) /\ search'.since = changes /\ search'.lcn = 0
          /\ changes' = changes
        BY <1>6 DEF NextAttempt, NoSearch, volumeVars
    <2> HIDE DEF k
    <2>4. blocks \in Nat /\ (blocks > 0 => k >= CountOfBitMap) BY <1>0, <2>2, Division
    <2> HIDE DEF blocks
    <2>5. call'.remaining > 0 BY <2>2 DEF SearchInv
    <2>6. CASE blocks > 0
        <3>1. at' = "full" /\ Needed(call)' >= CountOfBitMap BY <2>3, <2>4, <2>6 DEF k
        <3> QED BY <1>0, <2>3, <2>5, <3>1 DEF SearchInv
    <2>7. CASE ~(blocks > 0)
        <3>1. at' = "tail" /\ ~search'.multi BY <2>3, <2>7
        <3> QED BY <1>0, <2>3, <2>5, <3>1 DEF SearchInv
    <2> QED BY <2>6, <2>7
<1>7. CASE ReadFull /\ ~\E status : Return(status)
    <2>1. /\ at = "full" /\ at' \in {"full", "tail"} /\ call' = call /\ changes' = changes
          /\ search'.since = search.since
        BY <1>7 DEF ReadFull, volumeVars, EngineTypeOK
    <2>2. Needed(call)' = Needed(call) /\ ~(Needed(call) < CountOfBitMap)
        <3>1. Needed(call) \in Nat BY <1>0 DEF Needed
        <3> QED BY <1>0, <2>1, <3>1 DEF SearchInv, Needed
    <2>3. ~OneRead' BY <2>2 DEF OneRead
    <2> QED BY <1>0, <2>1, <2>2, <2>3 DEF SearchInv
<1>8. CASE ReadTail /\ ~\E status : Return(status)
    <2>1. /\ at = "tail" /\ at' \in {"tail", "move"} /\ search.lcn < size
          /\ UNCHANGED <<volumeVars, clusters, call>>
          /\ search'.since = search.since /\ search'.multi = search.multi
        BY <1>8 DEF ReadTail, EngineTypeOK
    <2>2. (Fits' <=> Fits) /\ (OneRead' <=> OneRead) /\ Needed(call)' = Needed(call)
        BY <2>1, FitsStays DEF volumeVars
    <2>3. ASSUME at' = "tail", OneRead, search.since = changes PROVE ~Fits
        <3> DEFINE map == GetVolumeBitmap(search.lcn)
                   required == Needed(call) % CountOfBitMap
                   offset == LocateTail(map, required)
        <3>1. offset = -1 BY <1>8, <2>3 DEF ReadTail
        <3> HIDE DEF map, required, offset
        <3> QED BY <2>1, <2>3, <3>1, TailReads DEF map, required, offset
    <2> QED BY <1>0, <2>1, <2>2, <2>3 DEF SearchInv, volumeVars
<1>9. CASE MoveFails
    <2>1. at' = "attempt" /\ call' = call /\ call.remaining > 0 BY <1>9 DEF MoveFails
    <2> QED BY <2>1 DEF SearchInv
<1>10. CASE OthersChange
    <2>1. /\ at' = at /\ call' = call /\ search' = search /\ changes' = changes + 1
        BY <1>10 DEF OthersChange
    <2>2. at \in {"full", "tail"} => search'.since <= changes' /\ search'.since # changes'
        BY <1>0, <2>1 DEF SearchInv
    <2>3. Needed(call)' = Needed(call) BY <2>1 DEF Needed
    <2> QED BY <2>1, <2>2, <2>3 DEF SearchInv
<1> QED BY <1>1, <1>2, <1>3, <1>4, <1>5, <1>6, <1>7, <1>8, <1>9, <1>10
        DEF Next, EngineStep, GiveUp, ReadFails, MoveDone

-----------------------------------------------------------------------------
(* The engine: theorems.                                                   *)

\* The invariant of the engine; FewFragments is a part of it, since the attempts of
\* a call are gone when it has returned.
EngineInv ==
    EngineTypeOK /\ CallInv /\ RunsInv /\ SearchInv /\ FewFragments

LEMMA EngineInvInit ==
    Init => EngineInv
<1> SUFFICES ASSUME Init PROVE EngineInv OBVIOUS
<1>1. EngineTypeOK /\ CallInv BY EngineInit
<1>2. at = "idle" /\ result = [status |-> "none"] BY DEF Init
<1> QED BY <1>1, <1>2 DEF EngineInv, RunsInv, SearchInv, FewFragments

LEMMA EngineInvNext ==
    EngineInv /\ [Next]_vars => EngineInv'
<1> SUFFICES ASSUME EngineInv, [Next]_vars PROVE EngineInv' OBVIOUS
<1>1. CASE Next
    BY <1>1, StepTypes, StepProgress, StepRuns, StepSearch, StepFragments DEF EngineInv
<1>2. CASE UNCHANGED vars
    <2>1. EngineTypeOK' BY <1>2 DEF EngineInv, EngineTypeOK, FileLength, vars, volumeVars
    <2>2. CallInv'
        <3>1. \A s : Progress(s) => Progress(s)' BY <1>2 DEF Progress, vars
        <3>2. (\E s : Progress(s)) => \E s : Progress(s)' BY <3>1
        <3> QED BY <1>2, <3>2 DEF EngineInv, CallInv, FileLength, vars
    <2>3. RunsInv' BY <1>2 DEF EngineInv, RunsInv, RunsBelow, vars
    <2>4. SearchInv'
        <3>1. (Fits' <=> Fits) /\ (OneRead' <=> OneRead) /\ Needed(call)' = Needed(call)
            BY <1>2, FitsStays DEF vars, volumeVars
        <3> QED BY <1>2, <3>1 DEF EngineInv, SearchInv, vars, volumeVars
    <2>5. FewFragments' BY <1>2 DEF EngineInv, FewFragments, vars
    <2> QED BY <2>1, <2>2, <2>3, <2>4, <2>5 DEF EngineInv
<1> QED BY <1>1, <1>2

\* What FpDefragmentFileEx and the search it calls keep true, together, at every
\* call of the system: types, progress, fragments, search.
THEOREM EngineInvariant ==
    Spec => []EngineInv
BY EngineInvInit, EngineInvNext, PTL DEF Spec

LEMMA ProgressShown ==
    EngineInv => ProgressExact
<1> SUFFICES ASSUME EngineInv, call.extents # <<>>
             PROVE  /\ move.moved = Cardinality({v \in Physical(clusters) : v < move.vcn})
                    /\ move.vcn + call.remaining = call.total
                    /\ \A v \in move.vcn .. call.total - 1 : clusters[v] = OriginalLcn(v)
    BY DEF ProgressExact
<1>1. EngineTypeOK /\ CallInv BY DEF EngineInv
<1>2. /\ FileLength \in Nat /\ clusters \in [0 .. FileLength - 1 -> Nat \union {Virtual}]
      /\ call.total \in Nat /\ call.remaining \in Nat /\ move.vcn \in Nat
    BY <1>1 DEF EngineTypeOK
<1>3. at # "idle" /\ call.total > 0 /\ call.total = FileLength
    <2>1. at # "idle" BY <1>1 DEF CallInv, NoCall
    <2> QED BY <1>1, <1>2, <2>1 DEF CallInv
<1>4. PICK s : Progress(s) BY <1>1, <1>3 DEF CallInv
<1>5. /\ Extents(call.extents, s, call.total)
      /\ move.vcn + call.remaining = call.total
      /\ move.moved = Cardinality(Stored(clusters, 0, move.vcn))
      /\ \A i \in 1 .. Len(call.extents) : \A v \in Clusters(s, i) :
            v >= move.vcn => clusters[v] = In(call.extents, s, i, v)
    BY <1>4 DEF Progress
<1>6. Stored(clusters, 0, move.vcn) = {v \in Physical(clusters) : v < move.vcn}
    <2>1. Physical(clusters) = {v \in 0 .. FileLength - 1 : clusters[v] # Virtual}
        BY <1>2 DEF Physical
    <2>2. move.vcn <= FileLength BY <1>2, <1>3, <1>5
    <2>3. \A v : v \in 0 .. move.vcn - 1 <=> v \in 0 .. FileLength - 1 /\ v < move.vcn
        BY <1>2, <2>2
    <2> QED BY <2>1, <2>3 DEF Stored
<1>7. ASSUME NEW v \in move.vcn .. call.total - 1 PROVE clusters[v] = OriginalLcn(v)
    <2>1. v \in 0 .. call.total - 1 /\ v >= move.vcn BY <1>2
    <2>2. PICK i \in 1 .. Len(call.extents) : v \in Clusters(s, i) BY <1>2, <1>5, <2>1, OneExtent
    <2>3. OriginalLcn(v) = In(call.extents, s, i, v) BY <1>2, <1>5, <2>2, OriginalIs
    <2> QED BY <1>5, <2>1, <2>2, <2>3
<1> QED BY <1>5, <1>6, <1>7

\* FpDefragmentFileEx: its counters agree with the file after every block, however
\* blocks and extents overlap, and what it has not come to is where it was.
THEOREM BlocksAccounted ==
    Spec => []ProgressExact
BY EngineInvariant, ProgressShown, PTL

\* FpDefragmentFileEx: a file moved without gaps has at most one fragment for each
\* attempt, for any file, any extent data and any failures of moves.
THEOREM AttemptsBoundFragments ==
    Spec => []FewFragments
<1>1. EngineInv => FewFragments BY DEF EngineInv
<1> QED BY <1>1, EngineInvariant, PTL

LEMMA SearchStep ==
    ASSUME EngineInv, [Next]_vars, at = "tail", at' # "tail", search.since = changes, OneRead
    PROVE  IF at' = "move" THEN Free(ClusterRange(move'.lcn, Needed(call))) ELSE ~Fits
<1>0. EngineTypeOK /\ SearchInv BY DEF EngineInv
<1>1. ReadFails \/ ReadTail
    BY DEF vars, Next, EngineStep, FpDefragmentFileEx, Begin, NextAttempt, GiveUp, ReadFull,
        MoveBlock, MoveFails, Report, MoveDone, OthersChange
<1>2. CASE ReadFails
    <2>1. search.lcn >= size /\ size \in Nat \ {0} BY <1>0, <1>2 DEF ReadFails, EngineTypeOK
    <2>2. search.lcn # 0 BY <2>1
    <2>3. ~Fits BY <1>0, <2>2 DEF SearchInv
    <2>4. at' = "idle" BY <1>2 DEF ReadFails, Return
    <2> QED BY <2>3, <2>4
<1>3. CASE ReadTail
    <2> DEFINE map == GetVolumeBitmap(search.lcn)
               count == FpiCalculateBitMapClusterCount(map)
               required == Needed(call) % CountOfBitMap
               offset == LocateTail(map, required)
    <2>1. /\ search.lcn < size
          /\ \/ count < required /\ at' = "idle"
             \/ /\ offset # -1 /\ at' = "move"
                /\ move'.lcn = search.lcn + offset + required - Needed(call)
        BY <1>0, <1>3 DEF ReadTail, Return, EngineTypeOK
    <2>2. /\ count < required => ~Fits
          /\ offset # -1 => /\ search.lcn + offset + required - Needed(call) = offset
                            /\ Free(ClusterRange(offset, Needed(call)))
        <3> HIDE DEF map, count, required, offset
        <3>1. search.lcn < size BY <2>1
        <3> QED BY <1>0, <3>1, TailReads DEF map, count, required, offset
    <2> QED BY <2>1, <2>2
<1> QED BY <1>1, <1>2, <1>3

\* FpiLocateFreeClusterRange: on a volume that one read of the bitmap shows, and
\* that is left alone, it finds a free range whenever there is one.
THEOREM SearchDecides ==
    Spec => SearchExact
<1>1. EngineInv /\ [Next]_vars =>
         [at = "tail" /\ at' # "tail" /\ search.since = changes /\ OneRead =>
             IF at' = "move" THEN Free(ClusterRange(move'.lcn, Needed(call))) ELSE ~Fits]_vars
    BY SearchStep
<1> QED BY <1>1, EngineInvariant, PTL DEF Spec, SearchExact

-----------------------------------------------------------------------------
(* What a fragment context says of a file.                                 *)

LEMMA StartsOrder ==
    ASSUME NEW x, NEW s, NEW n, Extents(x, s, n),
           NEW i \in 1 .. Len(x) + 1, NEW j \in 1 .. Len(x) + 1
    PROVE  (i < j <=> s[i] < s[j]) /\ (i <= j <=> s[i] <= s[j])
<1>1. Len(x) \in Nat /\ s[i] \in Nat /\ s[j] \in Nat BY DEF Extents
<1>2. (i < j => s[i] < s[j]) /\ (j < i => s[j] < s[i]) BY StartsGrow
<1> QED BY <1>1, <1>2

\* The first cluster of extent i, and the last.
LEMMA EndsShown ==
    ASSUME NEW x, NEW s, NEW n \in Nat, Extents(x, s, n), NEW f, Shows(x, s, f),
           NEW i \in 1 .. Len(x)
    PROVE  /\ s[i] \in Clusters(s, i) /\ s[i + 1] - 1 \in Clusters(s, i)
           /\ s[i] \in Nat /\ s[i + 1] \in Nat /\ s[i] < s[i + 1] /\ s[i + 1] <= n
           /\ f[s[i]] = x[i].lcn
           /\ x[i].lcn # Virtual => f[s[i + 1] - 1] = x[i].lcn + x[i].count - 1
<1>1. /\ Len(x) \in Nat /\ s[i] \in Nat /\ s[i + 1] \in Nat /\ s[i + 1] = s[i] + x[i].count
      /\ x[i].lcn \in Nat \union {Virtual} /\ x[i].count \in Nat \ {0} /\ s[Len(x) + 1] = n
    <2>1. i + 1 \in 1 .. Len(x) + 1 BY DEF Extents
    <2> QED BY <2>1 DEF Extents
<1>2. s[i + 1] <= n
    <2>1. i + 1 \in 1 .. Len(x) + 1 /\ Len(x) + 1 \in 1 .. Len(x) + 1 /\ i + 1 <= Len(x) + 1
        BY <1>1
    <2> QED BY <1>1, <2>1, StartsOrder
<1>3. \A v \in Clusters(s, i) : f[v] = In(x, s, i, v) BY DEF Shows
<1>4. s[i] \in Clusters(s, i) /\ s[i + 1] - 1 \in Clusters(s, i) BY <1>1 DEF Clusters
<1>5. f[s[i]] = x[i].lcn
    <2>1. f[s[i]] = In(x, s, i, s[i]) BY <1>3, <1>4
    <2>2. x[i].lcn # Virtual => x[i].lcn + s[i] - s[i] = x[i].lcn BY <1>1
    <2> QED BY <2>1, <2>2 DEF In
<1>6. x[i].lcn # Virtual => f[s[i + 1] - 1] = x[i].lcn + x[i].count - 1
    <2>1. f[s[i + 1] - 1] = In(x, s, i, s[i + 1] - 1) BY <1>3, <1>4
    <2>2. x[i].lcn # Virtual =>
             x[i].lcn + (s[i + 1] - 1) - s[i] = x[i].lcn + x[i].count - 1 BY <1>1
    <2> QED BY <2>1, <2>2 DEF In
<1> QED BY <1>1, <1>2, <1>4, <1>5, <1>6

\* The clusters of an extent have storage or not, and follow each other.
LEMMA InsideShown ==
    ASSUME NEW x, NEW s, NEW n \in Nat, Extents(x, s, n), NEW f, Shows(x, s, f),
           NEW i \in 1 .. Len(x), NEW v \in Clusters(s, i)
    PROVE  /\ f[v] = Virtual <=> x[i].lcn = Virtual
           /\ v > s[i] /\ x[i].lcn # Virtual => f[v] = f[v - 1] + 1
<1>1. s[i] \in Nat /\ s[i + 1] \in Nat /\ x[i].lcn \in Nat \union {Virtual}
    BY EndsShown DEF Extents
<1>2. \A w \in Clusters(s, i) : f[w] = In(x, s, i, w) BY DEF Shows
<1>3. v \in Int /\ s[i] <= v /\ v < s[i + 1] BY <1>1 DEF Clusters
<1>4. x[i].lcn # Virtual => x[i].lcn \in Nat /\ x[i].lcn + v - s[i] \in Nat BY <1>1, <1>3
<1>5. f[v] = Virtual <=> x[i].lcn = Virtual BY <1>2, <1>4, VirtualAssumption DEF In
<1>6. ASSUME v > s[i], x[i].lcn # Virtual PROVE f[v] = f[v - 1] + 1
    <2>1. v - 1 \in Clusters(s, i) BY <1>1, <1>3, <1>6 DEF Clusters
    <2>2. f[v] = x[i].lcn + v - s[i] /\ f[v - 1] = x[i].lcn + (v - 1) - s[i]
        BY <1>2, <1>6, <2>1 DEF In
    <2>3. x[i].lcn \in Nat /\ s[i] \in Nat /\ v \in Int BY <1>1, <1>3, <1>6
    <2> QED BY <2>2, <2>3
<1> QED BY <1>5, <1>6

\* Cluster v goes on where the last one with storage before it ended.
GoesOn(f, v) ==
    \E u \in Physical(f) : /\ u < v /\ f[v] = f[u] + 1
                           /\ \A w \in u + 1 .. v - 1 : f[w] = Virtual

\* Adjacent says of extents what GoesOn says of their first clusters.
LEMMA AdjacentIs ==
    ASSUME NEW n \in Nat, NEW f \in [0 .. n - 1 -> Nat \union {Virtual}],
           NEW x, NEW s, Extents(x, s, n), Shows(x, s, f),
           NEW k \in 1 .. Len(x), x[k].lcn # Virtual
    PROVE  Adjacent(x, k) <=> GoesOn(f, s[k])
<1>1. /\ Len(x) \in Nat \ {0} /\ k \in 1 .. Len(x) + 1 /\ s[k] \in Nat /\ s[k] < n
      /\ f[s[k]] = x[k].lcn /\ x[k].lcn \in Nat
    <2>1. Len(x) \in Nat \ {0} /\ x[k].lcn \in Nat \union {Virtual} BY DEF Extents
    <2>2. s[k] \in Nat /\ s[k + 1] \in Nat /\ s[k] < s[k + 1] /\ s[k + 1] <= n /\ f[s[k]] = x[k].lcn
        BY EndsShown
    <2> QED BY <2>1, <2>2
<1>2. ASSUME Adjacent(x, k) PROVE GoesOn(f, s[k])
    <2>1. PICK j \in 1 .. k - 1 :
              /\ x[j].lcn # Virtual /\ x[j].lcn + x[j].count = x[k].lcn
              /\ \A i \in j + 1 .. k - 1 : x[i].lcn = Virtual
        BY <1>2 DEF Adjacent, IsCompressionFragment
    <2>2. j \in 1 .. Len(x) /\ j + 1 \in 1 .. Len(x) + 1 /\ j + 1 <= k BY <1>1
    <2> DEFINE u == s[j + 1] - 1
    <2>3. /\ s[j] \in Nat /\ s[j + 1] \in Nat /\ s[j] < s[j + 1] /\ s[j + 1] <= n
          /\ f[u] = x[j].lcn + x[j].count - 1 /\ u \in Clusters(s, j)
        BY <2>1, <2>2, EndsShown
    <2>4. s[j + 1] <= s[k] BY <1>1, <2>2, StartsOrder
    <2>5. x[j].lcn \in Nat /\ x[j].count \in Nat
        BY <2>1, <2>2 DEF Extents
    <2>6. f[s[k]] = f[u] + 1
        <3> HIDE DEF u
        <3>1. f[u] = x[j].lcn + x[j].count - 1 /\ f[s[k]] = x[j].lcn + x[j].count
            BY <1>1, <2>1, <2>3
        <3> QED BY <2>5, <3>1
    <2>7. u \in Physical(f)
        <3>1. u \in 0 .. n - 1 BY <2>3
        <3>2. f[u] # Virtual BY <2>1, <2>2, <2>3, InsideShown
        <3> QED BY <3>1, <3>2 DEF Physical
    <2>8. ASSUME NEW w \in u + 1 .. s[k] - 1 PROVE f[w] = Virtual
        <3>1. w \in 0 .. n - 1 /\ s[j + 1] <= w /\ w < s[k] BY <1>1, <2>3
        <3>2. PICK i \in 1 .. Len(x) : w \in Clusters(s, i) BY <3>1, OneExtent
        <3>3. i \in 1 .. Len(x) + 1 /\ i + 1 \in 1 .. Len(x) + 1 BY <1>1
        <3>4. s[i] \in Nat /\ s[i + 1] \in Nat BY EndsShown
        <3>5. s[i] <= w /\ w < s[i + 1] BY <3>2, <3>4 DEF Clusters
        <3>6. s[i] < s[k] /\ s[j + 1] < s[i + 1]
            <4>1. w \in Int /\ s[k] \in Nat /\ s[j + 1] \in Nat BY <1>1, <2>3, <3>1
            <4> HIDE DEF u
            <4> QED BY <3>1, <3>4, <3>5, <4>1
        <3>7. i < k /\ j + 1 < i + 1 BY <1>1, <2>2, <3>3, <3>6, StartsOrder
        <3>8. i \in j + 1 .. k - 1 BY <2>2, <3>7
        <3> QED BY <2>1, <3>2, <3>8, InsideShown
    <2>9. u < s[k] BY <1>1, <2>3, <2>4
    <2> QED BY <2>6, <2>7, <2>8, <2>9 DEF GoesOn
<1>3. ASSUME GoesOn(f, s[k]) PROVE Adjacent(x, k)
    <2>1. PICK u \in Physical(f) : /\ u < s[k] /\ f[s[k]] = f[u] + 1
                                   /\ \A w \in u + 1 .. s[k] - 1 : f[w] = Virtual
        BY <1>3 DEF GoesOn
    <2>2. u \in 0 .. n - 1 /\ f[u] # Virtual BY DEF Physical
    <2>3. PICK j \in 1 .. Len(x) : u \in Clusters(s, j) BY <2>2, OneExtent
    <2>4. /\ s[j] \in Nat /\ s[j + 1] \in Nat /\ s[j] <= u /\ u < s[j + 1]
          /\ s[j + 1] <= n /\ x[j].lcn # Virtual
        <3>1. s[j] \in Nat /\ s[j + 1] \in Nat /\ s[j + 1] <= n BY EndsShown
        <3>2. x[j].lcn # Virtual BY <2>2, <2>3, InsideShown
        <3> QED BY <2>3, <3>1, <3>2 DEF Clusters
    <2>5. j \in 1 .. k - 1 /\ j + 1 \in 1 .. Len(x) + 1 /\ s[j + 1] <= s[k]
        <3>1. j \in 1 .. Len(x) + 1 /\ j + 1 \in 1 .. Len(x) + 1 BY <1>1
        <3>2. s[j] < s[k] BY <1>1, <2>1, <2>2, <2>4
        <3>3. j < k BY <1>1, <3>1, <3>2, StartsOrder
        <3>4. j + 1 <= k BY <3>3
        <3>5. s[j + 1] <= s[k] BY <1>1, <3>1, <3>4, StartsOrder
        <3> QED BY <3>1, <3>3, <3>5
    <2>6. u = s[j + 1] - 1
        <3> SUFFICES ASSUME u + 1 < s[j + 1] PROVE FALSE BY <2>2, <2>4
        <3>1. u + 1 \in u + 1 .. s[k] - 1 /\ u + 1 \in Clusters(s, j)
            BY <1>1, <2>2, <2>4, <2>5 DEF Clusters
        <3>2. f[u + 1] = Virtual BY <2>1, <3>1
        <3> QED BY <2>4, <3>1, <3>2, InsideShown
    <2>7. x[j].lcn + x[j].count = x[k].lcn
        <3>1. f[u] = x[j].lcn + x[j].count - 1 BY <2>4, <2>6, EndsShown
        <3>2. x[j].lcn \in Nat /\ x[j].count \in Nat BY <2>4 DEF Extents
        <3> QED BY <1>1, <2>1, <3>1, <3>2
    <2>8. ASSUME NEW i \in j + 1 .. k - 1 PROVE x[i].lcn = Virtual
        <3>1. i \in 1 .. Len(x) /\ i \in 1 .. Len(x) + 1 /\ j + 1 <= i /\ i < k BY <1>1
        <3>2. s[j + 1] <= s[i] /\ s[i] < s[k] BY <1>1, <2>5, <3>1, StartsOrder
        <3>3. s[i] \in Nat /\ f[s[i]] = x[i].lcn BY <3>1, EndsShown
        <3>4. s[i] \in u + 1 .. s[k] - 1 BY <1>1, <2>4, <2>6, <3>2, <3>3
        <3> QED BY <2>1, <3>3, <3>4
    <2> QED BY <2>4, <2>5, <2>7, <2>8 DEF Adjacent, IsCompressionFragment
<1> QED BY <1>2, <1>3

\* The fragments that the engine finds are those of the file.
LEMMA FragmentsAre ==
    ASSUME NEW n \in Nat, NEW f \in [0 .. n - 1 -> Nat \union {Virtual}],
           NEW x, NEW s, Extents(x, s, n), Shows(x, s, f)
    PROVE  /\ Cardinality(FragmentStarts(x)) \in Nat
           /\ Cardinality(RunStarts(f)) = Cardinality(FragmentStarts(x))
           /\ \A i \in 1 .. Cardinality(FragmentStarts(x)) :
                 /\ Nth(FragmentStarts(x), i) \in FragmentStarts(x)
                 /\ f[Nth(RunStarts(f), i)] = x[Nth(FragmentStarts(x), i)].lcn
<1> DEFINE S == FragmentStarts(x)
           T == RunStarts(f)
<1>1. Len(x) \in Nat /\ S \in SUBSET Nat /\ S \subseteq 1 .. Len(x) /\ T \in SUBSET Nat
    <2>1. Len(x) \in Nat BY DEF Extents
    <2>2. \A i \in 1 .. Len(x) : i \in Nat BY <2>1
    <2>3. S \subseteq 1 .. Len(x) BY DEF FragmentStarts
    <2>4. \A v \in 0 .. n - 1 : v \in Nat OBVIOUS
    <2>5. T \subseteq 0 .. n - 1 BY DEF RunStarts, Physical
    <2> QED BY <2>1, <2>2, <2>3, <2>4, <2>5
<1>2. IsFiniteSet(S)
    <2>1. IsFiniteSet(1 .. Len(x)) BY <1>1, FS_Interval
    <2> HIDE DEF S
    <2> QED BY <1>1, <2>1, FS_Subset
<1>3. ASSUME NEW k \in 1 .. Len(x) PROVE f[s[k]] = x[k].lcn /\ s[k] \in 0 .. n - 1
    <2>1. s[k] \in Nat /\ s[k + 1] \in Nat /\ s[k] < s[k + 1] /\ s[k + 1] <= n /\ f[s[k]] = x[k].lcn
        BY EndsShown
    <2> QED BY <2>1
<1>4. ASSUME NEW k \in S PROVE s[k] \in T
    <2>1. k \in 1 .. Len(x) /\ x[k].lcn # Virtual /\ ~Adjacent(x, k)
        BY DEF FragmentStarts, IsCompressionFragment
    <2>2. s[k] \in Physical(f) BY <1>3, <2>1 DEF Physical
    <2>3. ~GoesOn(f, s[k]) BY <2>1, AdjacentIs
    <2> QED BY <2>2, <2>3 DEF RunStarts, GoesOn
<1>5. ASSUME NEW v \in T PROVE \E k \in S : s[k] = v
    <2>1. v \in 0 .. n - 1 /\ f[v] # Virtual /\ ~GoesOn(f, v) BY DEF RunStarts, Physical, GoesOn
    <2>2. PICK k \in 1 .. Len(x) : v \in Clusters(s, k) BY <2>1, OneExtent
    <2>3. x[k].lcn # Virtual BY <2>1, <2>2, InsideShown
    <2>4. s[k] \in Nat /\ s[k] <= v
        <3>1. s[k] \in Nat /\ s[k + 1] \in Nat BY EndsShown
        <3> QED BY <2>2, <3>1 DEF Clusters
    <2>5. s[k] = v
        <3> SUFFICES ASSUME v > s[k] PROVE FALSE BY <2>1, <2>4
        <3>1. f[v] = f[v - 1] + 1 BY <2>2, <2>3, InsideShown
        <3>2. v - 1 \in Clusters(s, k)
            <4>1. s[k + 1] \in Nat BY EndsShown
            <4> QED BY <2>1, <2>2, <2>4, <4>1 DEF Clusters
        <3>3. v - 1 \in 0 .. n - 1 /\ v - 1 < v /\ (v - 1) + 1 .. v - 1 = {} BY <2>1, <2>4
        <3>4. f[v - 1] # Virtual BY <2>3, <3>2, InsideShown
        <3>5. v - 1 \in Physical(f) BY <3>3, <3>4 DEF Physical
        <3>6. \A w \in (v - 1) + 1 .. v - 1 : f[w] = Virtual BY <3>3
        <3>7. GoesOn(f, v) BY <3>1, <3>3, <3>5, <3>6 DEF GoesOn
        <3> QED BY <2>1, <3>7
    <2>6. ~Adjacent(x, k) BY <2>1, <2>3, <2>5, AdjacentIs
    <2> QED BY <2>3, <2>5, <2>6 DEF FragmentStarts, IsCompressionFragment
<1>6. ASSUME NEW k \in S, NEW l \in S, k < l PROVE s[k] < s[l]
    <2>1. k \in 1 .. Len(x) + 1 /\ l \in 1 .. Len(x) + 1 BY <1>1
    <2> QED BY <1>6, <2>1, StartsOrder
<1> HIDE DEF S, T
<1>7. /\ Cardinality(T) = Cardinality(S)
      /\ \A i \in 1 .. Cardinality(S) : Nth(T, i) = s[Nth(S, i)]
    BY <1>1, <1>2, <1>4, <1>5, <1>6, NthImage
<1>8. Cardinality(S) \in Nat BY <1>2, FS_CardinalityType
<1>9. ASSUME NEW i \in 1 .. Cardinality(S) PROVE Nth(S, i) \in S /\ f[Nth(T, i)] = x[Nth(S, i)].lcn
    <2>1. Nth(S, i) \in S BY <1>1, <1>2, NthIs
    <2> QED BY <1>1, <1>3, <1>7, <2>1
<1> QED BY <1>7, <1>8, <1>9 DEF S, T

\* Fragment i of the list of extents of a file that has clusters.
LEMMA RawIs ==
    ASSUME NEW x, NEW s, NEW n \in Nat, Extents(x, s, n), NEW f, Shows(x, s, f),
           NEW ctx, ctx.file = f,
           ctx.fragments = [i \in 1 .. Len(x) |->
                               [lcn |-> x[i].lcn, extents |-> 1, count |-> x[i].count]],
           NEW i \in 1 .. Len(x)
    PROVE  IsExtent(ctx.fragments[i], ctx, i)
<1>1. /\ Len(x) \in Nat /\ s[1] = 0 /\ \A k \in 1 .. Len(x) : s[k + 1] = s[k] + x[k].count
      /\ \A k \in 1 .. Len(x) + 1 : s[k] \in Nat
    BY DEF Extents
<1>2. \A k \in 1 .. Len(x) : ctx.fragments[k].lcn = x[k].lcn /\ ctx.fragments[k].count = x[k].count
    OBVIOUS
<1> DEFINE IsStart(b) == b = [k \in 1 .. i |-> IF k = 1 THEN 0 ELSE b[k - 1] + ctx.fragments[k - 1].count]
           start == CHOOSE b : IsStart(b)
<1>3. IsStart([k \in 1 .. i |-> s[k]])
    <2> DEFINE b == [k \in 1 .. i |-> s[k]]
    <2>1. ASSUME NEW k \in 1 .. i
          PROVE  s[k] = IF k = 1 THEN 0 ELSE b[k - 1] + ctx.fragments[k - 1].count
        <3>1. CASE k = 1 BY <1>1, <3>1
        <3>2. CASE k # 1
            <4>1. k - 1 \in 1 .. i /\ k - 1 \in 1 .. Len(x) /\ (k - 1) + 1 = k BY <1>1, <3>2
            <4>2. s[k] = s[k - 1] + x[k - 1].count BY <1>1, <4>1
            <4> QED BY <1>2, <3>2, <4>1, <4>2
        <3> QED BY <3>1, <3>2
    <2> QED BY <2>1
<1>4. IsStart(start) BY <1>3
<1>5. start[i] = s[i]
    <2> HIDE DEF start
    <2> DEFINE G == {k \in Nat : k + 1 <= i => start[k + 1] = s[k + 1]}
    <2>1. \A k \in 1 .. i :
             start[k] = IF k = 1 THEN 0 ELSE start[k - 1] + ctx.fragments[k - 1].count
        BY <1>4
    <2>2. 0 \in G
        <3>1. 1 \in 1 .. i OBVIOUS
        <3> QED BY <1>1, <2>1, <3>1
    <2>3. ASSUME NEW k \in 0 .. i - 1 - 1, k \in G PROVE k + 1 \in G
        <3>1. /\ k + 1 \in 1 .. Len(x) /\ (k + 1) + 1 \in 1 .. i /\ (k + 1) + 1 # 1
              /\ ((k + 1) + 1) - 1 = k + 1 /\ k + 1 <= i
            BY <1>1
        <3>2. start[(k + 1) + 1] = start[k + 1] + ctx.fragments[k + 1].count BY <2>1, <3>1
        <3>3. start[k + 1] = s[k + 1] BY <2>3, <3>1
        <3>4. s[(k + 1) + 1] = s[k + 1] + x[k + 1].count BY <1>1, <3>1
        <3> QED BY <1>2, <3>1, <3>2, <3>3, <3>4
    <2> HIDE DEF G
    <2>4. 0 .. i - 1 \subseteq G
        <3>1. i - 1 \in Nat BY <1>1
        <3> QED BY <2>2, <2>3, <3>1, Induction
    <2>5. i - 1 \in G /\ (i - 1) + 1 = i BY <1>1, <2>4
    <2> QED BY <2>5 DEF G
<1>6. ASSUME NEW v \in start[i] .. start[i] + ctx.fragments[i].count - 1
      PROVE  f[v] = IF ctx.fragments[i].lcn = Virtual THEN Virtual
                    ELSE ctx.fragments[i].lcn + v - start[i]
    <2> HIDE DEF start
    <2>1. s[i] \in Nat /\ s[i + 1] = s[i] + x[i].count BY <1>1
    <2>2. x[i].count \in Nat BY DEF Extents
    <2>3. v \in Clusters(s, i) BY <1>2, <1>5, <2>1, <2>2 DEF Clusters
    <2>4. f[v] = In(x, s, i, v) BY <2>3 DEF Shows
    <2> QED BY <1>2, <1>5, <2>4 DEF In
<1> QED BY <1>6 DEF IsExtent

-----------------------------------------------------------------------------
(* The objects of CoFrag.Dll.                                              *)

coFragVars == <<fragmentsVars, defragVars>>

-----------------------------------------------------------------------------
(* Cancel.                                                                 *)

\* An update that notices the cancel ends the call, by way of the last update.
NoticedInv ==
    \A c \in Callers :
        hit[c] = "noticed" =>
            /\ hr[c] = "abort"
            /\ callAt[c] = "return" \/ (callAt[c] = "update" /\ phase[c] = "completed")

\* A cancel is in the state of the object until the call has returned.
AbortInv ==
    \A c \in Callers : hit[c] # "no" => _bAbort /\ _hResult \in {"cancelled", "abort"}

Places == {"idle", "callback", "update", "call", "calling", "abort", "open", "engine", "return"}

CallsInv ==
    /\ callAt \in [Callers -> Places]
    /\ phase \in [Callers -> {"inactive", "initializing", "defragmenting", "completed"}]
    /\ hr \in [Callers -> {"ok", "failed", "abort"}]
    /\ hit \in [Callers -> {"no", "cancelled", "noticed"}]
    /\ _bAbort \in BOOLEAN

CancelInv == CallsInv /\ AbortInv /\ NoticedInv

LEMMA CancelInit == CoFragInit => CancelInv
<1> SUFFICES ASSUME DefragInit PROVE CancelInv
    BY DEF CoFragInit
<1>1. CallsInv
    BY DEF DefragInit, CallsInv, Places
<1>2. AbortInv /\ NoticedInv
    BY DEF DefragInit, AbortInv, NoticedInv
<1>3. QED
    BY <1>1, <1>2 DEF CancelInv

LEMMA CancelNext == CancelInv /\ [CoFragNext]_coFragVars => CancelInv'
<1> SUFFICES ASSUME CancelInv, [CoFragNext]_coFragVars PROVE CancelInv'
    OBVIOUS
<1> USE DEF CancelInv, CallsInv, Places, AbortInv, NoticedInv, Goto, ToUpdate
<1>1. CASE UNCHANGED coFragVars
    BY <1>1 DEF coFragVars, defragVars, callVars, engineVars
<1>2. CASE FragmentsNext(file) /\ UNCHANGED defragVars
    BY <1>2 DEF defragVars, callVars, engineVars
<1>3. CASE Cancel
    BY <1>3 DEF Cancel, callVars, engineVars
<1>4. CASE put_OnProgressUpdate
    BY <1>4 DEF put_OnProgressUpdate, callVars, engineVars
<1>5. ASSUME NEW c \in Callers, DefragmentFile(c) PROVE CancelInv'
    BY <1>5 DEF DefragmentFile, engineVars
<1>6. ASSUME NEW c \in Callers, TakeCallback(c) PROVE CancelInv'
    BY <1>6 DEF TakeCallback, engineVars
<1>7. ASSUME NEW c \in Callers, FireProgressUpdate(c) PROVE CancelInv'
    BY <1>7 DEF FireProgressUpdate, UpdateReturns, Noticed, Code, engineVars
<1>8. ASSUME NEW c \in Callers, CallSink(c) PROVE CancelInv'
    BY <1>8 DEF CallSink, UpdateReturns, engineVars
<1>9. ASSUME NEW c \in Callers, SinkReturns(c) PROVE CancelInv'
    BY <1>9 DEF SinkReturns, UpdateReturns, engineVars
<1>10. ASSUME NEW c \in Callers, SinkCancels(c) PROVE CancelInv'
    BY <1>10 DEF SinkCancels, UpdateReturns, engineVars
<1>11. ASSUME NEW c \in Callers, OpenContext(c) PROVE CancelInv'
    BY <1>11 DEF OpenContext
<1>12. ASSUME NEW c \in Callers, MoveCluster(c) PROVE CancelInv'
    BY <1>12 DEF MoveCluster
<1>13. ASSUME NEW c \in Callers, EngineReturns(c) PROVE CancelInv'
    BY <1>13 DEF EngineReturns, engineVars
<1>14. ASSUME NEW c \in Callers, DefragmentFileReturns(c) PROVE CancelInv'
    BY <1>14 DEF DefragmentFileReturns
<1>15. QED
    BY <1>1, <1>2, <1>3, <1>4, <1>5, <1>6, <1>7, <1>8, <1>9, <1>10, <1>11, <1>12, <1>13,
       <1>14 DEF CoFragNext, DefragNext

\* Whatever update is being made when Cancel is called, the result code says so,
\* and the call fails if an update came after it: FileDefragmenter.
THEOREM CancelAlwaysAnswered == CoFragSpec => []CancelAnswered
<1>1. CoFragInit => CancelInv
    BY CancelInit
<1>2. CancelInv /\ [CoFragNext]_coFragVars => CancelInv'
    BY CancelNext
<1>3. CancelInv => CancelAnswered
    BY DEF CancelInv, AbortInv, NoticedInv, CancelAnswered
<1>4. QED
    BY <1>1, <1>2, <1>3, PTL DEF CoFragSpec, coFragVars

-----------------------------------------------------------------------------
(* Enumerators.                                                            *)

IsSequence(s) == Len(s) \in Nat /\ s = [n \in 1 .. Len(s) |-> s[n]]

\* The tick counts of the opens do not fall; the object has the last open's.
OpensInv ==
    /\ clock \in Nat /\ IsSequence(opens)
    /\ \A n \in 1 .. Len(opens) : opens[n].tick \in Nat /\ opens[n].tick <= clock
    /\ \A n, m \in 1 .. Len(opens) : n <= m => opens[n].tick <= opens[m].tick
    /\ Len(opens) = 0 => _hFragCtx = NoCtx
    /\ Len(opens) # 0 => /\ _dwTick = opens[Len(opens)].tick
                         /\ _hFragCtx = opens[Len(opens)].ctx

IsEnumerator(r) == r = [tick |-> r.tick, iter |-> r.iter, elem |-> r.elem, of |-> r.of]

\* An enumerator has the tick count of its open and, when that is the last one, the
\* number of its fragments.
EnumsInv ==
    /\ enums = [e \in Enums |-> enums[e]]
    /\ \A e \in Enums :
          enums[e] # NoEnum =>
              /\ IsEnumerator(enums[e]) /\ enums[e].of \in 1 .. Len(opens)
              /\ enums[e].tick = opens[enums[e].of].tick
              /\ enums[e].of = Len(opens) => enums[e].elem = Len(_hFragCtx.fragments)

FragmentsInv == OpensInv /\ EnumsInv

\* An enumerator that has not expired takes its items from the context of the open
\* that it is of, and counts them all: OpenFile, _IsExpired and CreateInstance.
ShowsItsOpen ==
    \A e \in Enums :
        enums[e] # NoEnum /\ ~_IsExpired(enums[e].tick) /\ Distinguished(enums[e].of) =>
            /\ _hFragCtx = opens[enums[e].of].ctx
            /\ enums[e].elem = Len(_hFragCtx.fragments)

LEMMA AppendIsSequence ==
    ASSUME NEW s, IsSequence(s), NEW x
    PROVE  /\ IsSequence(Append(s, x)) /\ Len(Append(s, x)) = Len(s) + 1
           /\ \A n \in 1 .. Len(s) : Append(s, x)[n] = s[n]
           /\ Append(s, x)[Len(s) + 1] = x
<1> DEFINE S == {s[n] : n \in 1 .. Len(s)} \union {x}
<1>1. s \in Seq(S)
    BY DEF IsSequence
<1>2. x \in S
    OBVIOUS
<1>3. Append(s, x) \in Seq(S)
    BY <1>1, <1>2, AppendProperties
<1>4. \A q \in Seq(S) : IsSequence(q)
    BY DEF IsSequence
<1>5. QED
    <2> HIDE DEF S
    <2>1. Len(Append(s, x)) = Len(s) + 1 /\ Append(s, x)[Len(s) + 1] = x
        BY <1>1, <1>2, AppendProperties
    <2>2. \A n \in 1 .. Len(s) : Append(s, x)[n] = s[n]
        BY <1>1, <1>2, AppendProperties
    <2>3. QED
        BY <1>3, <1>4, <2>1, <2>2

LEMMA FragmentsAtInit == CoFragInit => FragmentsInv
BY DEF CoFragInit, FragmentsInit, FragmentsInv, OpensInv, EnumsInv, IsSequence

\* What an operation of an enumerator changes is its own record.
LEMMA EnumStep ==
    ASSUME FragmentsInv, NEW e \in Enums, NEW r,
           enums' = [enums EXCEPT ![e] = r],
           r # NoEnum =>
               /\ IsEnumerator(r) /\ r.of \in 1 .. Len(opens) /\ r.tick = opens[r.of].tick
               /\ r.of = Len(opens) => r.elem = Len(_hFragCtx.fragments),
           UNCHANGED <<clock, _dwTick, _hFragCtx, opens>>
    PROVE  FragmentsInv'
BY DEF FragmentsInv, OpensInv, EnumsInv

LEMMA FragmentsStep == FragmentsInv /\ [CoFragNext]_coFragVars => FragmentsInv'
<1> SUFFICES ASSUME FragmentsInv, [CoFragNext]_coFragVars PROVE FragmentsInv'
    OBVIOUS
<1> DEFINE frame == UNCHANGED <<clock, _dwTick, _hFragCtx, enums, opens>>
<1>1. CASE frame
    BY <1>1 DEF FragmentsInv, OpensInv, EnumsInv
<1>2. CASE ClockTicks
    BY <1>2 DEF ClockTicks, FragmentsInv, OpensInv, EnumsInv
<1>3. ASSUME NEW o \in Openers, OpenFile(o) PROVE FragmentsInv'
    <2> DEFINE last == [tick |-> clock, ctx |-> opening[o]]
    <2>1. /\ opens' = Append(opens, last) /\ UNCHANGED <<clock, enums>>
          /\ _dwTick' = clock /\ _hFragCtx' = opening[o]
        BY <1>3 DEF OpenFile
    <2>2. /\ IsSequence(opens') /\ Len(opens') = Len(opens) + 1
          /\ \A n \in 1 .. Len(opens) : opens'[n] = opens[n]
          /\ opens'[Len(opens) + 1] = last
        BY <2>1, AppendIsSequence DEF FragmentsInv, OpensInv
    <2>3. OpensInv'
        BY <2>1, <2>2 DEF FragmentsInv, OpensInv, IsSequence
    <2>4. EnumsInv'
        BY <2>1, <2>2 DEF FragmentsInv, OpensInv, EnumsInv, IsSequence
    <2>5. QED
        BY <2>3, <2>4 DEF FragmentsInv
<1>4. ASSUME NEW e \in Enums, get__NewEnum(e) PROVE FragmentsInv'
    <2> DEFINE r == [tick |-> _dwTick, iter |-> 0, elem |-> Len(_hFragCtx.fragments),
                     of |-> Len(opens)]
    <2>1. /\ enums' = [enums EXCEPT ![e] = r] /\ _hFragCtx # NoCtx
          /\ UNCHANGED <<clock, _dwTick, _hFragCtx, opens>>
        BY <1>4 DEF get__NewEnum, CreateInstance
    <2>2. IsEnumerator(r) /\ r.of \in 1 .. Len(opens) /\ r.tick = opens[r.of].tick
        BY <2>1 DEF FragmentsInv, OpensInv, IsSequence, IsEnumerator
    <2>3. QED
        BY <2>1, <2>2, EnumStep
<1>5. ASSUME NEW e \in Enums, NEW other \in Enums, Clone(e, other) PROVE FragmentsInv'
    <2> DEFINE r == [tick |-> enums[other].tick, iter |-> enums[other].iter,
                     elem |-> Len(_hFragCtx.fragments), of |-> enums[other].of]
    <2>1. /\ enums' = [enums EXCEPT ![e] = r] /\ enums[other] # NoEnum
          /\ UNCHANGED <<clock, _dwTick, _hFragCtx, opens>>
        BY <1>5 DEF Clone, CreateInstance
    <2>2. IsEnumerator(r) /\ r.of \in 1 .. Len(opens) /\ r.tick = opens[r.of].tick
        BY <2>1 DEF FragmentsInv, EnumsInv, IsEnumerator
    <2>3. QED
        BY <2>1, <2>2, EnumStep
<1>6. ASSUME NEW e \in Enums, EnumNext(e) \/ Skip(e) \/ Reset(e) PROVE FragmentsInv'
    <2>1. /\ \E i : enums' = [enums EXCEPT ![e].iter = i]
          /\ enums[e] # NoEnum /\ UNCHANGED <<clock, _dwTick, _hFragCtx, opens>>
        BY <1>6 DEF EnumNext, Skip, Reset
    <2>2. PICK i : enums' = [enums EXCEPT ![e].iter = i]
        BY <2>1
    <2> DEFINE r == [tick |-> enums[e].tick, iter |-> i, elem |-> enums[e].elem,
                     of |-> enums[e].of]
    <2>3. /\ IsEnumerator(enums[e]) /\ enums[e].of \in 1 .. Len(opens)
          /\ enums[e].tick = opens[enums[e].of].tick
          /\ enums[e].of = Len(opens) => enums[e].elem = Len(_hFragCtx.fragments)
        BY <2>1 DEF FragmentsInv, EnumsInv
    <2>4. [enums[e] EXCEPT !.iter = i] = r
        BY <2>3 DEF IsEnumerator
    <2>5. enums' = [enums EXCEPT ![e] = r]
        BY <2>2, <2>4
    <2>6. IsEnumerator(r)
        BY DEF IsEnumerator
    <2>7. QED
        BY <2>1, <2>3, <2>5, <2>6, EnumStep
<1>7. ASSUME NEW e \in Enums, ReleaseEnum(e) PROVE FragmentsInv'
    BY <1>7, EnumStep DEF ReleaseEnum
<1>8. QED
    <2>1. CASE UNCHANGED coFragVars \/ (DefragNext /\ UNCHANGED fragmentsVars)
        BY <1>1, <2>1 DEF coFragVars, fragmentsVars
    <2>2. CASE FragmentsNext(file)
        <3>1. \A o \in Openers : FpCreateContext(o, file) => frame
            BY DEF FpCreateContext
        <3>2. QED
            BY <1>1, <1>2, <1>3, <1>4, <1>5, <1>6, <1>7, <2>2, <3>1 DEF FragmentsNext
    <2>3. QED
        BY <2>1, <2>2 DEF CoFragNext

\* However often the file is opened and whatever is cloned, an enumerator that has
\* not expired has the fragments of its own open: FileFragments.
THEOREM EnumeratorsShowTheirOpen == CoFragSpec => []ShowsItsOpen
<1>1. CoFragInit => FragmentsInv
    BY FragmentsAtInit
<1>2. FragmentsInv /\ [CoFragNext]_coFragVars => FragmentsInv'
    BY FragmentsStep
<1>3. FragmentsInv => ShowsItsOpen
    BY DEF FragmentsInv, OpensInv, EnumsInv, ShowsItsOpen, _IsExpired, Distinguished, IsSequence
<1>4. QED
    BY <1>1, <1>2, <1>3, PTL DEF CoFragSpec, coFragVars

\* What FpCreateContext makes of a file, with or without the extents as they are.
IsContext(c) ==
    \/ c = NoCtx
    \/ \E f, x : \E raw \in BOOLEAN :
          IsFile(f) /\ x \in ExtentLists(f) /\ c = ContextOf(f, x, raw)

LEMMA ContextShows ==
    ASSUME NEW f, IsFile(f), NEW x \in ExtentLists(f), NEW raw \in BOOLEAN,
           NEW c, c = ContextOf(f, x, raw)
    PROVE  /\ Len(c.fragments) \in Nat /\ DOMAIN c.fragments = 1 .. Len(c.fragments)
           /\ \A i \in 1 .. Len(c.fragments) :
                 IF c.raw THEN IsExtent(c.fragments[i], c, i)
                 ELSE IsFragment(c.fragments[i], c.file, i)
<1>1. PICK n \in Nat : f \in [0 .. n - 1 -> Nat \union {Virtual}] BY DEF IsFile
<1>2. c.file = f /\ c.raw = raw /\ c.fragments = FpiCreateFragCtx(x, raw).fragments
    BY DEF ContextOf
<1>3. Len(x) \in Nat /\ (n = 0 <=> Len(x) = 0)
    <2>1. x \in Seq([lcn : Nat \union {Virtual}, count : Nat \ {0}]) /\ (n = 0 <=> x = <<>>)
        BY <1>1, ExtentListType
    <2> QED BY <2>1, EmptySeq
<1>4. CASE raw
    <2>1. c.fragments = [i \in 1 .. Len(x) |->
                            [lcn |-> x[i].lcn, extents |-> 1, count |-> x[i].count]]
        BY <1>2, <1>4 DEF FpiCreateFragCtx
    <2>2. Len(c.fragments) = Len(x) /\ DOMAIN c.fragments = 1 .. Len(x) BY <1>3, <2>1
    <2>3. ASSUME NEW i \in 1 .. Len(x) PROVE IsExtent(c.fragments[i], c, i)
        <3>1. n \in Nat \ {0} BY <1>3
        <3>2. PICK s : Extents(x, s, n) /\ Shows(x, s, f) BY <1>1, <3>1, ListShows
        <3> QED BY <1>2, <2>1, <3>2, RawIs
    <2> QED BY <1>2, <1>3, <1>4, <2>2, <2>3
<1>5. CASE ~raw
    <2> DEFINE S == FragmentStarts(x)
    <2>1. c.fragments = FpiCompactFragmentInformation(x) BY <1>2, <1>5 DEF FpiCreateFragCtx
    <2>2. Cardinality(S) \in Nat
        <3>1. IsFiniteSet(1 .. Len(x)) /\ S \subseteq 1 .. Len(x)
            BY <1>3, FS_Interval DEF FragmentStarts
        <3> HIDE DEF S
        <3> QED BY <3>1, FS_Subset, FS_CardinalityType
    <2>3. /\ Len(c.fragments) = Cardinality(S) /\ DOMAIN c.fragments = 1 .. Cardinality(S)
          /\ \A i \in 1 .. Cardinality(S) : c.fragments[i].lcn = x[Nth(S, i)].lcn
        BY <2>1, <2>2 DEF FpiCompactFragmentInformation
    <2>4. ASSUME NEW i \in 1 .. Cardinality(S) PROVE IsFragment(c.fragments[i], f, i)
        <3>1. n # 0
            <4> SUFFICES ASSUME Len(x) = 0 PROVE FALSE BY <1>3
            <4>1. S = {} BY DEF FragmentStarts
            <4> QED BY <4>1, FS_EmptySet
        <3>2. PICK s : Extents(x, s, n) /\ Shows(x, s, f) BY <1>1, <3>1, ListShows
        <3>3. Cardinality(RunStarts(f)) = Cardinality(S) /\ f[Nth(RunStarts(f), i)] = x[Nth(S, i)].lcn
            BY <1>1, <3>2, FragmentsAre
        <3>4. i <= Cardinality(S) BY <2>2
        <3> QED BY <2>3, <3>3, <3>4 DEF IsFragment
    <2> QED BY <1>2, <1>5, <2>2, <2>3, <2>4
<1> QED BY <1>4, <1>5

\* get_Item gives the last item of the context, or none.
LEMMA ItemIs ==
    ASSUME NEW i \in Int, get_Item(i) # <<>>,
           Len(_hFragCtx.fragments) \in Nat,
           DOMAIN _hFragCtx.fragments = 1 .. Len(_hFragCtx.fragments)
    PROVE  i + 1 \in 1 .. Len(_hFragCtx.fragments) /\ get_Item(i)[1] = _hFragCtx.fragments[i + 1]
<1> DEFINE q == _hFragCtx.fragments
           m == Len(q)
<1>1. ~(i + 1 < m) /\ get_Item(i) = Part(_hFragCtx, i + 1, 1) BY DEF get_Item
<1>2. i + 1 \in 1 .. m BY <1>1 DEF Part
<1>3. i + 1 = m BY <1>1, <1>2
<1>4. get_Item(i) = SubSeq(q, m, m)
    <2>1. ~(m + 1 - 1 < m) OBVIOUS
    <2>2. Part(_hFragCtx, m, 1) = SubSeq(q, m, IF m + 1 - 1 < m THEN m + 1 - 1 ELSE m)
        BY <1>2, <1>3 DEF Part
    <2> QED BY <1>1, <1>3, <2>1, <2>2
<1>5. SubSeq(q, m, m)[1] = q[m]
    <2> DEFINE S == {q[m]}
    <2>1. \A k \in m .. m : q[k] \in S OBVIOUS
    <2>2. 1 \in 1 .. m - m + 1 /\ m + 1 - 1 = m OBVIOUS
    <2> HIDE DEF S, q, m
    <2>3. m \in Int BY <1>2 DEF m, q
    <2> QED BY <2>1, <2>2, <2>3, SubSeqProperties
<1> QED BY <1>2, <1>3, <1>4, <1>5

-----------------------------------------------------------------------------
(* The contexts of the opens.                                              *)

LEMMA FileStays ==
    ASSUME NEW f, IsFile(f), NEW v \in DOMAIN f, NEW lcn \in Nat
    PROVE  IsFile([f EXCEPT ![v] = lcn])
BY DEF IsFile

LEMMA BelowIs ==
    ASSUME NEW f, IsFile(f), NEW v
    PROVE  Cardinality({u \in Physical(f) : u < v}) \in Nat
<1> DEFINE n == Cardinality(DOMAIN f)
           S == {u \in Physical(f) : u < v}
<1>1. n \in Nat /\ DOMAIN f = 0 .. n - 1 BY DEF IsFile
<1>2. S \subseteq DOMAIN f BY DEF Physical
<1>3. IsFiniteSet(0 .. n - 1) BY <1>1, FS_Interval
<1> HIDE DEF n, S
<1> QED BY <1>1, <1>2, <1>3, FS_Subset, FS_CardinalityType DEF S

\* The file is one at any time; what was opened shows the file as it was; an
\* enumerator counts.
SnapshotsInv ==
    /\ IsFile(file) /\ target \in [Callers -> Nat]
    /\ opening = [o \in Openers |-> opening[o]]
    /\ \A o \in Openers : opening[o] = NotOpening \/ IsContext(opening[o])
    /\ \A n \in 1 .. Len(opens) : IsContext(opens[n].ctx)
    /\ \A e \in Enums : enums[e] # NoEnum => enums[e].iter \in Int /\ enums[e].elem \in Nat

LEMMA SnapshotsAtInit == CoFragInit => SnapshotsInv
<1> SUFFICES ASSUME CoFragInit PROVE SnapshotsInv OBVIOUS
<1>1. IsFile(file) /\ target \in [Callers -> Nat]
    BY FileAssumption DEF CoFragInit, DefragInit
<1>2. /\ opening = [o \in Openers |-> NotOpening] /\ opens = <<>>
      /\ enums = [e \in Enums |-> NoEnum]
    BY DEF CoFragInit, FragmentsInit
<1>3. 1 .. Len(opens) = {} BY <1>2
<1> QED BY <1>1, <1>2, <1>3 DEF SnapshotsInv

LEMMA ContextLength ==
    ASSUME NEW c, IsContext(c), c # NoCtx
    PROVE  Len(c.fragments) \in Nat
BY ContextShows DEF IsContext

LEMMA ObjectsContext == FragmentsInv /\ SnapshotsInv => IsContext(_hFragCtx)
<1> SUFFICES ASSUME FragmentsInv, SnapshotsInv PROVE IsContext(_hFragCtx) OBVIOUS
<1>1. Len(opens) \in Nat BY DEF FragmentsInv, OpensInv, IsSequence
<1>2. CASE Len(opens) = 0 BY <1>2 DEF FragmentsInv, OpensInv, IsContext
<1>3. CASE Len(opens) # 0
    <2>1. Len(opens) \in 1 .. Len(opens) BY <1>1, <1>3
    <2> QED BY <1>3, <2>1 DEF FragmentsInv, OpensInv, SnapshotsInv
<1> QED BY <1>2, <1>3

\* What the enumerators do to their counters, and no more.
LEMMA CountersStep ==
    ASSUME SnapshotsInv, FragmentsInv, NEW e \in Enums, NEW r, enums' = [enums EXCEPT ![e] = r],
           r # NoEnum => r.iter \in Int /\ r.elem \in Nat,
           UNCHANGED <<opening, opens, file, target>>
    PROVE  SnapshotsInv'
BY DEF SnapshotsInv, FragmentsInv, EnumsInv

LEMMA SnapshotsStep ==
    ASSUME FragmentsInv, SnapshotsInv, [CoFragNext]_coFragVars PROVE SnapshotsInv'
<1> DEFINE frame == UNCHANGED <<opening, opens, enums>>
<1>0. IsContext(_hFragCtx) BY ObjectsContext
<1>1. ASSUME frame, IsFile(file'), target' \in [Callers -> Nat] PROVE SnapshotsInv'
    BY <1>1 DEF SnapshotsInv
<1>2. ASSUME UNCHANGED <<file, target>>, FragmentsNext(file) PROVE SnapshotsInv'
    <2>1. CASE ClockTicks
        BY <1>1, <1>2, <2>1 DEF ClockTicks, SnapshotsInv
    <2>2. ASSUME NEW o \in Openers, FpCreateContext(o, file) PROVE SnapshotsInv'
        <3>1. PICK x \in ExtentLists(file), raw \in BOOLEAN :
                 \E c \in {NoCtx, ContextOf(file, x, raw)} : opening' = [opening EXCEPT ![o] = c]
            BY <2>2 DEF FpCreateContext
        <3>2. PICK c \in {NoCtx, ContextOf(file, x, raw)} : opening' = [opening EXCEPT ![o] = c]
            BY <3>1
        <3>3. IsContext(c) BY <3>2 DEF IsContext, SnapshotsInv
        <3>4. UNCHANGED <<enums, opens>> BY <2>2 DEF FpCreateContext
        <3> QED BY <1>2, <3>2, <3>3, <3>4 DEF SnapshotsInv
    <2>3. ASSUME NEW o \in Openers, OpenFile(o) PROVE SnapshotsInv'
        <3> DEFINE last == [tick |-> clock, ctx |-> opening[o]]
        <3>1. /\ opens' = Append(opens, last) /\ UNCHANGED enums
              /\ opening[o] # NotOpening /\ opening' = [opening EXCEPT ![o] = NotOpening]
            BY <2>3 DEF OpenFile
        <3>2. /\ Len(opens) \in Nat /\ Len(opens') = Len(opens) + 1
              /\ \A n \in 1 .. Len(opens) : opens'[n] = opens[n]
              /\ opens'[Len(opens) + 1] = last
            BY <3>1, AppendIsSequence DEF FragmentsInv, OpensInv, IsSequence
        <3>3. IsContext(last.ctx) BY <3>1 DEF SnapshotsInv
        <3>4. ASSUME NEW n \in 1 .. Len(opens') PROVE IsContext(opens'[n].ctx)
            <4>1. n \in 1 .. Len(opens) \/ n = Len(opens) + 1 BY <3>2
            <4> HIDE DEF last
            <4> QED BY <3>2, <3>3, <4>1 DEF SnapshotsInv
        <3> QED BY <1>2, <3>1, <3>4 DEF SnapshotsInv
    <2>4. ASSUME NEW e \in Enums, NEW tick, NEW iter \in Int, NEW of, CreateInstance(e, tick, iter, of)
          PROVE  SnapshotsInv'
        <3> DEFINE r == [tick |-> tick, iter |-> iter, elem |-> Len(_hFragCtx.fragments), of |-> of]
        <3>1. /\ enums' = [enums EXCEPT ![e] = r] /\ _hFragCtx # NoCtx
              /\ UNCHANGED <<opening, opens>>
            BY <2>4 DEF CreateInstance
        <3>2. r.iter \in Int /\ r.elem \in Nat BY <1>0, <3>1, ContextLength
        <3> HIDE DEF r
        <3> QED BY <1>2, <3>1, <3>2, CountersStep
    <2>5. ASSUME NEW e \in Enums, get__NewEnum(e) PROVE SnapshotsInv'
        BY <2>4, <2>5 DEF get__NewEnum
    <2>6. ASSUME NEW e \in Enums, NEW other \in Enums, Clone(e, other) PROVE SnapshotsInv'
        BY <2>4, <2>6 DEF Clone, SnapshotsInv
    <2>7. ASSUME NEW e \in Enums, EnumNext(e) \/ Skip(e) \/ Reset(e) PROVE SnapshotsInv'
        <3>1. enums[e] # NoEnum /\ UNCHANGED <<opening, opens>>
            BY <2>7 DEF EnumNext, Skip, Reset
        <3>2. /\ enums[e].iter \in Int /\ enums[e].elem \in Nat
              /\ IsEnumerator(enums[e])
            BY <3>1 DEF SnapshotsInv, FragmentsInv, EnumsInv
        <3>3. ULONG \in Nat \ {0} BY CountsAssumption
        <3>4. Remaining(e) \in Int BY <3>2, <3>3 DEF Remaining
        <3>5. \E i \in Int : enums' = [enums EXCEPT ![e].iter = i]
            <4>1. CASE EnumNext(e)
                <5> DEFINE i == enums[e].iter + 1
                <5>1. enums' = [enums EXCEPT ![e].iter = i] BY <4>1 DEF EnumNext
                <5>2. i \in Int BY <3>2
                <5> HIDE DEF i
                <5> QED BY <5>1, <5>2
            <4>2. CASE Skip(e)
                <5>1. PICK celt \in 1 .. 2 :
                         enums' = [enums EXCEPT ![e].iter =
                             (enums[e].iter + IF celt > Remaining(e) THEN Remaining(e) ELSE celt) % ULONG]
                    BY <4>2 DEF Skip
                <5>2. (enums[e].iter + IF celt > Remaining(e) THEN Remaining(e) ELSE celt) % ULONG \in Int
                    BY <3>2, <3>3, <3>4
                <5> QED BY <5>1, <5>2
            <4>3. CASE Reset(e)
                <5>1. enums' = [enums EXCEPT ![e].iter = 0] /\ 0 \in Int BY <4>3 DEF Reset
                <5> WITNESS 0 \in Int
                <5> QED BY <5>1
            <4> QED BY <2>7, <4>1, <4>2, <4>3
        <3>6. PICK i \in Int : enums' = [enums EXCEPT ![e].iter = i] BY <3>5
        <3> DEFINE r == [tick |-> enums[e].tick, iter |-> i, elem |-> enums[e].elem,
                         of |-> enums[e].of]
        <3>7. [enums[e] EXCEPT !.iter = i] = r BY <3>2 DEF IsEnumerator
        <3>8. enums' = [enums EXCEPT ![e] = r] BY <3>6, <3>7
        <3>9. r.iter \in Int /\ r.elem \in Nat BY <3>2
        <3> HIDE DEF r
        <3> QED BY <1>2, <3>1, <3>8, <3>9, CountersStep
    <2>8. ASSUME NEW e \in Enums, ReleaseEnum(e) PROVE SnapshotsInv'
        BY <1>2, <2>8, CountersStep DEF ReleaseEnum
    <2> QED BY <1>2, <2>1, <2>2, <2>3, <2>5, <2>6, <2>7, <2>8 DEF FragmentsNext
<1>3. CASE UNCHANGED coFragVars
    BY <1>1, <1>3 DEF coFragVars, fragmentsVars, defragVars, engineVars, SnapshotsInv
<1>4. CASE FragmentsNext(file) /\ UNCHANGED defragVars
    BY <1>2, <1>4 DEF defragVars, engineVars
<1>5. CASE DefragNext /\ UNCHANGED fragmentsVars
    <2>0. frame BY <1>5 DEF fragmentsVars
    <2>1. IsFile(file) /\ target \in [Callers -> Nat] BY DEF SnapshotsInv
    <2>2. ASSUME UNCHANGED <<file, target>> PROVE SnapshotsInv' BY <1>1, <2>0, <2>1, <2>2
    <2>3. CASE Cancel \/ put_OnProgressUpdate
        BY <2>2, <2>3 DEF Cancel, put_OnProgressUpdate, engineVars
    <2>4. ASSUME NEW c \in Callers,
                 \/ DefragmentFile(c) \/ TakeCallback(c) \/ FireProgressUpdate(c) \/ CallSink(c)
                 \/ SinkReturns(c) \/ SinkCancels(c) \/ EngineReturns(c)
          PROVE  SnapshotsInv'
        BY <2>2, <2>4 DEF DefragmentFile, TakeCallback, FireProgressUpdate, CallSink, SinkReturns,
            SinkCancels, EngineReturns, engineVars
    <2>5. ASSUME NEW c \in Callers, OpenContext(c) \/ DefragmentFileReturns(c) PROVE SnapshotsInv'
        <3>1. file' = file BY <2>5 DEF OpenContext, DefragmentFileReturns
        <3>2. target' = target \/ \E t \in Targets \union {0} : target' = [target EXCEPT ![c] = t]
            BY <2>5 DEF OpenContext, DefragmentFileReturns
        <3>3. target' \in [Callers -> Nat] BY <2>1, <3>2, FileAssumption
        <3> QED BY <1>1, <2>0, <2>1, <3>1, <3>3
    <2>6. ASSUME NEW c \in Callers, MoveCluster(c) PROVE SnapshotsInv'
        <3> DEFINE v == moved[c]
                   lcn == target[c] + Cardinality({u \in Physical(file) : u < v})
        <3>1. /\ v \in DOMAIN file /\ target' = target
              /\ file' = file \/ file' = [file EXCEPT ![v] = lcn]
            BY <2>6 DEF MoveCluster
        <3>2. lcn \in Nat BY <2>1, BelowIs
        <3> HIDE DEF v, lcn
        <3>3. IsFile(file') BY <2>1, <3>1, <3>2, FileStays
        <3> QED BY <1>1, <2>0, <2>1, <3>1, <3>3
    <2> QED BY <1>5, <2>3, <2>4, <2>5, <2>6 DEF DefragNext
<1> QED BY <1>3, <1>4, <1>5 DEF CoFragNext

\* What an enumerator gives next is the fragment of the file that it has come to, as
\* the file was when opened, for any file, extent data, moves and number of opens:
\* CEnumFileFragments::Next, get_Item and the engine's FpiCompactFragmentInformation.
THEOREM EnumeratorsGiveFragments == CoFragSpec => []ItemsExact
<1>1. CoFragInit => FragmentsInv /\ SnapshotsInv
    BY FragmentsAtInit, SnapshotsAtInit
<1>2. FragmentsInv /\ SnapshotsInv /\ [CoFragNext]_coFragVars => (FragmentsInv /\ SnapshotsInv)'
    BY FragmentsStep, SnapshotsStep
<1>3. FragmentsInv /\ SnapshotsInv => ItemsExact
    <2> SUFFICES ASSUME FragmentsInv, SnapshotsInv, NEW e \in Enums,
                        enums[e] # NoEnum, ~_IsExpired(enums[e].tick), Distinguished(enums[e].of),
                        get_Item(enums[e].iter) # <<>>
                 PROVE  LET ctx == opens[enums[e].of].ctx
                            item == get_Item(enums[e].iter)[1]
                        IN  IF ctx.raw THEN IsExtent(item, ctx, enums[e].iter + 1)
                            ELSE IsFragment(item, ctx.file, enums[e].iter + 1)
        BY DEF ItemsExact
    <2>1. _hFragCtx = opens[enums[e].of].ctx
        <3>1. ShowsItsOpen
            BY DEF FragmentsInv, OpensInv, EnumsInv, ShowsItsOpen, _IsExpired, Distinguished, IsSequence
        <3> QED BY <3>1 DEF ShowsItsOpen
    <2>2. IsContext(_hFragCtx) /\ _hFragCtx # NoCtx /\ enums[e].iter \in Int
        BY ObjectsContext DEF get_Item, SnapshotsInv
    <2> DEFINE c == _hFragCtx
               i == enums[e].iter + 1
    <2>3. /\ Len(c.fragments) \in Nat /\ DOMAIN c.fragments = 1 .. Len(c.fragments)
          /\ \A k \in 1 .. Len(c.fragments) :
                IF c.raw THEN IsExtent(c.fragments[k], c, k)
                ELSE IsFragment(c.fragments[k], c.file, k)
        BY <2>2, ContextShows DEF IsContext
    <2>4. i \in 1 .. Len(c.fragments) /\ get_Item(enums[e].iter)[1] = c.fragments[i]
        BY <2>2, <2>3, ItemIs
    <2> HIDE DEF c, i
    <2> QED BY <2>1, <2>3, <2>4 DEF c, i
<1>4. QED
    BY <1>1, <1>2, <1>3, PTL DEF CoFragSpec, coFragVars

-----------------------------------------------------------------------------
(* Flattening a sequence of sequences.                                     *)

\* F holds what the first sequences of ss come to.
Flattens(F, ss, T) ==
    /\ F \in [0 .. Len(ss) -> Seq(T)] /\ F[0] = <<>>
    /\ \A i \in 1 .. Len(ss) : F[i] = F[i - 1] \o ss[i]

LEMMA FlattensExists ==
    ASSUME NEW T, NEW ss \in Seq(Seq(T))
    PROVE  \E F : Flattens(F, ss, T)
<1> DEFINE n == Len(ss)
           Upto(m, F) == /\ F \in [0 .. m -> Seq(T)] /\ F[0] = <<>>
                         /\ \A i \in 1 .. m : F[i] = F[i - 1] \o ss[i]
           S == {m \in 0 .. n : \E F : Upto(m, F)}
<1>1. n \in Nat /\ \A i \in 1 .. n : ss[i] \in Seq(T) OBVIOUS
<1> HIDE DEF n, S, Upto
<1>2. 0 \in S
    <2>1. Upto(0, [i \in 0 .. 0 |-> <<>>])
        <3>1. <<>> \in Seq(T) OBVIOUS
        <3> QED BY <3>1 DEF Upto
    <2> QED BY <1>1, <2>1 DEF S
<1>3. ASSUME NEW m \in 0 .. n - 1, m \in S PROVE m + 1 \in S
    <2>1. PICK F : Upto(m, F) BY <1>3 DEF S
    <2> DEFINE H == [i \in 0 .. m + 1 |-> IF i = m + 1 THEN F[m] \o ss[m + 1] ELSE F[i]]
    <2>2. m \in Nat /\ m + 1 \in 1 .. n /\ F[m] \in Seq(T) /\ ss[m + 1] \in Seq(T) BY <1>1, <1>3, <2>1 DEF Upto
    <2>3. F[m] \o ss[m + 1] \in Seq(T) BY <2>2, ConcatProperties
    <2>4. H \in [0 .. m + 1 -> Seq(T)] BY <2>1, <2>2, <2>3 DEF Upto
    <2>5. H[0] = <<>> BY <2>1, <2>2 DEF Upto
    <2>6. ASSUME NEW i \in 1 .. m + 1 PROVE H[i] = H[i - 1] \o ss[i]
        <3>1. i - 1 \in 0 .. m /\ i - 1 # m + 1 /\ i \in 0 .. m + 1 BY <2>2
        <3>0. H[i - 1] = F[i - 1] BY <2>2, <3>1
        <3>2. CASE i = m + 1
            <4>1. H[i] = F[m] \o ss[m + 1] BY <3>1, <3>2
            <4>2. i - 1 = m BY <2>2, <3>2
            <4> QED BY <4>1, <4>2, <3>0, <3>2
        <3>3. CASE i # m + 1
            <4>1. i \in 1 .. m BY <3>3, <2>2
            <4>2. H[i] = F[i] BY <4>1, <3>3, <2>2
            <4> QED BY <4>1, <4>2, <3>0, <2>1 DEF Upto
        <3> QED BY <3>2, <3>3
    <2>7. Upto(m + 1, H)
        <3> HIDE DEF H
        <3> QED BY <2>4, <2>5, <2>6 DEF Upto
    <2> HIDE DEF H
    <2>8. m + 1 \in 0 .. n BY <1>1, <2>2
    <2> QED BY <2>7, <2>8 DEF S
<1>5. 0 .. n \subseteq S BY <1>1, <1>2, <1>3, Induction
<1>4. n \in S BY <1>1, <1>5
<1> QED BY <1>4 DEF S, Upto, n, Flattens

LEMMA FlattenPrefix ==
    ASSUME NEW T, NEW ss \in Seq(Seq(T)), NEW F, Flattens(F, ss, T), NEW m \in 0 .. Len(ss)
    PROVE  FlattenSeq([i \in 1 .. m |-> ss[i]]) = F[m]
<1> DEFINE s == [i \in 1 .. m |-> ss[i]]
<1>0. Len(ss) \in Nat /\ m \in Nat OBVIOUS
<1>1. s \in Seq(Seq(T)) /\ Len(s) = m /\ \A i \in 1 .. m : s[i] = ss[i] BY <1>0
<1>2. F[0] = <<>> /\ \A i \in 1 .. m : F[i - 1] \in Seq(T) /\ F[i] = F[i - 1] \o s[i]
    <2>1. ASSUME NEW i \in 1 .. m PROVE i \in 1 .. Len(ss) /\ i - 1 \in 0 .. Len(ss) BY <1>0
    <2> HIDE DEF s
    <2> QED BY <2>1, <1>1 DEF Flattens
<1> HIDE DEF s
<1>3. CASE m = 0
    <2>1. s = <<>> BY <1>1, <1>3, EmptySeq
    <2>2. FlattenSeq(s) = s BY <1>1, <1>3 DEF FlattenSeq
    <2> QED BY <2>1, <2>2, <1>2, <1>3 DEF s
<1>4. CASE m # 0
    <2> DEFINE Is(f) == f = [i \in 1 .. Len(s) |-> IF i = 1 THEN s[i] ELSE f[i - 1] \o s[i]]
               flatten == CHOOSE f : Is(f)
               G == [i \in 1 .. Len(s) |-> F[i]]
    <2>1. FlattenSeq(s) = flatten[Len(s)] BY <1>1, <1>4 DEF FlattenSeq
    <2>2. Is(G)
        <3>1. ASSUME NEW i \in 1 .. Len(s)
              PROVE  G[i] = IF i = 1 THEN s[i] ELSE G[i - 1] \o s[i]
            <4>1. CASE i = 1
                <5>0. 1 \in 1 .. m /\ 1 - 1 = 0 /\ 1 \in 1 .. Len(s) BY <1>1, <3>1, <4>1
                <5>1. G[1] = <<>> \o s[1]
                    <6>1. F[1] = F[1 - 1] \o s[1] BY <5>0, <1>2
                    <6>2. F[1] = <<>> \o s[1] BY <6>1, <5>0, <1>2
                    <6> QED BY <6>2, <5>0
                <5>2. s[1] \in Seq(T) BY <1>1, <4>1, <3>1
                <5> QED BY <5>1, <5>2, <4>1, ConcatEmptySeq
            <4>2. CASE i # 1
                <5>1. i - 1 \in 1 .. Len(s) BY <1>0, <1>1, <4>2, <3>1
                <5>2. G[i - 1] = F[i - 1] /\ G[i] = F[i] BY <5>1
                <5> QED BY <5>2, <1>1, <1>2, <4>2
            <4> QED BY <4>1, <4>2
        <3> HIDE DEF G
        <3>2. [i \in 1 .. Len(s) |-> G[i]] = [i \in 1 .. Len(s) |-> IF i = 1 THEN s[i] ELSE G[i - 1] \o s[i]]
            BY <3>1
        <3>3. G = [i \in 1 .. Len(s) |-> G[i]] BY DEF G
        <3> QED BY <3>2, <3>3
    <2> HIDE DEF G
    <2>3. Is(flatten) BY <2>2
    <2> HIDE DEF flatten
    <2> DEFINE S == {i \in 0 .. m : i = 0 \/ flatten[i] = F[i]}
    <2>4. 0 \in S BY <1>0
    <2>5. ASSUME NEW i \in 0 .. m - 1, i \in S PROVE i + 1 \in S
        <3>1. i + 1 \in 1 .. Len(s) /\ i + 1 - 1 = i BY <1>0, <1>1
        <3>2. flatten[i + 1] = IF i + 1 = 1 THEN s[i + 1] ELSE flatten[i] \o s[i + 1]
            <4> DEFINE f == [k \in 1 .. Len(s) |-> IF k = 1 THEN s[k] ELSE flatten[k - 1] \o s[k]]
            <4>1. flatten = f BY <2>3
            <4>2. f[i + 1] = IF i + 1 = 1 THEN s[i + 1] ELSE flatten[i + 1 - 1] \o s[i + 1] BY <3>1
            <4> HIDE DEF f
            <4> QED BY <4>1, <4>2, <3>1
        <3>3. F[i + 1] = F[i] \o s[i + 1] /\ s[i + 1] \in Seq(T)
            <4>1. i + 1 \in 1 .. m BY <1>0
            <4>2. ASSUME NEW j \in 1 .. m, j = i + 1 PROVE F[j] = F[i] \o s[j]
                <5>1. j - 1 = i BY <4>2
                <5> QED BY <5>1, <1>2
            <4>3. s[i + 1] \in Seq(T) BY <3>1, <1>1
            <4> QED BY <4>1, <4>2, <4>3
        <3>4. CASE i = 0
            <4>1. F[i + 1] = s[i + 1] BY <3>3, <3>4, <1>2, ConcatEmptySeq
            <4> QED BY <4>1, <3>1, <3>2, <3>4, <1>1
        <3>5. CASE i # 0
            <4>1. i + 1 # 1 /\ i + 1 \in 0 .. m BY <1>0, <3>5
            <4>2. flatten[i] = F[i] BY <2>5, <3>5
            <4>3. flatten[i + 1] = F[i + 1] BY <4>1, <4>2, <3>2, <3>3
            <4> QED BY <4>1, <4>3
        <3> QED BY <3>4, <3>5
    <2> HIDE DEF S
    <2>6. 0 .. m \subseteq S BY <1>0, <2>4, <2>5, Induction
    <2>8. m \in S BY <1>0, <2>6
    <2>7. flatten[m] = F[m] BY <2>8, <1>4 DEF S
    <2> QED BY <2>1, <2>7, <1>1 DEF s
<1> QED BY <1>3, <1>4

LEMMA FlattenIs ==
    ASSUME NEW T, NEW ss \in Seq(Seq(T)), NEW F, Flattens(F, ss, T)
    PROVE  FlattenSeq(ss) = F[Len(ss)] /\ FlattenSeq(ss) \in Seq(T)
<1>1. Len(ss) \in 0 .. Len(ss) OBVIOUS
<1>2. [i \in 1 .. Len(ss) |-> ss[i]] = ss OBVIOUS
<1>4. FlattenSeq([i \in 1 .. Len(ss) |-> ss[i]]) = F[Len(ss)] BY <1>1, FlattenPrefix
<1>3. FlattenSeq(ss) = F[Len(ss)] BY <1>2, <1>4
<1> QED BY <1>1, <1>3 DEF Flattens

-----------------------------------------------------------------------------
(* The contexts of a table of files.                                       *)

FileRow == [stream : STRING \union {None}, show : BOOLEAN, ctx : FileLayouts \union {None},
            cFragments : Nat, itemBase : Nat]

LEMMA ContextsFinite ==
    ASSUME NEW T, NEW files \in Seq(T)
    PROVE  IsFiniteSet(WithContext(files)) /\ Cardinality(WithContext(files)) \in Nat
<1>1. DOMAIN files = 1 .. Len(files) /\ Len(files) \in Nat OBVIOUS
<1>2. IsFiniteSet(1 .. Len(files)) BY <1>1, FS_Interval
<1>3. WithContext(files) \in SUBSET (1 .. Len(files)) BY <1>1 DEF WithContext
<1>4. IsFiniteSet(WithContext(files)) BY <1>2, <1>3, FS_Subset
<1> QED BY <1>4, FS_CardinalityType

LEMMA AppendContexts ==
    ASSUME NEW T, NEW s \in Seq(T), NEW t \in Seq(T), \A k \in 2 .. Len(t) : t[k].ctx = None
    PROVE  Cardinality(WithContext(s \o t)) =
               Cardinality(WithContext(s)) + (IF Len(t) > 0 /\ t[1].ctx # None THEN 1 ELSE 0)
<1> DEFINE new == Len(s) + 1
<1>1. /\ Len(s) \in Nat /\ Len(t) \in Nat /\ s \o t \in Seq(T)
      /\ Len(s \o t) = Len(s) + Len(t)
      /\ DOMAIN s = 1 .. Len(s) /\ DOMAIN (s \o t) = 1 .. Len(s) + Len(t)
    OBVIOUS
<1>2. ASSUME NEW i \in 1 .. Len(s) PROVE (s \o t)[i] = s[i] /\ i \in 1 .. Len(s) + Len(t)
    BY <1>1
<1>3. ASSUME NEW i \in 1 .. Len(s) + Len(t), i \notin 1 .. Len(s)
      PROVE  (s \o t)[i] = t[i - Len(s)] /\ i - Len(s) \in 1 .. Len(t)
    <2>1. i - Len(s) \in 1 .. Len(t) /\ ~(i <= Len(s)) BY <1>1, <1>3
    <2>2. (s \o t)[i] = IF i <= Len(s) THEN s[i] ELSE t[i - Len(s)] BY ConcatProperties
    <2> QED BY <2>1, <2>2
<1>4. new \notin WithContext(s) BY <1>1 DEF WithContext
<1>5. IsFiniteSet(WithContext(s)) /\ Cardinality(WithContext(s)) \in Nat BY ContextsFinite
<1>6. CASE Len(t) > 0 /\ t[1].ctx # None
    <2>1. new \in 1 .. Len(s) + Len(t) /\ new \notin 1 .. Len(s) /\ new - Len(s) = 1 BY <1>1, <1>6
    <2>2. (s \o t)[new] = t[1] BY <2>1, <1>3
    <2>3. ASSUME NEW i \in 1 .. Len(s) + Len(t), i \notin 1 .. Len(s), i # new
          PROVE  (s \o t)[i].ctx = None
        <3>1. i - Len(s) \in 2 .. Len(t) BY <1>1, <2>3
        <3> QED BY <3>1, <1>3, <2>3
    <2> HIDE DEF new
    <2>4. WithContext(s \o t) = WithContext(s) \union {new}
        BY <1>1, <1>2, <1>6, <2>1, <2>2, <2>3 DEF WithContext
    <2> QED BY <1>4, <1>5, <1>6, <2>4, FS_AddElement
<1>7. CASE ~(Len(t) > 0 /\ t[1].ctx # None)
    <2>1. ASSUME NEW i \in 1 .. Len(s) + Len(t), i \notin 1 .. Len(s)
          PROVE  (s \o t)[i].ctx = None
        <3>1. i - Len(s) \in 1 .. Len(t) /\ (s \o t)[i] = t[i - Len(s)] BY <1>3, <2>1
        <3>2. CASE i - Len(s) = 1 BY <3>1, <3>2, <1>7, <1>1
        <3>3. CASE i - Len(s) # 1
            <4>1. i - Len(s) \in 2 .. Len(t) BY <3>1, <3>3, <1>1
            <4> QED BY <4>1, <3>1
        <3> QED BY <3>2, <3>3
    <2>2. WithContext(s \o t) = WithContext(s) BY <1>1, <1>2, <2>1 DEF WithContext
    <2> QED BY <1>5, <1>7, <2>2
<1> QED BY <1>6, <1>7

\* Where only the first of each part has a context, there are as many as parts with one.
LEMMA CountContexts ==
    ASSUME NEW T, NEW ss \in Seq(Seq(T)),
           \A i \in 1 .. Len(ss) : \A k \in 2 .. Len(ss[i]) : ss[i][k].ctx = None
    PROVE  /\ FlattenSeq(ss) \in Seq(T)
           /\ Cardinality(WithContext(FlattenSeq(ss))) =
                  Cardinality({i \in 1 .. Len(ss) : Len(ss[i]) > 0 /\ ss[i][1].ctx # None})
<1> DEFINE n == Len(ss)
           Has(i) == Len(ss[i]) > 0 /\ ss[i][1].ctx # None
           Heads(m) == {i \in 1 .. m : Has(i)}
<1>1. PICK F : Flattens(F, ss, T) BY FlattensExists
<1>2. n \in Nat /\ \A i \in 1 .. n : ss[i] \in Seq(T) OBVIOUS
<1>3. FlattenSeq(ss) = F[n] /\ FlattenSeq(ss) \in Seq(T) BY <1>1, FlattenIs
<1>4. /\ F[0] = <<>>
      /\ \A i \in 0 .. n : F[i] \in Seq(T)
      /\ \A i \in 1 .. n : F[i] = F[i - 1] \o ss[i]
    BY <1>1 DEF Flattens
<1>5. \A i \in 1 .. n : \A k \in 2 .. Len(ss[i]) : ss[i][k].ctx = None OBVIOUS
<1> HIDE DEF n, Has
<1> DEFINE S == {m \in 0 .. n : Cardinality(WithContext(F[m])) = Cardinality(Heads(m))}
<1>6. 0 \in S
    <2>1. WithContext(F[0]) = {} BY <1>4 DEF WithContext
    <2>2. Heads(0) = {} OBVIOUS
    <2>3. 0 \in 0 .. n BY <1>2
    <2> QED BY <2>1, <2>2, <2>3
<1>7. ASSUME NEW m \in 0 .. n - 1, m \in S PROVE m + 1 \in S
    <2>1. m + 1 \in 1 .. n /\ m \in 0 .. n /\ m + 1 \in 0 .. n BY <1>2
    <2>2. F[m + 1] = F[m] \o ss[m + 1]
        <3>1. \A j \in 1 .. n : j = m + 1 => j - 1 = m OBVIOUS
        <3> QED BY <2>1, <3>1, <1>4
    <2>3. F[m] \in Seq(T) /\ ss[m + 1] \in Seq(T) /\ \A k \in 2 .. Len(ss[m + 1]) : ss[m + 1][k].ctx = None
        BY <1>2, <1>4, <1>5, <2>1
    <2>4. Cardinality(WithContext(F[m + 1])) =
              Cardinality(WithContext(F[m])) + (IF Has(m + 1) THEN 1 ELSE 0)
        <3> DEFINE s == F[m]
                   t == ss[m + 1]
        <3>1. s \in Seq(T) /\ t \in Seq(T) /\ \A k \in 2 .. Len(t) : t[k].ctx = None BY <2>3
        <3>2. F[m + 1] = s \o t BY <2>2
        <3>3. Has(m + 1) <=> Len(t) > 0 /\ t[1].ctx # None BY DEF Has
        <3> HIDE DEF s, t
        <3>4. Cardinality(WithContext(s \o t)) =
                  Cardinality(WithContext(s)) + (IF Len(t) > 0 /\ t[1].ctx # None THEN 1 ELSE 0)
            BY <3>1, AppendContexts
        <3>5. Cardinality(WithContext(F[m + 1])) =
                  Cardinality(WithContext(s)) + (IF Has(m + 1) THEN 1 ELSE 0)
            BY <3>2, <3>3, <3>4
        <3> QED BY <3>5 DEF s
    <2>5. IsFiniteSet(Heads(m)) /\ Cardinality(Heads(m)) \in Nat
        <3>1. IsFiniteSet(1 .. m) BY <2>1, FS_Interval
        <3>2. Heads(m) \in SUBSET (1 .. m) OBVIOUS
        <3>3. IsFiniteSet(Heads(m)) BY <3>1, <3>2, FS_Subset
        <3> QED BY <3>3, FS_CardinalityType
    <2>6. m + 1 \notin Heads(m) BY <2>1
    <2>7. Heads(m + 1) = IF Has(m + 1) THEN Heads(m) \union {m + 1} ELSE Heads(m)
        <3>1. \A i : i \in 1 .. m + 1 <=> i \in 1 .. m \/ i = m + 1 BY <2>1
        <3> QED BY <3>1
    <2>8. Cardinality(WithContext(F[m])) = Cardinality(Heads(m)) BY <1>7
    <2> HIDE DEF Heads
    <2>9. Cardinality(Heads(m + 1)) = Cardinality(Heads(m)) + (IF Has(m + 1) THEN 1 ELSE 0)
        <3>1. CASE Has(m + 1)
            <4>1. Cardinality(Heads(m) \union {m + 1}) = Cardinality(Heads(m)) + 1
                BY <2>5, <2>6, FS_AddElement
            <4> QED BY <4>1, <3>1, <2>7
        <3>2. CASE ~Has(m + 1) BY <2>5, <2>7, <3>2
        <3> QED BY <3>1, <3>2
    <2>10. Cardinality(WithContext(F[m + 1])) = Cardinality(Heads(m + 1)) BY <2>4, <2>8, <2>9
    <2> QED BY <2>1, <2>10
<1> HIDE DEF S
<1>8. 0 .. n \subseteq S BY <1>2, <1>6, <1>7, Induction
<1>9. n \in S BY <1>2, <1>8
<1>10. Cardinality(WithContext(F[n])) = Cardinality(Heads(n)) BY <1>9 DEF S
<1> QED BY <1>3, <1>10 DEF n, Has

LEMMA BaseIs ==
    ASSUME NEW T, NEW files \in Seq(T)
    PROVE  /\ Base(files) \in Seq(T)
           /\ Cardinality(WithContext(Base(files))) =
                  Cardinality({f \in WithContext(files) : files[f].stream = None})
<1> DEFINE part == [f \in DOMAIN files |->
                IF files[f].stream = None THEN <<files[f]>> ELSE <<>>]
           n == Len(files)
<1>1. n \in Nat /\ DOMAIN files = 1 .. n /\ \A f \in 1 .. n : files[f] \in T OBVIOUS
<1>2. part \in Seq(Seq(T)) /\ Len(part) = n BY <1>1
<1>3. ASSUME NEW f \in 1 .. n
      PROVE  /\ Len(part[f]) > 0 <=> files[f].stream = None
             /\ Len(part[f]) > 0 => part[f][1] = files[f]
             /\ 2 .. Len(part[f]) = {}
    <2>1. CASE files[f].stream = None
        <3>1. part[f] = <<files[f]>> BY <1>1, <2>1
        <3> QED BY <2>1, <3>1
    <2>2. CASE files[f].stream # None
        <3>1. part[f] = <<>> BY <1>1, <2>2
        <3> QED BY <2>2, <3>1
    <2> QED BY <2>1, <2>2
<1>4. Base(files) = FlattenSeq(part) BY DEF Base
<1> HIDE DEF part, n
<1>5. \A f \in 1 .. Len(part) : \A k \in 2 .. Len(part[f]) : part[f][k].ctx = None BY <1>2, <1>3
<1>6. {f \in 1 .. Len(part) : Len(part[f]) > 0 /\ part[f][1].ctx # None}
          = {f \in WithContext(files) : files[f].stream = None}
    BY <1>1, <1>2, <1>3 DEF WithContext
<1> QED BY <1>2, <1>4, <1>5, <1>6, CountContexts

\* The files keep their contexts in the table that replaces theirs.
LEMMA RebuiltIs ==
    ASSUME NEW T, _rgFileInfo \in Seq(T), \A stream \in STRING : NewFile(stream) \in T,
           NEW found \in [DOMAIN Base(_rgFileInfo) -> StreamLists], PageAssumption
    PROVE  /\ Rebuilt(found).files \in Seq(T)
           /\ Cardinality(WithContext(_rgFileInfo)) =
                  Cardinality(Rebuilt(found).closed) + Cardinality(WithContext(Rebuilt(found).files))
<1> DEFINE base == Base(_rgFileInfo)
           n == Len(base)
           streams == [b \in DOMAIN found |-> [k \in DOMAIN found[b] |-> NewFile(found[b][k])]]
           part == [b \in DOMAIN found |->
                <<Base(_rgFileInfo)[b]>> \o [k \in DOMAIN found[b] |-> NewFile(found[b][k])]]
<1>1. base \in Seq(T) BY BaseIs
<1>2. /\ n \in Nat /\ DOMAIN base = 1 .. n /\ DOMAIN found = 1 .. n
      /\ \A b \in 1 .. n : base[b] \in T
    BY <1>1
<1>3. ASSUME NEW b \in 1 .. n
      PROVE  /\ streams[b] \in Seq(T)
             /\ \A k \in 1 .. Len(streams[b]) : streams[b][k].ctx = None
    <2>1. found[b] \in Seq(STRING) BY <1>2 DEF PageAssumption
    <2> DEFINE s == found[b]
    <2>2. s \in Seq(STRING) BY <2>1
    <2>3. streams[b] = [k \in DOMAIN s |-> NewFile(s[k])] BY <1>2
    <2> HIDE DEF s
    <2>4. DOMAIN s = 1 .. Len(s) /\ Len(s) \in Nat /\ \A k \in 1 .. Len(s) : s[k] \in STRING BY <2>2
    <2>5. /\ [k \in DOMAIN s |-> NewFile(s[k])] \in Seq(T)
          /\ Len([k \in DOMAIN s |-> NewFile(s[k])]) = Len(s)
        <3> DEFINE g == [k \in DOMAIN s |-> NewFile(s[k])]
        <3>1. \A k \in 1 .. Len(s) : NewFile(s[k]) \in T BY <2>4
        <3>2. g \in [1 .. Len(s) -> T] BY <2>4, <3>1
        <3> HIDE DEF g
        <3>3. g \in Seq(T) /\ Len(g) = Len(s) BY <2>4, <3>2
        <3> QED BY <3>3 DEF g
    <2>6. ASSUME NEW k \in 1 .. Len(s) PROVE [j \in DOMAIN s |-> NewFile(s[j])][k].ctx = None
        BY <2>4 DEF NewFile
    <2> QED BY <2>3, <2>5, <2>6
<1>4. ASSUME NEW b \in 1 .. n PROVE part[b] = <<base[b]>> \o streams[b] BY <1>2
<1>5. part \in [1 .. n -> Seq(T)] /\ Rebuilt(found).files = FlattenSeq(part)
    <2> HIDE DEF streams, n, base
    <2>1. part = [b \in 1 .. n |-> <<base[b]>> \o streams[b]] BY <1>2, <1>4 DEF base, streams
    <2>2. ASSUME NEW b \in 1 .. n PROVE <<base[b]>> \o streams[b] \in Seq(T)
        <3>1. <<base[b]>> \in Seq(T) BY <1>2
        <3> QED BY <3>1, <1>3, ConcatProperties
    <2>3. Rebuilt(found).files = FlattenSeq(part) BY DEF Rebuilt, base
    <2> QED BY <2>1, <2>2, <2>3
<1>6. ASSUME NEW b \in 1 .. n
      PROVE  Len(part[b]) > 0 /\ part[b][1] = base[b] /\ \A k \in 2 .. Len(part[b]) : part[b][k].ctx = None
    <2> DEFINE s == <<base[b]>>
               t == streams[b]
    <2>1. s \in Seq(T) /\ Len(s) = 1 /\ s[1] = base[b] BY <1>2
    <2>2. t \in Seq(T) /\ part[b] = s \o t /\ \A k \in 1 .. Len(t) : t[k].ctx = None BY <1>3, <1>4
    <2> HIDE DEF s, t
    <2>3. Len(t) \in Nat BY <2>2
    <2>4. Len(s \o t) = 1 + Len(t) BY <2>1, <2>2, ConcatProperties
    <2>5. \A i \in 1 .. 1 + Len(t) : (s \o t)[i] = IF i <= 1 THEN s[i] ELSE t[i - 1]
        <3>1. \A i \in 1 .. Len(s) + Len(t) :
                  (s \o t)[i] = IF i <= Len(s) THEN s[i] ELSE t[i - Len(s)]
            BY <2>1, <2>2, ConcatProperties
        <3> QED BY <2>1, <3>1
    <2>6. (s \o t)[1] = s[1] /\ Len(s \o t) > 0 BY <2>3, <2>4, <2>5
    <2>7. ASSUME NEW k \in 2 .. Len(s \o t) PROVE (s \o t)[k].ctx = None
        <3>1. k - 1 \in 1 .. Len(t) /\ k \in 1 .. 1 + Len(t) /\ ~(k <= 1) BY <2>3, <2>4, <2>7
        <3> QED BY <3>1, <2>2, <2>5
    <2> QED BY <2>1, <2>2, <2>6, <2>7
<1> DEFINE kept == {f \in WithContext(_rgFileInfo) : _rgFileInfo[f].stream = None}
           closed == {f \in WithContext(_rgFileInfo) : _rgFileInfo[f].stream # None}
<1>7. Cardinality(WithContext(base)) = Cardinality(kept) BY BaseIs
<1>8. Rebuilt(found).closed = closed BY DEF Rebuilt
<1> HIDE DEF part, streams, base
<1>9. Len(part) = n /\ part \in Seq(Seq(T)) BY <1>2, <1>5
<1>10. {b \in 1 .. n : Len(part[b]) > 0 /\ part[b][1].ctx # None} = WithContext(base)
    BY <1>2, <1>6 DEF WithContext
<1> HIDE DEF n
<1>11. \A b \in 1 .. Len(part) : \A k \in 2 .. Len(part[b]) : part[b][k].ctx = None BY <1>6, <1>9
<1>12. /\ FlattenSeq(part) \in Seq(T)
       /\ Cardinality(WithContext(FlattenSeq(part))) = Cardinality(WithContext(base))
    BY <1>9, <1>10, <1>11, CountContexts
<1>13. Cardinality(WithContext(_rgFileInfo)) = Cardinality(closed) + Cardinality(kept)
    <2>1. IsFiniteSet(WithContext(_rgFileInfo)) BY ContextsFinite
    <2>2. kept \in SUBSET WithContext(_rgFileInfo) /\ closed \in SUBSET WithContext(_rgFileInfo) OBVIOUS
    <2>3. closed \intersect kept = {} /\ closed \union kept = WithContext(_rgFileInfo) OBVIOUS
    <2> HIDE DEF kept, closed
    <2>4. IsFiniteSet(kept) /\ IsFiniteSet(closed) BY <2>1, <2>2, FS_Subset
    <2>5. Cardinality(kept) \in Nat /\ Cardinality(closed) \in Nat BY <2>4, FS_CardinalityType
    <2>6. Cardinality(closed \union kept) = Cardinality(closed) + Cardinality(kept) - Cardinality(closed \intersect kept)
        BY <2>4, FS_Union
    <2>7. Cardinality(closed \intersect kept) = 0 BY <2>3, FS_EmptySet
    <2>8. Cardinality(WithContext(_rgFileInfo)) = Cardinality(closed) + Cardinality(kept) - 0
        BY <2>3, <2>6, <2>7
    <2> QED BY <2>5, <2>8
<1> QED BY <1>5, <1>7, <1>8, <1>12, <1>13

-----------------------------------------------------------------------------
(* The table of items as it is built.                                      *)

ItemRow == [file : Nat, frag : Nat]

\* ends[f] is the row, from 1, at which file f ends.
Ends(ends, files) ==
    /\ ends \in [0 .. Len(files) -> Nat] /\ ends[0] = 0
    /\ \A f \in 1 .. Len(files) :
        ends[f] = ends[f - 1] + CGROUPITEMSEXTRA + files[f].cFragments

\* The item at row k.
RowIs(x, k, ends) ==
    /\ ends[x.file - 1] < k /\ k <= ends[x.file]
    /\ x.frag = IF k - ends[x.file - 1] <= CGROUPITEMSEXTRA THEN INVALIDFRAGINDEX
                ELSE k - ends[x.file - 1] - CGROUPITEMSEXTRA

LEMMA EndsGrow ==
    ASSUME NEW T, NEW files \in Seq(T), \A f \in 1 .. Len(files) : files[f].cFragments \in Nat,
           NEW ends, Ends(ends, files), NEW j \in 0 .. Len(files), NEW i \in 0 .. j
    PROVE  ends[i] <= ends[j]
<1> DEFINE n == Len(files)
           S == {m \in 0 .. n : \A k \in 0 .. m : ends[k] <= ends[m]}
<1>1. n \in Nat OBVIOUS
<1>2. /\ \A m \in 0 .. n : ends[m] \in Nat
      /\ \A m \in 1 .. n : ends[m] = ends[m - 1] + CGROUPITEMSEXTRA + files[m].cFragments
      /\ \A f \in 1 .. n : files[f].cFragments \in Nat
    BY DEF Ends
<1>3. j \in 0 .. n /\ i \in 0 .. j OBVIOUS
<1> HIDE DEF n
<1>4. 0 \in S
    <2>1. \A k \in 0 .. 0 : k = 0 OBVIOUS
    <2>2. 0 \in 0 .. n /\ ends[0] \in Nat BY <1>1, <1>2
    <2> QED BY <2>1, <2>2
<1>5. ASSUME NEW m \in 0 .. n - 1, m \in S PROVE m + 1 \in S
    <2>1. m + 1 \in 1 .. n /\ m + 1 \in 0 .. n /\ m \in 0 .. n BY <1>1
    <2>2. ends[m] <= ends[m + 1]
        <3>1. ASSUME NEW l \in 1 .. n, l = m + 1 PROVE ends[m] <= ends[l]
            <4>1. l - 1 = m BY <3>1
            <4> QED BY <4>1, <1>2, <2>1 DEF CGROUPITEMSEXTRA
        <3> QED BY <2>1, <3>1
    <2>3. ASSUME NEW k \in 0 .. m + 1 PROVE ends[k] <= ends[m + 1]
        <3>1. CASE k = m + 1 BY <3>1, <1>2, <2>1
        <3>2. CASE k # m + 1
            <4>1. k \in 0 .. m /\ k \in 0 .. n BY <1>1, <2>1, <3>2
            <4>2. ends[k] <= ends[m] BY <4>1, <1>5
            <4> QED BY <4>1, <4>2, <2>1, <2>2, <1>2
        <3> QED BY <3>1, <3>2
    <2> QED BY <2>1, <2>3
<1> HIDE DEF S
<1>6. 0 .. n \subseteq S BY <1>1, <1>4, <1>5, Induction
<1>7. j \in S BY <1>3, <1>6
<1> QED BY <1>3, <1>7 DEF S

LEMMA FileItemsAre ==
    ASSUME NEW files, NEW f \in Nat, files[f].cFragments \in Nat
    PROVE  /\ FileItems(files, f) \in Seq(ItemRow)
           /\ Len(FileItems(files, f)) = CGROUPITEMSEXTRA + files[f].cFragments
           /\ \A k \in 1 .. Len(FileItems(files, f)) :
                /\ FileItems(files, f)[k].file = f
                /\ FileItems(files, f)[k].frag =
                       IF k <= CGROUPITEMSEXTRA THEN INVALIDFRAGINDEX ELSE k - CGROUPITEMSEXTRA
<1> DEFINE n == CGROUPITEMSEXTRA + files[f].cFragments
<1>1. n \in Nat BY DEF CGROUPITEMSEXTRA
<1>2. \A k \in 1 .. n :
          [file |-> f, frag |-> IF k <= CGROUPITEMSEXTRA THEN INVALIDFRAGINDEX
                                ELSE k - CGROUPITEMSEXTRA] \in ItemRow
    BY DEF CGROUPITEMSEXTRA, INVALIDFRAGINDEX, ItemRow
<1>3. FileItems(files, f) = [k \in 1 .. n |->
          [file |-> f, frag |-> IF k <= CGROUPITEMSEXTRA THEN INVALIDFRAGINDEX
                                ELSE k - CGROUPITEMSEXTRA]]
    BY DEF FileItems
<1> HIDE DEF n
<1>4. FileItems(files, f) \in [1 .. n -> ItemRow] BY <1>2, <1>3
<1>5. FileItems(files, f) \in Seq(ItemRow) /\ Len(FileItems(files, f)) = n BY <1>1, <1>4
<1>6. ASSUME NEW k \in 1 .. n
      PROVE  /\ FileItems(files, f)[k].file = f
             /\ FileItems(files, f)[k].frag =
                    IF k <= CGROUPITEMSEXTRA THEN INVALIDFRAGINDEX ELSE k - CGROUPITEMSEXTRA
    BY <1>3
<1> QED BY <1>5, <1>6 DEF n

\* What the flattening of the files' items says of each row.
LEMMA ItemsAre ==
    ASSUME NEW T, NEW files \in Seq(T), \A f \in 1 .. Len(files) : files[f].cFragments \in Nat
    PROVE  \E ends :
               /\ Ends(ends, files)
               /\ ItemsOf(files) \in Seq(ItemRow) /\ Len(ItemsOf(files)) = ends[Len(files)]
               /\ \A f \in 1 .. Len(files) : ItemBase(files, f) = ends[f - 1]
               /\ \A k \in 1 .. Len(ItemsOf(files)) :
                    ItemsOf(files)[k].file \in 1 .. Len(files) /\ RowIs(ItemsOf(files)[k], k, ends)
<1> DEFINE n == Len(files)
           part == [f \in DOMAIN files |-> FileItems(files, f)]
<1>1. n \in Nat /\ DOMAIN files = 1 .. n OBVIOUS
<1>2. ASSUME NEW f \in 1 .. n
      PROVE  /\ part[f] = FileItems(files, f) /\ part[f] \in Seq(ItemRow)
             /\ Len(part[f]) = CGROUPITEMSEXTRA + files[f].cFragments
             /\ \A k \in 1 .. Len(part[f]) :
                  /\ part[f][k].file = f
                  /\ part[f][k].frag = IF k <= CGROUPITEMSEXTRA THEN INVALIDFRAGINDEX
                                       ELSE k - CGROUPITEMSEXTRA
    <2>1. f \in Nat /\ files[f].cFragments \in Nat /\ part[f] = FileItems(files, f) BY <1>1
    <2> HIDE DEF part
    <2> QED BY <2>1, FileItemsAre
<1>3. part \in Seq(Seq(ItemRow)) /\ Len(part) = n
    <2>1. part = [f \in 1 .. n |-> part[f]] BY <1>1
    <2> HIDE DEF part
    <2>2. part \in [1 .. n -> Seq(ItemRow)] BY <1>2, <2>1
    <2> HIDE DEF n
    <2> QED BY <1>1, <2>2
<1>4. \A f \in 1 .. n : files[f].cFragments \in Nat OBVIOUS
<1>5. ItemsOf(files) = FlattenSeq(part) BY DEF ItemsOf
<1>6. \A f \in 1 .. n : ItemBase(files, f) = Len(FlattenSeq([g \in 1 .. f - 1 |-> part[g]]))
    <2> TAKE f \in 1 .. n
    <2>1. \A g \in 1 .. f - 1 : part[g] = FileItems(files, g) BY <1>1, <1>2
    <2> HIDE DEF part
    <2>2. [g \in 1 .. f - 1 |-> part[g]] = [g \in 1 .. f - 1 |-> FileItems(files, g)] BY <2>1
    <2> QED BY <2>2 DEF ItemBase
<1> HIDE DEF part, n
<1>7. PICK F : Flattens(F, part, ItemRow) BY <1>3, FlattensExists
<1>8. /\ F[0] = <<>> /\ \A m \in 0 .. n : F[m] \in Seq(ItemRow)
      /\ \A m \in 1 .. n : F[m] = F[m - 1] \o part[m]
    BY <1>3, <1>7 DEF Flattens
<1>9. FlattenSeq(part) = F[n] BY <1>3, <1>7, FlattenIs
<1> DEFINE ends == [m \in 0 .. n |-> Len(F[m])]
<1>10. \A m \in 0 .. n : ends[m] = Len(F[m]) /\ ends[m] \in Nat BY <1>8
<1>11. Ends(ends, files)
    <2>1. ends \in [0 .. n -> Nat] BY <1>10
    <2>2. ends[0] = 0
        <3>1. 0 \in 0 .. n BY <1>1
        <3> QED BY <3>1, <1>8
    <2>3. ASSUME NEW f \in 1 .. n
          PROVE  ends[f] = ends[f - 1] + CGROUPITEMSEXTRA + files[f].cFragments
        <3>1. f \in 0 .. n /\ f - 1 \in 0 .. n BY <1>1
        <3>2. F[f] = F[f - 1] \o part[f] /\ F[f - 1] \in Seq(ItemRow) /\ part[f] \in Seq(ItemRow)
            BY <1>2, <1>8, <3>1
        <3>3. Len(F[f]) = Len(F[f - 1]) + Len(part[f]) BY <3>2, ConcatProperties
        <3>4. Len(part[f]) = CGROUPITEMSEXTRA + files[f].cFragments BY <1>2
        <3>5. ends[f] = ends[f - 1] + (CGROUPITEMSEXTRA + files[f].cFragments)
            BY <1>10, <3>1, <3>3, <3>4
        <3>6. ends[f - 1] \in Nat /\ files[f].cFragments \in Nat BY <1>4, <1>10, <3>1
        <3> HIDE DEF ends
        <3>7. \A a, c \in Nat : a + (CGROUPITEMSEXTRA + c) = a + CGROUPITEMSEXTRA + c
            BY DEF CGROUPITEMSEXTRA
        <3> QED BY <3>5, <3>6, <3>7
    <2> HIDE DEF ends
    <2> QED BY <2>1, <2>2, <2>3 DEF Ends, n
<1> HIDE DEF ends
<1> DEFINE Good(m) == \A k \in 1 .. Len(F[m]) : F[m][k].file \in 1 .. m /\ RowIs(F[m][k], k, ends)
           S == {m \in 0 .. n : Good(m)}
<1>12. 0 \in S
    <2>1. Len(F[0]) = 0 /\ 0 \in 0 .. n BY <1>1, <1>8
    <2> QED BY <2>1
<1>13. ASSUME NEW m \in 0 .. n - 1, m \in S PROVE m + 1 \in S
    <2> DEFINE l == m + 1
               s == F[m]
               t == part[l]
    <2>1. l \in 1 .. n /\ l - 1 = m /\ m \in 0 .. n /\ l \in 0 .. n /\ m \in Nat BY <1>1
    <2> HIDE DEF l
    <2>2. F[l] = s \o t /\ s \in Seq(ItemRow) /\ t \in Seq(ItemRow)
        <3>1. F[l] = F[l - 1] \o part[l] BY <1>8, <2>1
        <3> QED BY <3>1, <2>1, <1>2, <1>8
    <2>3. Len(s) = ends[m] /\ Len(F[l]) = ends[l] /\ Len(s) \in Nat BY <1>10, <2>1, <2>2
    <2>4. \A k \in 1 .. Len(t) :
            /\ t[k].file = l
            /\ t[k].frag = IF k <= CGROUPITEMSEXTRA THEN INVALIDFRAGINDEX ELSE k - CGROUPITEMSEXTRA
        BY <1>2, <2>1
    <2>5. \A k \in 1 .. Len(s) : s[k].file \in 1 .. m /\ RowIs(s[k], k, ends) BY <1>13
    <2> HIDE DEF s, t
    <2>6. Len(F[l]) = Len(s) + Len(t) /\ Len(t) \in Nat BY <2>2, ConcatProperties
    <2>7. \A k \in 1 .. Len(s) + Len(t) : (s \o t)[k] = IF k <= Len(s) THEN s[k] ELSE t[k - Len(s)]
        BY <2>2, ConcatProperties
    <2>8. ASSUME NEW k \in 1 .. Len(F[l]) PROVE F[l][k].file \in 1 .. l /\ RowIs(F[l][k], k, ends)
        <3>1. CASE k <= Len(s)
            <4>1. k \in 1 .. Len(s) /\ F[l][k] = s[k] BY <2>2, <2>3, <2>6, <2>7, <3>1
            <4>2. \A f \in 1 .. m : f \in 1 .. l BY <2>1
            <4> QED BY <4>1, <4>2, <2>5
        <3>2. CASE ~(k <= Len(s))
            <4> DEFINE i == k - Len(s)
                       x == F[l][k]
            <4>1. i \in 1 .. Len(t) /\ x = t[i] BY <2>2, <2>3, <2>6, <2>7, <3>2
            <4>2. /\ x.file = l
                  /\ x.frag = IF i <= CGROUPITEMSEXTRA THEN INVALIDFRAGINDEX ELSE i - CGROUPITEMSEXTRA
                BY <4>1, <2>4
            <4>3. ends[l - 1] = Len(s) /\ k <= ends[l] /\ ends[l - 1] < k
                BY <2>1, <2>3, <3>2
            <4>4. RowIs(x, k, ends)
                <5> HIDE DEF x
                <5> QED BY <4>2, <4>3 DEF RowIs
            <4>5. l \in 1 .. l BY <2>1
            <4> HIDE DEF i
            <4> QED BY <4>2, <4>4, <4>5
        <3> QED BY <3>1, <3>2
    <2>9. Good(l) BY <2>8
    <2> HIDE DEF Good
    <2> QED BY <2>1, <2>9 DEF l
<1> HIDE DEF S
<1>14. 0 .. n \subseteq S BY <1>1, <1>12, <1>13, Induction
<1>15. n \in S /\ n \in 0 .. n BY <1>1, <1>14
<1>16. Good(n) BY <1>15 DEF S
<1>17. ASSUME NEW f \in 1 .. n PROVE ItemBase(files, f) = ends[f - 1]
    <2>1. f - 1 \in 0 .. n BY <1>1
    <2> DEFINE m == f - 1
    <2>2. m \in 0 .. Len(part) BY <2>1, <1>3
    <2>3. ItemBase(files, f) = Len(FlattenSeq([g \in 1 .. m |-> part[g]])) BY <1>6
    <2>4. ends[m] = Len(F[m]) BY <1>10, <2>1
    <2> HIDE DEF m
    <2>5. FlattenSeq([i \in 1 .. m |-> part[i]]) = F[m] BY <1>3, <1>7, <2>2, FlattenPrefix
    <2> QED BY <2>3, <2>4, <2>5 DEF m
<1>18. ItemsOf(files) = F[n] /\ F[n] \in Seq(ItemRow) /\ Len(F[n]) = ends[n]
    BY <1>5, <1>8, <1>9, <1>10, <1>15
<1> QED BY <1>11, <1>16, <1>17, <1>18 DEF n

\* The order that every table of items keeps, however it is sorted: the files one
\* after the other, the heading of each before its fragments.
Key(x) == 2 * x.file + (IF x.frag = INVALIDFRAGINDEX THEN 0 ELSE 1)
Grouped(items) ==
    \A k, l \in 1 .. Len(items) : k <= l => Key(items[k]) <= Key(items[l])
Distinct(items) ==
    \A k, l \in 1 .. Len(items) :
        /\ k # l /\ items[k].file = items[l].file
        /\ items[k].frag # INVALIDFRAGINDEX /\ items[l].frag # INVALIDFRAGINDEX
        => items[k].frag # items[l].frag
OfFiles(items, files) ==
    items \in Seq(ItemRow) /\ \A k \in 1 .. Len(items) : items[k].file \in 1 .. Len(files)

LEMMA ItemsBuilt ==
    ASSUME NEW T, NEW files \in Seq(T), \A f \in 1 .. Len(files) : files[f].cFragments \in Nat
    PROVE  /\ OfFiles(ItemsOf(files), files)
           /\ Grouped(ItemsOf(files)) /\ Distinct(ItemsOf(files))
           /\ \A f \in 1 .. Len(files) : ItemBase(files, f) \in Nat
           /\ \A k \in 1 .. Len(ItemsOf(files)) :
                LET base == ItemBase(files, ItemsOf(files)[k].file)
                IN  ItemsOf(files)[k].frag = INVALIDFRAGINDEX
                        <=> k - 1 \in base .. base + CGROUPITEMSEXTRA - 1
<1> DEFINE items == ItemsOf(files)
           n == Len(files)
<1>1. PICK ends :
          /\ Ends(ends, files)
          /\ ItemsOf(files) \in Seq(ItemRow) /\ Len(ItemsOf(files)) = ends[Len(files)]
          /\ \A f \in 1 .. Len(files) : ItemBase(files, f) = ends[f - 1]
          /\ \A k \in 1 .. Len(ItemsOf(files)) :
               ItemsOf(files)[k].file \in 1 .. Len(files) /\ RowIs(ItemsOf(files)[k], k, ends)
    BY ItemsAre
<1>2. items \in Seq(ItemRow) /\ n \in Nat BY <1>1
<1>3. \A k \in 1 .. Len(items) :
          items[k] \in ItemRow /\ items[k].file \in 1 .. n /\ RowIs(items[k], k, ends)
    BY <1>1
<1>4. \A m \in 0 .. n : ends[m] \in Nat BY <1>1 DEF Ends
<1>5. \A f \in 1 .. n : ItemBase(files, f) = ends[f - 1] BY <1>1
<1>6. \A i, j \in 0 .. n : i <= j => ends[i] <= ends[j]
    <2> TAKE i, j \in 0 .. n
    <2> HAVE i <= j
    <2>1. i \in 0 .. j /\ j \in 0 .. Len(files) OBVIOUS
    <2> QED BY <1>1, <2>1, EndsGrow
<1> HIDE DEF items, n
<1>7. ASSUME NEW k \in 1 .. Len(items), NEW l \in 1 .. Len(items), k <= l
      PROVE  items[k].file <= items[l].file
    <2> DEFINE f == items[k].file
               g == items[l].file
    <2>1. f \in 1 .. n /\ g \in 1 .. n /\ ends[f - 1] < k /\ l <= ends[g] BY <1>3 DEF RowIs
    <2> HIDE DEF f, g
    <2>2. CASE f <= g BY <2>2 DEF f, g
    <2>3. CASE ~(f <= g)
        <3>1. g \in 0 .. n /\ f - 1 \in 0 .. n /\ g <= f - 1 BY <1>2, <2>1, <2>3
        <3>2. ends[g] <= ends[f - 1] /\ ends[g] \in Nat /\ ends[f - 1] \in Nat BY <3>1, <1>4, <1>6
        <3> QED BY <2>1, <3>2, <1>7
    <2> QED BY <2>2, <2>3
<1>8. ASSUME NEW k \in 1 .. Len(items)
      PROVE  LET e == ends[items[k].file - 1]
             IN  /\ e \in Nat
                 /\ items[k].frag = IF k - e <= 3 THEN 0 ELSE k - e - 3
    <2>1. items[k].file - 1 \in 0 .. n BY <1>2, <1>3
    <2> QED BY <2>1, <1>3, <1>4 DEF RowIs, CGROUPITEMSEXTRA, INVALIDFRAGINDEX
<1>9. Grouped(items)
    <2> SUFFICES ASSUME NEW k \in 1 .. Len(items), NEW l \in 1 .. Len(items), k <= l
                 PROVE  Key(items[k]) <= Key(items[l])
        BY DEF Grouped
    <2>1. items[k].file <= items[l].file BY <1>7
    <2>2. items[k].file \in Nat /\ items[l].file \in Nat BY <1>3
    <2>3. CASE items[k].file = items[l].file
        <3> DEFINE e == ends[items[k].file - 1]
        <3>1. /\ e \in Nat /\ items[k].frag = IF k - e <= 3 THEN 0 ELSE k - e - 3
              /\ items[l].frag = IF l - e <= 3 THEN 0 ELSE l - e - 3
            BY <1>8, <2>3
        <3> HIDE DEF e
        <3>2. items[k].frag # 0 => items[l].frag # 0 BY <3>1
        <3> QED BY <2>2, <2>3, <3>2 DEF Key, INVALIDFRAGINDEX
    <2>4. CASE items[k].file # items[l].file
        <3>1. 2 * items[k].file + 1 <= 2 * items[l].file BY <2>1, <2>2, <2>4
        <3> QED BY <2>2, <3>1 DEF Key
    <2> QED BY <2>3, <2>4
<1>10. Distinct(items)
    <2> SUFFICES ASSUME NEW k \in 1 .. Len(items), NEW l \in 1 .. Len(items), k # l,
                        items[k].file = items[l].file, items[k].frag # 0, items[l].frag # 0
                 PROVE  items[k].frag # items[l].frag
        BY DEF Distinct, INVALIDFRAGINDEX
    <2> DEFINE e == ends[items[k].file - 1]
    <2>1. /\ e \in Nat /\ items[k].frag = IF k - e <= 3 THEN 0 ELSE k - e - 3
          /\ items[l].frag = IF l - e <= 3 THEN 0 ELSE l - e - 3
        BY <1>8
    <2> HIDE DEF e
    <2> QED BY <2>1
<1>11. ASSUME NEW f \in 1 .. n PROVE ItemBase(files, f) \in Nat
    <2>1. f - 1 \in 0 .. n BY <1>2
    <2> QED BY <2>1, <1>4, <1>5
<1>12. ASSUME NEW k \in 1 .. Len(items)
       PROVE  LET base == ItemBase(files, items[k].file)
              IN  items[k].frag = INVALIDFRAGINDEX
                      <=> k - 1 \in base .. base + CGROUPITEMSEXTRA - 1
    <2> DEFINE e == ends[items[k].file - 1]
    <2>1. e \in Nat /\ items[k].frag = IF k - e <= 3 THEN 0 ELSE k - e - 3 BY <1>8
    <2>2. ItemBase(files, items[k].file) = e /\ e < k BY <1>3, <1>5 DEF RowIs
    <2> HIDE DEF e
    <2>3. items[k].frag = 0 <=> k - 1 \in e .. e + 3 - 1 BY <2>1, <2>2
    <2> QED BY <2>2, <2>3 DEF INVALIDFRAGINDEX, CGROUPITEMSEXTRA
<1> QED BY <1>2, <1>3, <1>9, <1>10, <1>11, <1>12 DEF OfFiles, items, n

-----------------------------------------------------------------------------
(* Sorting.                                                                *)

\* p numbers the elements 1 .. n anew.
Renumbers(p, n) ==
    /\ p \in [1 .. n -> 1 .. n]
    /\ \A j \in 1 .. n : \E k \in 1 .. n : p[k] = j
    /\ \A k, l \in 1 .. n : k # l => p[k] # p[l]

\* R is a strict total order on 1 .. n.
Orders(R, n) ==
    /\ R \in SUBSET ((1 .. n) \X (1 .. n))
    /\ \A i \in 1 .. n : <<i, i>> \notin R
    /\ \A i, j, k \in 1 .. n : <<i, j>> \in R /\ <<j, k>> \in R => <<i, k>> \in R
    /\ \A i, j \in 1 .. n : i # j => <<i, j>> \in R \/ <<j, i>> \in R

Ranks(rank, R, n) ==
    \A j \in 1 .. n : rank[j] = Cardinality({i \in 1 .. n : <<i, j>> \in R})
ByRank(rank, n) == [k \in 1 .. n |-> CHOOSE i \in 1 .. n : rank[i] = k - 1]
KeepsTo(p, R, n) == \A k, l \in 1 .. n : k < l => <<p[k], p[l]>> \in R

\* Elements numbered by how many come before them are in order.
LEMMA RankSorts ==
    ASSUME NEW n \in Nat, NEW R, Orders(R, n), NEW rank, Ranks(rank, R, n)
    PROVE  Renumbers(ByRank(rank, n), n) /\ KeepsTo(ByRank(rank, n), R, n)
<1> DEFINE Before(j) == {i \in 1 .. n : <<i, j>> \in R}
           p == ByRank(rank, n)
<1>0. /\ \A i \in 1 .. n : <<i, i>> \notin R
      /\ \A i, j, k \in 1 .. n : <<i, j>> \in R /\ <<j, k>> \in R => <<i, k>> \in R
      /\ \A i, j \in 1 .. n : i # j => <<i, j>> \in R \/ <<j, i>> \in R
    BY DEF Orders
<1>1. IsFiniteSet(1 .. n) /\ Cardinality(1 .. n) = n
    <2>1. n > 0 \/ n = 0 OBVIOUS
    <2>2. IsFiniteSet(1 .. n) /\ Cardinality(1 .. n) = IF 1 > n THEN 0 ELSE n - 1 + 1
        BY FS_Interval
    <2> QED BY <2>1, <2>2
<1>2. ASSUME NEW j \in 1 .. n
      PROVE  IsFiniteSet(Before(j)) /\ rank[j] \in 0 .. n - 1 /\ rank[j] = Cardinality(Before(j))
    <2>1. Before(j) \in SUBSET ((1 .. n) \ {j}) BY <1>0
    <2>2. IsFiniteSet((1 .. n) \ {j}) /\ Cardinality((1 .. n) \ {j}) = n - 1
        BY <1>1, FS_RemoveElement
    <2>3. rank[j] = Cardinality(Before(j)) BY DEF Ranks
    <2> HIDE DEF Before
    <2>4. IsFiniteSet(Before(j)) /\ Cardinality(Before(j)) <= n - 1 BY <2>1, <2>2, FS_Subset
    <2>5. Cardinality(Before(j)) \in Nat BY <2>4, FS_CardinalityType
    <2> QED BY <2>3, <2>4, <2>5
<1>3. ASSUME NEW i \in 1 .. n, NEW j \in 1 .. n, <<i, j>> \in R PROVE rank[i] < rank[j]
    <2>1. Before(i) \subseteq Before(j) BY <1>0, <1>3
    <2>2. i \in Before(j) /\ i \notin Before(i) BY <1>0, <1>3
    <2> HIDE DEF Before
    <2>3. Cardinality(Before(i)) <= Cardinality(Before(j)) /\ Cardinality(Before(i)) # Cardinality(Before(j))
        BY <1>2, <2>1, <2>2, FS_Subset
    <2>4. rank[i] \in Int /\ rank[j] \in Int BY <1>2
    <2> QED BY <1>2, <2>3, <2>4
<1> HIDE DEF Before
<1>9. \A j \in 1 .. n : rank[j] \in 0 .. n - 1 /\ rank[j] \in Int
    <2> TAKE j \in 1 .. n
    <2>1. rank[j] \in 0 .. n - 1 BY <1>2
    <2> QED BY <2>1
<1>4. \A i, j \in 1 .. n : rank[i] = rank[j] => i = j
    <2> TAKE i, j \in 1 .. n
    <2>1. rank[i] \in Int /\ rank[j] \in Int BY <1>9
    <2>2. <<i, j>> \in R => rank[i] < rank[j] BY <1>3
    <2>3. <<j, i>> \in R => rank[j] < rank[i] BY <1>3
    <2> QED BY <1>0, <2>1, <2>2, <2>3
<1>5. \A k \in 1 .. n : \E i \in 1 .. n : rank[i] = k - 1
    <2> DEFINE g == [i \in 1 .. n |-> rank[i]]
               T == 0 .. n - 1
    <2>1. IsFiniteSet(T) /\ Cardinality(T) = n
        <3>1. IsFiniteSet(0 .. n - 1) /\ Cardinality(0 .. n - 1) = IF 0 > n - 1 THEN 0 ELSE n - 1 - 0 + 1
            BY FS_Interval
        <3> QED BY <3>1
    <2>2. g \in Injection(1 .. n, T)
        <3>1. g \in [1 .. n -> T] BY <1>2
        <3>2. \A i, j \in 1 .. n : g[i] = g[j] => i = j BY <1>4
        <3> QED BY <3>1, <3>2 DEF Injection, IsInjective
    <2> HIDE DEF T
    <2>3. g \in Surjection(1 .. n, T) BY <1>1, <2>1, <2>2, FS_Injection
    <2> TAKE k \in 1 .. n
    <2>4. k - 1 \in T BY DEF T
    <2>5. \E i \in 1 .. n : g[i] = k - 1 BY <2>3, <2>4 DEF Surjection
    <2> QED BY <2>5
<1>6. \A k \in 1 .. n : p[k] \in 1 .. n /\ rank[p[k]] = k - 1
    <2> TAKE k \in 1 .. n
    <2>1. p[k] = CHOOSE i \in 1 .. n : rank[i] = k - 1 BY DEF ByRank
    <2>2. \E i \in 1 .. n : rank[i] = k - 1 BY <1>5
    <2> HIDE DEF p
    <2> QED BY <2>1, <2>2
<1> HIDE DEF p
<1>7. \A j \in 1 .. n : \E k \in 1 .. n : p[k] = j
    <2> TAKE j \in 1 .. n
    <2> DEFINE k == rank[j] + 1
    <2>1. k \in 1 .. n /\ rank[j] = k - 1 BY <1>9
    <2> HIDE DEF k
    <2>2. rank[p[k]] = rank[j] /\ p[k] \in 1 .. n BY <1>6, <2>1
    <2>3. p[k] = j BY <1>4, <2>2
    <2> QED BY <2>1, <2>3
<1>8. KeepsTo(p, R, n)
    <2> SUFFICES ASSUME NEW k \in 1 .. n, NEW l \in 1 .. n, k < l PROVE <<p[k], p[l]>> \in R
        BY DEF KeepsTo
    <2> DEFINE x == p[k]
               y == p[l]
    <2>1. x \in 1 .. n /\ y \in 1 .. n /\ rank[x] = k - 1 /\ rank[y] = l - 1 BY <1>6
    <2> HIDE DEF x, y
    <2>2. x # y /\ ~(rank[y] < rank[x]) BY <2>1
    <2>3. <<y, x>> \notin R BY <1>3, <2>1, <2>2
    <2>4. <<x, y>> \in R BY <1>0, <2>1, <2>2, <2>3
    <2> QED BY <2>4 DEF x, y
<1>10. \A k, l \in 1 .. n : k # l => p[k] # p[l]
    <2> TAKE k, l \in 1 .. n
    <2>1. rank[p[k]] = k - 1 /\ rank[p[l]] = l - 1 BY <1>6
    <2> QED BY <2>1
<1>11. p \in [1 .. n -> 1 .. n]
    <2>1. p = [k \in 1 .. n |-> p[k]] BY DEF p, ByRank
    <2> QED BY <1>6, <2>1
<1> QED BY <1>7, <1>8, <1>10, <1>11 DEF Renumbers, p

FragmentInformation == [clusters : Nat, extents : Nat, virtual : BOOLEAN]

LEMMA InfoIs ==
    ASSUME PageAssumption, _rgFileInfo \in Seq(FileRow), NEW x \in ItemRow,
           x.file \in 1 .. Len(_rgFileInfo)
    PROVE  Info(x) \in FragmentInformation
<1> DEFINE ctx == _rgFileInfo[x.file].ctx
<1>1. _rgFileInfo[x.file] \in FileRow OBVIOUS
<1>2. ctx \in FileLayouts \union {None} BY <1>1 DEF FileRow
<1>3. FileLayouts \subseteq Seq(FragmentInformation) BY DEF PageAssumption, FragmentInformation
<1>4. Info(x) = IF ctx # None /\ x.frag \in 1 .. Len(ctx) THEN ctx[x.frag]
                ELSE [clusters |-> 0, extents |-> 0, virtual |-> FALSE]
    BY DEF Info
<1> HIDE DEF ctx
<1>5. CASE ctx # None /\ x.frag \in 1 .. Len(ctx)
    <2>1. ctx \in Seq(FragmentInformation) BY <1>2, <1>3, <1>5
    <2>2. ctx[x.frag] \in FragmentInformation BY <2>1, <1>5
    <2> QED BY <2>2, <1>4, <1>5
<1>6. CASE ~(ctx # None /\ x.frag \in 1 .. Len(ctx)) BY <1>4, <1>6 DEF FragmentInformation
<1> QED BY <1>5, <1>6

\* What a column is sorted by, before the numbers of the fragments.
Weight(x, column) ==
    IF column = MapIdSequence THEN 0
    ELSE IF column = MapIdPercentage THEN (IF Info(x).virtual THEN 0 ELSE 1)
    ELSE IF column = MapIdExtents THEN Info(x).extents
    ELSE Info(x).clusters
Lesser(x, column) ==
    IF column \in {MapIdPercentage, MapIdExtents} THEN Info(x).clusters ELSE 0
Greater(a, b, column) ==
    \/ Weight(a, column) > Weight(b, column)
    \/ Weight(a, column) = Weight(b, column) /\ Lesser(a, column) > Lesser(b, column)
    \/ /\ Weight(a, column) = Weight(b, column) /\ Lesser(a, column) = Lesser(b, column)
       /\ a.frag > b.frag

LEMMA WeightsAre ==
    ASSUME NEW x, Info(x) \in FragmentInformation, NEW column
    PROVE  Weight(x, column) \in Nat /\ Lesser(x, column) \in Nat
<1>1. Info(x).clusters \in Nat /\ Info(x).extents \in Nat BY DEF FragmentInformation
<1> QED BY <1>1 DEF Weight, Lesser

LEMMA FragmentsCompared ==
    ASSUME NEW a \in ItemRow, NEW b \in ItemRow, a.file = b.file,
           a.frag # INVALIDFRAGINDEX, b.frag # INVALIDFRAGINDEX,
           Info(a) \in FragmentInformation, Info(b) \in FragmentInformation,
           NEW column, NEW asc \in BOOLEAN
    PROVE  CompareItemInfo(a, b, column, asc) =
               (IF asc THEN 1 ELSE -1) * Sign(Greater(a, b, column))
<1> DEFINE va == Info(a).virtual
           vb == Info(b).virtual
<1>1. CompareSequence(a, b, asc) = Sign(a.frag > b.frag) BY DEF CompareSequence
<1>2. va \in BOOLEAN /\ vb \in BOOLEAN BY DEF FragmentInformation
<1>3. /\ Info(a).clusters \in Nat /\ Info(a).extents \in Nat
      /\ Info(b).clusters \in Nat /\ Info(b).extents \in Nat
    BY DEF FragmentInformation
<1>4. /\ MapIdSequence = 0 /\ MapIdSize = 1 /\ MapIdPercentage = 2 /\ MapIdExtents = 4
      /\ \A x \in {a, b} : INVALIDFRAGINDEX # x.frag
    BY DEF MapIdSequence, MapIdSize, MapIdPercentage, MapIdExtents
<1>5. CompareSize(a, b, asc) = Sign(\/ Info(a).clusters > Info(b).clusters
                                    \/ Info(a).clusters = Info(b).clusters /\ a.frag > b.frag)
    BY <1>1, <1>3 DEF CompareSize, Sign
<1>6. CASE column = MapIdSequence
    <2>1. CompareItemInfo(a, b, column, asc) = (IF asc THEN 1 ELSE -1) * Sign(a.frag > b.frag)
        BY <1>1, <1>4, <1>6 DEF CompareItemInfo
    <2>2. Greater(a, b, column) <=> a.frag > b.frag
        BY <1>4, <1>6 DEF Greater, Weight, Lesser
    <2> QED BY <2>1, <2>2 DEF Sign
<1>7. CASE column = MapIdPercentage
    <2>1. CompareItemInfo(a, b, column, asc) = (IF asc THEN 1 ELSE -1) * ComparePercentage(a, b, asc)
        BY <1>4, <1>7 DEF CompareItemInfo
    <2>2. /\ Weight(a, column) = IF va THEN 0 ELSE 1
          /\ Weight(b, column) = IF vb THEN 0 ELSE 1
          /\ Lesser(a, column) = Info(a).clusters /\ Lesser(b, column) = Info(b).clusters
        BY <1>4, <1>7 DEF Weight, Lesser
    <2>3. ComparePercentage(a, b, asc) = IF va = vb THEN CompareSize(a, b, asc) ELSE Sign(vb)
        BY DEF ComparePercentage
    <2> HIDE DEF va, vb
    <2>4. CASE va = vb
        <3>1. Weight(a, column) = Weight(b, column) /\ Weight(a, column) \in Nat BY <2>2, <2>4
        <3>2. Greater(a, b, column) <=> \/ Info(a).clusters > Info(b).clusters
                                        \/ Info(a).clusters = Info(b).clusters /\ a.frag > b.frag
            BY <3>1, <2>2 DEF Greater
        <3> QED BY <3>2, <2>1, <2>3, <2>4, <1>5 DEF Sign
    <2>5. CASE va = TRUE /\ vb = FALSE
        <3>1. Weight(a, column) = 0 /\ Weight(b, column) = 1 BY <2>2, <2>5
        <3>2. ~Greater(a, b, column) BY <3>1 DEF Greater
        <3> QED BY <3>2, <2>1, <2>3, <2>5 DEF Sign
    <2>6. CASE va = FALSE /\ vb = TRUE
        <3>1. Weight(a, column) = 1 /\ Weight(b, column) = 0 BY <2>2, <2>6
        <3>2. Greater(a, b, column) BY <3>1 DEF Greater
        <3> QED BY <3>2, <2>1, <2>3, <2>6 DEF Sign
    <2> QED BY <2>4, <2>5, <2>6, <1>2
<1>8. CASE column = MapIdExtents
    <2>1. CompareItemInfo(a, b, column, asc) = (IF asc THEN 1 ELSE -1) * CompareExtents(a, b, asc)
        BY <1>4, <1>8 DEF CompareItemInfo
    <2>2. Greater(a, b, column) <=>
              \/ Info(a).extents > Info(b).extents
              \/ Info(a).extents = Info(b).extents /\ Info(a).clusters > Info(b).clusters
              \/ /\ Info(a).extents = Info(b).extents /\ Info(a).clusters = Info(b).clusters
                 /\ a.frag > b.frag
        BY <1>4, <1>8 DEF Greater, Weight, Lesser
    <2>3. CompareExtents(a, b, asc) = Sign(Greater(a, b, column))
        BY <2>2, <1>3, <1>5 DEF CompareExtents, Sign
    <2> QED BY <2>1, <2>3
<1>9. CASE column \notin {MapIdSequence, MapIdPercentage, MapIdExtents}
    <2>1. CompareItemInfo(a, b, column, asc) = (IF asc THEN 1 ELSE -1) * CompareSize(a, b, asc)
        BY <1>4, <1>9 DEF CompareItemInfo
    <2>2. Greater(a, b, column) <=>
              \/ Info(a).clusters > Info(b).clusters
              \/ Info(a).clusters = Info(b).clusters /\ a.frag > b.frag
        BY <1>4, <1>9 DEF Greater, Weight, Lesser
    <2> QED BY <2>1, <2>2, <1>5 DEF Sign
<1> QED BY <1>6, <1>7, <1>8, <1>9

\* One item comes before another: by file, a heading before the fragments, and the
\* fragments as the column says.
LEMMA PrecedesIs ==
    ASSUME PageAssumption, _rgFileInfo \in Seq(FileRow), NEW items, OfFiles(items, _rgFileInfo),
           Distinct(items), NEW column, NEW asc \in BOOLEAN,
           NEW i \in 1 .. Len(items), NEW j \in 1 .. Len(items), i # j
    PROVE  Precedes(items, i, j, column, asc) <=>
               \/ items[i].file < items[j].file
               \/ /\ items[i].file = items[j].file
                  /\ \/ items[i].frag = 0 /\ items[j].frag # 0
                     \/ items[i].frag = 0 /\ items[j].frag = 0 /\ i < j
                     \/ /\ items[i].frag # 0 /\ items[j].frag # 0
                        /\ IF asc THEN Greater(items[j], items[i], column)
                           ELSE Greater(items[i], items[j], column)
<1> DEFINE a == items[i]
           b == items[j]
           c == CompareItemInfo(a, b, column, asc)
<1>1. a \in ItemRow /\ b \in ItemRow /\ a.file \in 1 .. Len(_rgFileInfo) /\ b.file \in 1 .. Len(_rgFileInfo)
    BY DEF OfFiles
<1>2. Info(a) \in FragmentInformation /\ Info(b) \in FragmentInformation
    <2> HIDE DEF a, b
    <2> QED BY <1>1, InfoIs
<1>3. Precedes(items, i, j, column, asc) <=> c < 0 \/ (c = 0 /\ i < j) BY DEF Precedes
<1>4. a.file = b.file /\ a.frag # 0 /\ b.frag # 0 => a.frag # b.frag
    BY DEF Distinct, INVALIDFRAGINDEX
<1> HIDE DEF a, b
<1>5. a.file \in Nat /\ b.file \in Nat /\ a.frag \in Nat /\ b.frag \in Nat BY <1>1 DEF ItemRow
<1>6. CASE a.file # b.file
    <2>1. c = Sign(a.file > b.file) BY <1>6 DEF CompareItemInfo
    <2>2. c < 0 <=> a.file < b.file BY <2>1, <1>5, <1>6 DEF Sign
    <2>3. c # 0 BY <2>1 DEF Sign
    <2> HIDE DEF c
    <2> QED BY <2>2, <2>3, <1>3, <1>6 DEF a, b
<1>7. CASE a.file = b.file /\ (a.frag = 0 \/ b.frag = 0)
    <2>1. c = (IF asc THEN 1 ELSE -1) * CompareSequence(a, b, asc)
        BY <1>7 DEF CompareItemInfo, INVALIDFRAGINDEX
    <2> HIDE DEF c
    <2>2. /\ a.frag = 0 /\ b.frag = 0 => c = 0
          /\ a.frag = 0 /\ b.frag # 0 => c = -1
          /\ a.frag # 0 /\ b.frag = 0 => c = 1
        BY <2>1 DEF CompareSequence, Sign, INVALIDFRAGINDEX
    <2>3. ~(a.file < b.file) BY <1>5, <1>7
    <2> QED BY <2>2, <2>3, <1>3, <1>7 DEF a, b
<1>8. CASE a.file = b.file /\ a.frag # 0 /\ b.frag # 0
    <2>1. c = (IF asc THEN 1 ELSE -1) * Sign(Greater(a, b, column))
        BY <1>1, <1>2, <1>8, FragmentsCompared DEF INVALIDFRAGINDEX
    <2> HIDE DEF c
    <2>2. /\ Weight(a, column) \in Nat /\ Lesser(a, column) \in Nat
          /\ Weight(b, column) \in Nat /\ Lesser(b, column) \in Nat
        BY <1>2, WeightsAre
    <2>3. Greater(b, a, column) <=> ~Greater(a, b, column)
        BY <1>4, <1>5, <1>8, <2>2 DEF Greater
    <2>4. c # 0 /\ (c < 0 <=> IF asc THEN Greater(b, a, column) ELSE Greater(a, b, column))
        BY <2>1, <2>3 DEF Sign
    <2>5. ~(a.file < b.file) BY <1>5, <1>8
    <2> QED BY <2>4, <2>5, <1>3, <1>8 DEF a, b
<1> QED BY <1>6, <1>7, <1>8

Sorts(p, items, column, asc) ==
    /\ Renumbers(p, Len(items))
    /\ Sorted(items, column, asc) = [k \in 1 .. Len(items) |-> items[p[k]]]
    /\ \A k, l \in 1 .. Len(items) : k < l => Precedes(items, p[k], p[l], column, asc)

LEMMA SortedIs ==
    ASSUME PageAssumption, _rgFileInfo \in Seq(FileRow), NEW items, OfFiles(items, _rgFileInfo),
           Distinct(items), NEW column, NEW asc \in BOOLEAN
    PROVE  \E p : Sorts(p, items, column, asc)
<1> DEFINE n == Len(items)
           f == [i \in 1 .. n |-> items[i].file]
           g == [i \in 1 .. n |-> items[i].frag]
           w == [i \in 1 .. n |-> Weight(items[i], column)]
           v == [i \in 1 .. n |-> Lesser(items[i], column)]
           R == {q \in (1 .. n) \X (1 .. n) : Precedes(items, q[1], q[2], column, asc)}
           More(i, j) == \/ w[i] > w[j]
                         \/ w[i] = w[j] /\ v[i] > v[j]
                         \/ w[i] = w[j] /\ v[i] = v[j] /\ g[i] > g[j]
           First(i, j) == \/ f[i] < f[j]
                          \/ /\ f[i] = f[j]
                             /\ \/ g[i] = 0 /\ g[j] # 0
                                \/ g[i] = 0 /\ g[j] = 0 /\ i < j
                                \/ /\ g[i] # 0 /\ g[j] # 0
                                   /\ IF asc THEN More(j, i) ELSE More(i, j)
           rank == [j \in DOMAIN items |->
                       Cardinality({i \in DOMAIN items : Precedes(items, i, j, column, asc)})]
           p == ByRank(rank, n)
<1>1. n \in Nat /\ DOMAIN items = 1 .. n BY DEF OfFiles
<1>2. \A i \in 1 .. n : f[i] \in Int /\ g[i] \in Int /\ w[i] \in Int /\ v[i] \in Int
    <2> TAKE i \in 1 .. n
    <2> DEFINE x == items[i]
    <2>1. x \in ItemRow /\ x.file \in 1 .. Len(_rgFileInfo) BY DEF OfFiles
    <2>2. f[i] = x.file /\ g[i] = x.frag /\ w[i] = Weight(x, column) /\ v[i] = Lesser(x, column)
        OBVIOUS
    <2> HIDE DEF x, f, g, w, v
    <2>3. Info(x) \in FragmentInformation BY <2>1, InfoIs
    <2>4. Weight(x, column) \in Nat /\ Lesser(x, column) \in Nat BY <2>3, WeightsAre
    <2>5. x.file \in Nat /\ x.frag \in Nat BY <2>1 DEF ItemRow
    <2> QED BY <2>2, <2>4, <2>5
<1>3. ASSUME NEW i \in 1 .. n, NEW j \in 1 .. n, i # j
      PROVE  Precedes(items, i, j, column, asc) <=> First(i, j)
    <2>1. Precedes(items, i, j, column, asc) <=>
               \/ items[i].file < items[j].file
               \/ /\ items[i].file = items[j].file
                  /\ \/ items[i].frag = 0 /\ items[j].frag # 0
                     \/ items[i].frag = 0 /\ items[j].frag = 0 /\ i < j
                     \/ /\ items[i].frag # 0 /\ items[j].frag # 0
                        /\ IF asc THEN Greater(items[j], items[i], column)
                           ELSE Greater(items[i], items[j], column)
        BY <1>3, PrecedesIs
    <2>2. /\ Greater(items[j], items[i], column) <=> More(j, i)
          /\ Greater(items[i], items[j], column) <=> More(i, j)
        BY DEF Greater
    <2>3. /\ f[i] = items[i].file /\ f[j] = items[j].file
          /\ g[i] = items[i].frag /\ g[j] = items[j].frag
        OBVIOUS
    <2> HIDE DEF f, g, More
    <2> QED BY <2>1, <2>2, <2>3
<1>4. \A i, j \in 1 .. n : i # j /\ f[i] = f[j] /\ g[i] # 0 /\ g[j] # 0 => g[i] # g[j]
    BY DEF Distinct, INVALIDFRAGINDEX
<1>5. \A i \in 1 .. n : ~Precedes(items, i, i, column, asc) BY DEF Precedes
<1>6. \A i, j \in 1 .. n : <<i, j>> \in R <=> Precedes(items, i, j, column, asc) OBVIOUS
<1>7. R \in SUBSET ((1 .. n) \X (1 .. n)) OBVIOUS
<1>8. \A j \in 1 .. n : rank[j] = Cardinality({i \in 1 .. n : <<i, j>> \in R}) BY <1>1
<1>9. Sorted(items, column, asc) = [k \in 1 .. n |-> items[p[k]]] BY <1>1 DEF Sorted, ByRank
<1> HIDE DEF R, rank, f, g, w, v, n
<1>10. \A i \in 1 .. n : <<i, i>> \notin R BY <1>5, <1>6
<1>11. \A i, j \in 1 .. n : <<i, j>> \in R <=> i # j /\ First(i, j)
    <2> TAKE i, j \in 1 .. n
    <2>1. CASE i = j BY <2>1, <1>10
    <2>2. CASE i # j
        <3>1. Precedes(items, i, j, column, asc) <=> First(i, j) BY <1>3, <2>2
        <3> QED BY <2>2, <3>1, <1>6
    <2> QED BY <2>1, <2>2
<1>12. ASSUME NEW i \in 1 .. n, NEW j \in 1 .. n, NEW k \in 1 .. n,
              <<i, j>> \in R, <<j, k>> \in R
       PROVE  <<i, k>> \in R
    <2>1. /\ f[i] \in Int /\ g[i] \in Int /\ w[i] \in Int /\ v[i] \in Int
          /\ f[j] \in Int /\ g[j] \in Int /\ w[j] \in Int /\ v[j] \in Int
          /\ f[k] \in Int /\ g[k] \in Int /\ w[k] \in Int /\ v[k] \in Int
        BY <1>2
    <2>2. First(i, j) /\ First(j, k) BY <1>11, <1>12
    <2>3. /\ More(i, j) /\ More(j, k) => More(i, k)
          /\ More(k, j) /\ More(j, i) => More(k, i)
        <3> DEFINE a == w[i]
                   b == w[j]
                   c == w[k]
        <3>1. a \in Int /\ b \in Int /\ c \in Int BY <2>1
        <3> HIDE DEF a, b, c
        <3>2. /\ a > b /\ b >= c => a > c
              /\ a >= b /\ b > c => a > c
              /\ c > b /\ b >= a => c > a
              /\ c >= b /\ b > a => c > a
            BY <3>1
        <3>3. More(i, j) /\ More(j, k) => More(i, k) BY <2>1, <3>1, <3>2 DEF a, b, c
        <3>4. More(k, j) /\ More(j, i) => More(k, i) BY <2>1, <3>1, <3>2 DEF a, b, c
        <3> QED BY <3>3, <3>4
    <2>6. ~More(i, i) BY <2>1
    <2> HIDE DEF More
    <2>7. ~First(i, i) BY <2>1, <2>6
    <2>4. CASE asc
        <3>1. First(i, k) BY <2>1, <2>2, <2>3, <2>4
        <3>2. i # k BY <2>7, <3>1
        <3> QED BY <3>1, <3>2, <1>11
    <2>5. CASE ~asc
        <3>1. First(i, k) BY <2>1, <2>2, <2>3, <2>5
        <3>2. i # k BY <2>7, <3>1
        <3> QED BY <3>1, <3>2, <1>11
    <2> QED BY <2>4, <2>5
<1>13. ASSUME NEW i \in 1 .. n, NEW j \in 1 .. n, i # j
       PROVE  <<i, j>> \in R \/ <<j, i>> \in R
    <2>1. /\ f[i] \in Int /\ g[i] \in Int /\ w[i] \in Int /\ v[i] \in Int
          /\ f[j] \in Int /\ g[j] \in Int /\ w[j] \in Int /\ v[j] \in Int
        BY <1>2
    <2>2. f[i] = f[j] /\ g[i] # 0 /\ g[j] # 0 => g[i] # g[j] BY <1>4, <1>13
    <2>3. First(i, j) \/ First(j, i)
        <3>1. CASE asc BY <2>1, <2>2, <1>13, <3>1
        <3>2. CASE ~asc BY <2>1, <2>2, <1>13, <3>2
        <3> QED BY <3>1, <3>2
    <2> QED BY <2>3, <1>11, <1>13
<1> HIDE DEF First
<1>17. \A i, j, k \in 1 .. n : <<i, j>> \in R /\ <<j, k>> \in R => <<i, k>> \in R BY <1>12
<1>18. \A i, j \in 1 .. n : i # j => <<i, j>> \in R \/ <<j, i>> \in R BY <1>13
<1>14. Renumbers(p, n) /\ KeepsTo(p, R, n)
    <2>1. Orders(R, n) BY <1>7, <1>10, <1>17, <1>18 DEF Orders
    <2>2. Ranks(rank, R, n) BY <1>8 DEF Ranks
    <2> QED BY <1>1, <2>1, <2>2, RankSorts
<1> HIDE DEF p
<1>15. \A k, l \in 1 .. n : k < l => Precedes(items, p[k], p[l], column, asc)
    <2> TAKE k, l \in 1 .. n
    <2> HAVE k < l
    <2> DEFINE x == p[k]
               y == p[l]
    <2>1. x \in 1 .. n /\ y \in 1 .. n /\ <<x, y>> \in R BY <1>14 DEF Renumbers, KeepsTo
    <2> HIDE DEF x, y
    <2>2. Precedes(items, x, y, column, asc) BY <1>6, <2>1
    <2> QED BY <2>2 DEF x, y
<1>16. Sorts(p, items, column, asc) BY <1>9, <1>14, <1>15 DEF Sorts, n
<1> QED BY <1>16

AtMost(a, n, x) == {k \in 1 .. n : a[k] <= x}
Through(a, b, p, n) == \A k \in 1 .. n : b[k] = a[p[k]]

\* As many are at most x, however they are numbered.
LEMMA CountsAgree ==
    ASSUME NEW n \in Nat, NEW a, NEW b, NEW p, Renumbers(p, n), Through(a, b, p, n), NEW x
    PROVE  /\ IsFiniteSet(AtMost(a, n, x)) /\ IsFiniteSet(AtMost(b, n, x))
           /\ Cardinality(AtMost(a, n, x)) = Cardinality(AtMost(b, n, x))
<1> DEFINE A == {k \in 1 .. n : a[k] <= x}
           B == {k \in 1 .. n : b[k] <= x}
<1>1. IsFiniteSet(1 .. n) BY FS_Interval
<1>2. A \in SUBSET (1 .. n) /\ B \in SUBSET (1 .. n) OBVIOUS
<1>3. IsFiniteSet(A) /\ IsFiniteSet(B)
    <2> HIDE DEF A, B
    <2> QED BY <1>1, <1>2, FS_Subset
<1>4. \A k \in B : p[k] \in A BY DEF Renumbers, Through
<1>5. \A k, l \in B : p[k] = p[l] => k = l BY DEF Renumbers
<1>6. \A z \in A : \E k \in B : p[k] = z
    <2> TAKE z \in A
    <2>1. PICK k \in 1 .. n : p[k] = z BY DEF Renumbers
    <2>2. b[k] <= x BY <2>1 DEF Through
    <2> QED BY <2>1, <2>2
<1> HIDE DEF A, B
<1>7. IsFiniteSet(A) /\ Cardinality(A) = Cardinality(B) BY <1>3, <1>4, <1>5, <1>6, SameCardinality
<1> QED BY <1>3, <1>7 DEF A, B, AtMost

Rising(a, n) == \A k, l \in 1 .. n : k <= l => a[k] <= a[l]

\* Two sequences of numbers with the same elements, both in order, are the same.
LEMMA OrderDecides ==
    ASSUME NEW n \in Nat, NEW a, NEW b, a \in [1 .. n -> Int], b \in [1 .. n -> Int],
           NEW p, Renumbers(p, n), Through(a, b, p, n),
           Rising(a, n), Rising(b, n)
    PROVE  \A k \in 1 .. n : a[k] = b[k]
<1>1. ASSUME NEW x \in Int
      PROVE  /\ IsFiniteSet(AtMost(a, n, x)) /\ IsFiniteSet(AtMost(b, n, x))
             /\ Cardinality(AtMost(a, n, x)) = Cardinality(AtMost(b, n, x))
    BY CountsAgree
<1>2. ASSUME NEW k \in 1 .. n PROVE Cardinality(1 .. k) = k /\ IsFiniteSet(1 .. k)
    BY FS_Interval
<1>3. ASSUME NEW k \in 1 .. n, NEW S, IsFiniteSet(S), 1 .. k \subseteq S PROVE Cardinality(S) >= k
    <2>1. Cardinality(1 .. k) <= Cardinality(S) BY <1>3, FS_Subset
    <2> QED BY <2>1, <1>2, <1>3, FS_CardinalityType
<1>4. ASSUME NEW k \in 1 .. n, NEW S, IsFiniteSet(S), S \subseteq 1 .. k - 1 PROVE Cardinality(S) < k
    <2>1. IsFiniteSet(1 .. k - 1) /\ Cardinality(1 .. k - 1) = IF 1 > k - 1 THEN 0 ELSE k - 1 - 1 + 1
        BY FS_Interval
    <2>2. Cardinality(1 .. k - 1) = k - 1 BY <2>1
    <2> DEFINE T == 1 .. k - 1
    <2>4. IsFiniteSet(T) /\ S \subseteq T /\ Cardinality(T) = k - 1 BY <1>4, <2>1, <2>2
    <2> HIDE DEF T
    <2>5. Cardinality(S) <= Cardinality(T) BY <2>4, FS_Subset
    <2>3. Cardinality(S) <= k - 1 BY <2>4, <2>5
    <2> QED BY <2>3, <1>4, FS_CardinalityType
<1>5. ASSUME NEW k \in 1 .. n, a[k] < b[k] PROVE FALSE
    <2> DEFINE x == a[k]
               A == AtMost(a, n, x)
               B == AtMost(b, n, x)
    <2>1. x \in Int OBVIOUS
    <2>2. IsFiniteSet(A) /\ IsFiniteSet(B) /\ Cardinality(A) = Cardinality(B) BY <1>1
    <2>3. 1 .. k \subseteq A BY DEF Rising, AtMost
    <2>4. B \subseteq 1 .. k - 1
        <3> SUFFICES ASSUME NEW j \in 1 .. n, b[j] <= x PROVE j \in 1 .. k - 1 BY DEF AtMost
        <3>1. b[j] \in Int /\ b[k] \in Int /\ ~(b[k] <= b[j]) BY <1>5
        <3>2. ~(k <= j) BY <3>1 DEF Rising
        <3> QED BY <3>2
    <2> HIDE DEF A, B
    <2>5. Cardinality(A) >= k /\ Cardinality(B) < k BY <1>3, <1>4, <2>2, <2>3, <2>4
    <2>6. Cardinality(A) \in Nat BY <2>2, FS_CardinalityType
    <2> QED BY <2>2, <2>5, <2>6
<1>6. ASSUME NEW k \in 1 .. n, b[k] < a[k] PROVE FALSE
    <2> DEFINE x == b[k]
               A == AtMost(a, n, x)
               B == AtMost(b, n, x)
    <2>1. x \in Int OBVIOUS
    <2>2. IsFiniteSet(A) /\ IsFiniteSet(B) /\ Cardinality(A) = Cardinality(B) BY <1>1
    <2>3. 1 .. k \subseteq B BY DEF Rising, AtMost
    <2>4. A \subseteq 1 .. k - 1
        <3> SUFFICES ASSUME NEW j \in 1 .. n, a[j] <= x PROVE j \in 1 .. k - 1 BY DEF AtMost
        <3>1. a[j] \in Int /\ a[k] \in Int /\ ~(a[k] <= a[j]) BY <1>6
        <3>2. ~(k <= j) BY <3>1 DEF Rising
        <3> QED BY <3>2
    <2> HIDE DEF A, B
    <2>5. Cardinality(B) >= k /\ Cardinality(A) < k BY <1>3, <1>4, <2>2, <2>3, <2>4
    <2>6. Cardinality(A) \in Nat BY <2>2, FS_CardinalityType
    <2> QED BY <2>2, <2>5, <2>6
<1> QED BY <1>5, <1>6

\* Sorting leaves at each row the file it had, and a heading where there was one.
LEMMA SortedKeeps ==
    ASSUME PageAssumption, _rgFileInfo \in Seq(FileRow), NEW items, OfFiles(items, _rgFileInfo),
           Distinct(items), Grouped(items), NEW column, NEW asc \in BOOLEAN
    PROVE  LET new == Sorted(items, column, asc)
           IN  /\ OfFiles(new, _rgFileInfo) /\ Distinct(new) /\ Grouped(new) /\ Len(new) = Len(items)
               /\ \A k \in 1 .. Len(items) :
                    /\ new[k].file = items[k].file
                    /\ new[k].frag = INVALIDFRAGINDEX <=> items[k].frag = INVALIDFRAGINDEX
               /\ \A k, l \in 1 .. Len(items) :
                    /\ k < l /\ new[k].file = new[l].file
                    /\ new[k].frag # INVALIDFRAGINDEX /\ new[l].frag # INVALIDFRAGINDEX
                    => IF asc THEN Greater(new[l], new[k], column) ELSE Greater(new[k], new[l], column)
<1> DEFINE n == Len(items)
           new == Sorted(items, column, asc)
<1>0. PICK p : Sorts(p, items, column, asc) BY SortedIs
<1>1. /\ Renumbers(p, n)
      /\ new = [k \in 1 .. n |-> items[p[k]]]
      /\ \A k, l \in 1 .. n : k < l => Precedes(items, p[k], p[l], column, asc)
    BY <1>0 DEF Sorts
<1> HIDE DEF new
<1>2. n \in Nat /\ \A k \in 1 .. n : items[k] \in ItemRow /\ items[k].file \in 1 .. Len(_rgFileInfo)
    BY DEF OfFiles
<1>3. new \in [1 .. n -> ItemRow]
      /\ \A k \in 1 .. n : new[k] = items[p[k]] /\ p[k] \in 1 .. n
    <2>1. \A k \in 1 .. n : p[k] \in 1 .. n BY <1>1 DEF Renumbers
    <2> QED BY <1>1, <1>2, <2>1
<1>4. new \in Seq(ItemRow) /\ Len(new) = n
    <2> HIDE DEF n
    <2> QED BY <1>2, <1>3
<1>5. OfFiles(new, _rgFileInfo) BY <1>2, <1>3, <1>4 DEF OfFiles
<1>6. \A k, l \in 1 .. n : k # l => p[k] # p[l] BY <1>1 DEF Renumbers
<1>7. Distinct(new)
    <2> SUFFICES ASSUME NEW k \in 1 .. n, NEW l \in 1 .. n, k # l,
                        new[k].file = new[l].file,
                        new[k].frag # INVALIDFRAGINDEX, new[l].frag # INVALIDFRAGINDEX
                 PROVE  new[k].frag # new[l].frag
        BY <1>4 DEF Distinct
    <2> DEFINE x == p[k]
               y == p[l]
    <2>1. x \in 1 .. n /\ y \in 1 .. n /\ x # y /\ new[k] = items[x] /\ new[l] = items[y]
        BY <1>3, <1>6
    <2> HIDE DEF x, y
    <2> QED BY <2>1 DEF Distinct
<1>8. ASSUME NEW k \in 1 .. n, NEW l \in 1 .. n, k < l
      PROVE  /\ Key(new[k]) <= Key(new[l])
             /\ /\ new[k].file = new[l].file
                /\ new[k].frag # INVALIDFRAGINDEX /\ new[l].frag # INVALIDFRAGINDEX
                => IF asc THEN Greater(new[l], new[k], column) ELSE Greater(new[k], new[l], column)
    <2> DEFINE x == p[k]
               y == p[l]
               a == new[k]
               b == new[l]
    <2>1. /\ x \in 1 .. n /\ y \in 1 .. n /\ x # y /\ a = items[x] /\ b = items[y]
          /\ Precedes(items, x, y, column, asc)
        BY <1>1, <1>3, <1>6, <1>8
    <2> HIDE DEF x, y
    <2>2. Precedes(items, x, y, column, asc) <=>
               \/ items[x].file < items[y].file
               \/ /\ items[x].file = items[y].file
                  /\ \/ items[x].frag = 0 /\ items[y].frag # 0
                     \/ items[x].frag = 0 /\ items[y].frag = 0 /\ x < y
                     \/ /\ items[x].frag # 0 /\ items[y].frag # 0
                        /\ IF asc THEN Greater(items[y], items[x], column)
                           ELSE Greater(items[x], items[y], column)
        BY <2>1, PrecedesIs
    <2>3. \/ a.file < b.file
          \/ /\ a.file = b.file
             /\ \/ a.frag = 0
                \/ /\ a.frag # 0 /\ b.frag # 0
                   /\ IF asc THEN Greater(b, a, column) ELSE Greater(a, b, column)
        BY <2>1, <2>2
    <2>4. a.file \in Nat /\ b.file \in Nat BY <1>3 DEF ItemRow
    <2> HIDE DEF a, b
    <2>5. Key(a) <= Key(b)
        <3>1. CASE a.file < b.file
            <4>1. 2 * a.file + 1 <= 2 * b.file BY <2>4, <3>1
            <4> QED BY <4>1, <2>4 DEF Key
        <3>2. CASE a.file = b.file BY <3>2, <2>3, <2>4 DEF Key, INVALIDFRAGINDEX
        <3> QED BY <3>1, <3>2, <2>3
    <2>6. a.file = b.file /\ a.frag # INVALIDFRAGINDEX /\ b.frag # INVALIDFRAGINDEX
          => IF asc THEN Greater(b, a, column) ELSE Greater(a, b, column)
        BY <2>3, <2>4 DEF INVALIDFRAGINDEX
    <2> QED BY <2>5, <2>6 DEF a, b
<1>9. \A x \in ItemRow : Key(x) \in Int BY DEF Key, ItemRow
<1>10. \A k, l \in 1 .. n : k <= l => Key(new[k]) <= Key(new[l])
    <2> TAKE k, l \in 1 .. n
    <2>1. CASE k < l BY <1>8, <2>1
    <2>4. new[k] \in ItemRow /\ Key(new[k]) \in Int BY <1>3, <1>9
    <2>2. CASE k = l BY <2>4, <2>2
    <2>3. CASE l < k BY <2>3
    <2> QED BY <2>1, <2>2, <2>3
<1>11. Grouped(new) BY <1>4, <1>10 DEF Grouped
<1>12. \A k \in 1 .. n : Key(items[k]) = Key(new[k])
    <2> DEFINE a == [k \in 1 .. n |-> Key(items[k])]
               b == [k \in 1 .. n |-> Key(new[k])]
    <2>1. a \in [1 .. n -> Int] /\ b \in [1 .. n -> Int] BY <1>2, <1>3, <1>9
    <2>2. Through(a, b, p, n) BY <1>3 DEF Through
    <2>3. Rising(a, n) BY DEF Grouped, Rising
    <2>4. Rising(b, n) BY <1>10 DEF Rising
    <2>5. \A k \in 1 .. n : a[k] = Key(items[k]) /\ b[k] = Key(new[k]) OBVIOUS
    <2> HIDE DEF a, b, n
    <2>6. n \in Nat /\ Renumbers(p, n) BY <1>1, <1>2
    <2>8. \A k \in 1 .. n : a[k] = b[k] BY <2>1, <2>2, <2>3, <2>4, <2>6, OrderDecides
    <2> QED BY <2>5, <2>8
<1>13. ASSUME NEW k \in 1 .. n
       PROVE  /\ new[k].file = items[k].file
              /\ new[k].frag = INVALIDFRAGINDEX <=> items[k].frag = INVALIDFRAGINDEX
    <2>1. Key(items[k]) = Key(new[k]) BY <1>12
    <2>2. items[k].file \in Nat /\ new[k].file \in Nat BY <1>2, <1>3 DEF ItemRow
    <2>3. \A i, j \in Nat : 2 * i # 2 * j + 1 OBVIOUS
    <2> QED BY <2>1, <2>2, <2>3 DEF Key
<1> QED BY <1>4, <1>5, <1>7, <1>8, <1>11, <1>13 DEF new

-----------------------------------------------------------------------------
(* Refreshing the tables.                                                  *)

\* What holds of the two tables of the page.
TablesInv ==
    /\ _rgFileInfo \in Seq(FileRow) /\ OfFiles(_rgItemInfo, _rgFileInfo) /\ built \in BOOLEAN
    /\ ContextsOwned
    /\ Grouped(_rgItemInfo) /\ Distinct(_rgItemInfo)
    /\ built => InPlace

\* A table with other contexts for its files.
LEMMA NewContexts ==
    ASSUME PageAssumption, NEW table \in Seq(FileRow),
           NEW layout \in [DOMAIN table -> FileLayouts \union {None}]
    PROVE  LET files == [f \in DOMAIN table |-> FragmentInfo(table[f], layout[f])]
           IN  files \in Seq(FileRow) /\ Len(files) = Len(table)
<1> DEFINE files == [f \in DOMAIN table |-> FragmentInfo(table[f], layout[f])]
           n == Len(table)
<1>1. n \in Nat /\ DOMAIN table = 1 .. n /\ \A f \in 1 .. n : table[f] \in FileRow OBVIOUS
<1>2. ASSUME NEW f \in 1 .. n PROVE FragmentInfo(table[f], layout[f]) \in FileRow
    <2> DEFINE c == layout[f]
               x == table[f]
               count == IF c = None THEN 0 ELSE Len(c)
    <2>1. c \in FileLayouts \union {None} /\ x \in FileRow BY <1>1
    <2>2. FragmentInfo(table[f], layout[f]) = [x EXCEPT !.ctx = c, !.cFragments = count]
        BY DEF FragmentInfo
    <2>3. count \in Nat
        <3>1. CASE c = None BY <3>1
        <3>2. CASE c # None
            <4>1. c \in Seq([clusters : Nat, extents : Nat, virtual : BOOLEAN])
                BY <2>1, <3>2 DEF PageAssumption
            <4>2. Len(c) \in Nat BY <4>1, LenProperties
            <4> QED BY <4>2, <3>2
        <3> QED BY <3>1, <3>2
    <2> HIDE DEF c, x, count
    <2> QED BY <2>1, <2>2, <2>3 DEF FileRow
<1>3. files \in [1 .. n -> FileRow] BY <1>1, <1>2
<1> HIDE DEF files, n
<1>4. files \in Seq(FileRow) /\ Len(files) = n BY <1>1, <1>3
<1> QED BY <1>4 DEF files, n

\* A table with the rows its items begin at.
LEMMA WithBases ==
    ASSUME NEW files \in Seq(FileRow), \A f \in 1 .. Len(files) : ItemBase(files, f) \in Nat
    PROVE  LET new == [f \in DOMAIN files |-> [files[f] EXCEPT !.itemBase = ItemBase(files, f)]]
           IN  /\ new \in Seq(FileRow) /\ Len(new) = Len(files)
               /\ WithContext(new) = WithContext(files)
               /\ \A f \in 1 .. Len(files) : new[f].itemBase = ItemBase(files, f)
<1> DEFINE new == [f \in DOMAIN files |-> [files[f] EXCEPT !.itemBase = ItemBase(files, f)]]
           n == Len(files)
<1>1. n \in Nat /\ DOMAIN files = 1 .. n /\ \A f \in 1 .. n : files[f] \in FileRow OBVIOUS
<1>2. ASSUME NEW f \in 1 .. n
      PROVE  new[f] \in FileRow /\ new[f].ctx = files[f].ctx /\ new[f].itemBase = ItemBase(files, f)
    <2> DEFINE x == files[f]
               b == ItemBase(files, f)
    <2>1. x \in FileRow /\ b \in Nat /\ new[f] = [x EXCEPT !.itemBase = b] BY <1>1
    <2> HIDE DEF x, b, new
    <2>2. new[f] \in FileRow /\ new[f].ctx = x.ctx /\ new[f].itemBase = b BY <2>1 DEF FileRow
    <2> QED BY <2>2 DEF x, b
<1>3. DOMAIN new = 1 .. n BY <1>1
<1>4. new \in [1 .. n -> FileRow] 
    <2>1. new = [f \in 1 .. n |-> new[f]] BY <1>1
    <2> HIDE DEF new
    <2> QED BY <1>2, <2>1
<1> HIDE DEF new, n
<1>5. new \in Seq(FileRow) /\ Len(new) = n BY <1>1, <1>4
<1>6. WithContext(new) = WithContext(files) BY <1>1, <1>2, <1>3 DEF WithContext
<1> QED BY <1>2, <1>5, <1>6 DEF new, n

LEMMA DisabledIs ==
    ASSUME _rgFileInfo \in Seq(FileRow)
    PROVE  /\ Disabled.files \in Seq(FileRow) /\ Len(Disabled.files) = Len(_rgFileInfo)
           /\ WithContext(Disabled.files) = WithContext(_rgFileInfo)
           /\ Disabled.closed = {}
<1> DEFINE new == Disabled.files
           n == Len(_rgFileInfo)
<1>1. n \in Nat /\ DOMAIN _rgFileInfo = 1 .. n /\ \A f \in 1 .. n : _rgFileInfo[f] \in FileRow
    OBVIOUS
<1>2. new = [f \in 1 .. n |-> [_rgFileInfo[f] EXCEPT
                 !.show = _rgFileInfo[f].show /\ _rgFileInfo[f].stream = None]]
    BY <1>1 DEF Disabled
<1>3. ASSUME NEW f \in 1 .. n PROVE new[f] \in FileRow /\ new[f].ctx = _rgFileInfo[f].ctx
    <2> DEFINE x == _rgFileInfo[f]
               b == (_rgFileInfo[f].show /\ _rgFileInfo[f].stream = None)
    <2>1. x \in FileRow /\ new[f] = [x EXCEPT !.show = b] BY <1>1, <1>2
    <2>2. b \in BOOLEAN OBVIOUS
    <2> HIDE DEF x, b, new
    <2>3. new[f] \in FileRow /\ new[f].ctx = x.ctx BY <2>1, <2>2 DEF FileRow
    <2> QED BY <2>3 DEF x
<1>4. new \in [1 .. n -> FileRow]
    <2>1. new = [f \in 1 .. n |-> new[f]] BY <1>2
    <2> HIDE DEF new
    <2> QED BY <1>3, <2>1
<1>5. DOMAIN new = 1 .. n BY <1>2
<1>6. Disabled.closed = {} BY DEF Disabled
<1> HIDE DEF new, n
<1>7. new \in Seq(FileRow) /\ Len(new) = n BY <1>1, <1>4
<1>8. WithContext(new) = WithContext(_rgFileInfo) BY <1>1, <1>3, <1>5 DEF WithContext
<1> QED BY <1>6, <1>7, <1>8 DEF new, n

\* A file or stream new to the table has no context yet.
LEMMA NewFileIs ==
    ASSUME NEW stream \in STRING \union {None}
    PROVE  NewFile(stream) \in FileRow /\ NewFile(stream).ctx = None
BY DEF NewFile, FileRow

\* The table to be read, and the contexts it comes with.
LEMMA TableToRead ==
    ASSUME PageAssumption, TablesInv, NEW found \in [DOMAIN Base(_rgFileInfo) -> StreamLists],
           NEW t \in {Rebuilt(found), Disabled}
    PROVE  /\ t.files \in Seq(FileRow)
           /\ open = Cardinality(t.closed) + Cardinality(WithContext(t.files))
           /\ Cardinality(t.closed) \in Nat
           /\ t = Disabled => Len(t.files) = Len(_rgFileInfo)
<1>1. _rgFileInfo \in Seq(FileRow) /\ open = Cardinality(WithContext(_rgFileInfo))
    BY DEF TablesInv, ContextsOwned
<1>2. Cardinality(WithContext(_rgFileInfo)) \in Nat BY <1>1, ContextsFinite
<1>3. CASE t = Disabled
    <2>1. /\ t.files \in Seq(FileRow) /\ Len(t.files) = Len(_rgFileInfo)
          /\ WithContext(t.files) = WithContext(_rgFileInfo) /\ t.closed = {}
        BY <1>1, <1>3, DisabledIs
    <2>2. Cardinality(t.closed) = 0 BY <2>1, FS_EmptySet
    <2> QED BY <1>1, <1>2, <2>1, <2>2
<1>4. CASE t = Rebuilt(found) /\ t # Disabled
    <2>1. \A stream \in STRING : NewFile(stream) \in FileRow BY NewFileIs
    <2>2. /\ Rebuilt(found).files \in Seq(FileRow)
          /\ Cardinality(WithContext(_rgFileInfo)) =
                 Cardinality(Rebuilt(found).closed) + Cardinality(WithContext(Rebuilt(found).files))
        BY <1>1, <2>1, RebuiltIs
    <2>3. t.closed \in SUBSET WithContext(_rgFileInfo) BY <1>4 DEF Rebuilt
    <2>4. IsFiniteSet(WithContext(_rgFileInfo)) BY <1>1, ContextsFinite
    <2>5. IsFiniteSet(t.closed) BY <2>3, <2>4, FS_Subset
    <2>6. Cardinality(t.closed) \in Nat BY <2>5, FS_CardinalityType
    <2> QED BY <1>1, <1>4, <2>2, <2>6
<1> QED BY <1>3, <1>4

\* A refresh that reads the files of t.
Refreshed(t, memory) ==
    \E layout \in [DOMAIN t.files -> FileLayouts \union {None}] :
        LET files == [f \in DOMAIN t.files |-> FragmentInfo(t.files[f], layout[f])]
        IN  /\ BuildItemInfoTable(files, memory)
            /\ open' = open - Cardinality(t.closed) - Cardinality(WithContext(t.files))
                            + Cardinality(WithContext(files))
            /\ IF t = Disabled
               THEN /\ _rgItemInfo' = IF memory THEN ItemsOf(files) ELSE _rgItemInfo
                    /\ UNCHANGED sortVars
               ELSE /\ _rgItemInfo' = IF memory THEN ItemsOf(files) ELSE <<>>
                    /\ _wSortCol' = 0 /\ _bSortASC' = TRUE

\* However a refresh ends, each context has its row and each item its file.
LEMMA RefreshStep ==
    ASSUME PageAssumption, TablesInv, RefreshData, _bSortASC \in BOOLEAN
    PROVE  TablesInv' /\ _bSortASC' \in BOOLEAN
<1>0. PICK found \in [DOMAIN Base(_rgFileInfo) -> StreamLists], memory \in BOOLEAN :
          LET rebuild == _bShowFileStreams /\ \E b \in DOMAIN found : found[b] # <<>>
          IN  \E t \in IF rebuild THEN {Rebuilt(found), Disabled} ELSE {Disabled} :
              Refreshed(t, memory)
    BY DEF RefreshData, Refreshed
<1>1. PICK t \in {Rebuilt(found), Disabled} : Refreshed(t, memory) BY <1>0
<1> DEFINE table == t.files
<1>2. /\ table \in Seq(FileRow)
      /\ open = Cardinality(t.closed) + Cardinality(WithContext(table))
      /\ Cardinality(t.closed) \in Nat
      /\ t = Disabled => Len(table) = Len(_rgFileInfo)
    BY TableToRead
<1>3. PICK layout \in [DOMAIN table -> FileLayouts \union {None}] :
          LET files == [f \in DOMAIN table |-> FragmentInfo(table[f], layout[f])]
          IN  /\ BuildItemInfoTable(files, memory)
              /\ open' = open - Cardinality(t.closed) - Cardinality(WithContext(table))
                              + Cardinality(WithContext(files))
              /\ IF t = Disabled
                 THEN /\ _rgItemInfo' = IF memory THEN ItemsOf(files) ELSE _rgItemInfo
                      /\ UNCHANGED sortVars
                 ELSE /\ _rgItemInfo' = IF memory THEN ItemsOf(files) ELSE <<>>
                      /\ _wSortCol' = 0 /\ _bSortASC' = TRUE
    BY <1>1 DEF Refreshed
<1> DEFINE files == [f \in DOMAIN table |-> FragmentInfo(table[f], layout[f])]
           items == ItemsOf(files)
           new == [f \in DOMAIN files |-> [files[f] EXCEPT !.itemBase = ItemBase(files, f)]]
<1>4. /\ BuildItemInfoTable(files, memory)
      /\ open' = open - Cardinality(t.closed) - Cardinality(WithContext(table))
                      + Cardinality(WithContext(files))
      /\ \/ memory /\ _rgItemInfo' = items
         \/ ~memory /\ t = Disabled /\ _rgItemInfo' = _rgItemInfo
         \/ ~memory /\ _rgItemInfo' = <<>>
      /\ _bSortASC' \in BOOLEAN
    <2> HIDE DEF table
    <2>1. _bSortASC' = _bSortASC \/ _bSortASC' = TRUE BY <1>3 DEF sortVars
    <2> QED BY <1>3, <2>1
<1> HIDE DEF table
<1>5. files \in Seq(FileRow) /\ Len(files) = Len(table) BY <1>2, NewContexts
<1> HIDE DEF files
<1>6. \A f \in 1 .. Len(files) : files[f].cFragments \in Nat
    <2> TAKE f \in 1 .. Len(files)
    <2>1. files[f] \in FileRow BY <1>5
    <2> QED BY <2>1 DEF FileRow
<1>7. /\ OfFiles(items, files) /\ Grouped(items) /\ Distinct(items)
      /\ \A f \in 1 .. Len(files) : ItemBase(files, f) \in Nat
      /\ \A k \in 1 .. Len(items) :
           LET base == ItemBase(files, items[k].file)
           IN  items[k].frag = INVALIDFRAGINDEX <=> k - 1 \in base .. base + CGROUPITEMSEXTRA - 1
    BY <1>5, <1>6, ItemsBuilt
<1>8. /\ new \in Seq(FileRow) /\ Len(new) = Len(files) /\ WithContext(new) = WithContext(files)
      /\ \A f \in 1 .. Len(files) : new[f].itemBase = ItemBase(files, f)
    BY <1>5, <1>7, WithBases
<1>9. built' = memory /\ _rgFileInfo' = IF memory THEN new ELSE files
    BY <1>4 DEF BuildItemInfoTable
<1> HIDE DEF items, new
<1>10. _rgFileInfo' \in Seq(FileRow) /\ Len(_rgFileInfo') = Len(files)
       /\ WithContext(_rgFileInfo') = WithContext(files)
    BY <1>5, <1>8, <1>9
<1>11. ContextsOwned'
    <2>1. /\ Cardinality(WithContext(table)) \in Nat /\ Cardinality(WithContext(files)) \in Nat
        BY <1>2, <1>5, ContextsFinite
    <2>2. open' = Cardinality(WithContext(files)) BY <1>2, <1>4, <2>1
    <2>3. Cardinality(WithContext(_rgFileInfo')) = open' BY <1>10, <2>2
    <2> QED BY <2>3 DEF ContextsOwned, WithContext
<1>12. /\ OfFiles(_rgItemInfo', _rgFileInfo') /\ Grouped(_rgItemInfo') /\ Distinct(_rgItemInfo')
    <2>1. CASE memory /\ _rgItemInfo' = items BY <2>1, <1>7, <1>10 DEF OfFiles
    <2>2. CASE t = Disabled /\ _rgItemInfo' = _rgItemInfo
        <3>1. Len(_rgFileInfo') = Len(_rgFileInfo) BY <1>2, <1>5, <1>10, <2>2
        <3> QED BY <3>1, <2>2 DEF TablesInv, OfFiles
    <2>3. CASE _rgItemInfo' = <<>>
        <3>1. _rgItemInfo' \in Seq(ItemRow) /\ Len(_rgItemInfo') = 0 BY <2>3
        <3> QED BY <3>1 DEF OfFiles, Grouped, Distinct
    <2> QED BY <1>4, <2>1, <2>2, <2>3
<1>13. (built => InPlace)'
    <2> SUFFICES ASSUME memory, NEW i \in Rows'
                 PROVE  LET x == _rgItemInfo'[i + 1]
                            first == _rgFileInfo'[x.file].itemBase
                        IN  x.frag = INVALIDFRAGINDEX <=> i \in first .. first + CGROUPITEMSEXTRA - 1
        BY <1>9 DEF InPlace, IsFileInfoItem, Item
    <2> DEFINE k == i + 1
               x == items[k]
    <2>1. _rgItemInfo' = items /\ _rgFileInfo' = new BY <1>4, <1>9
    <2>2. k \in 1 .. Len(items) /\ k - 1 = i
        <3>1. Len(items) \in Nat BY <1>7 DEF OfFiles
        <3> QED BY <2>1, <3>1 DEF Rows
    <2>3. x.file \in 1 .. Len(files) BY <1>7, <2>2 DEF OfFiles
    <2>4. new[x.file].itemBase = ItemBase(files, x.file) BY <1>8, <2>3
    <2>5. x.frag = INVALIDFRAGINDEX
              <=> k - 1 \in ItemBase(files, x.file) .. ItemBase(files, x.file) + CGROUPITEMSEXTRA - 1
        BY <1>7, <2>2
    <2>6. _rgItemInfo'[i + 1] = x BY <2>1
    <2> HIDE DEF x, k
    <2> QED BY <2>1, <2>2, <2>4, <2>5, <2>6
<1> QED BY <1>4, <1>9, <1>10, <1>11, <1>12, <1>13 DEF TablesInv, OfFiles, Grouped, Distinct

-----------------------------------------------------------------------------
(* Selecting and sorting.                                                  *)

\* A row that may be selected.
Selectable(i) == i = None \/ (i \in Rows /\ IsFragInfoItem(i))

SelectionKept ==
    /\ page # "shown" => _iCurSel = None /\ selected = None
    /\ ~refreshed => Selectable(_iCurSel) /\ Selectable(selected)

PageInv ==
    /\ TablesInv
    /\ page \in {"none", "loaded", "shown", "gone"} /\ _bSortASC \in BOOLEAN
    /\ page = "none" => _rgFileInfo = <<>>
    /\ SelectionKept

\* A selection that is restored, dropped, or made of a fragment.
LEMMA SelectionStep ==
    ASSUME SelectionKept, page = "shown", page' = page,
           UNCHANGED _rgItemInfo,
           Keep \/ Clear \/ \E i \in Rows : IsFragInfoItem(i) /\ Select(i)
    PROVE  SelectionKept'
<1>1. \A i : Selectable(i)' <=> Selectable(i)
    BY DEF Selectable, Rows, IsFragInfoItem, IsFileInfoItem, Item
<1>2. CASE Keep
    <2>1. ~refreshed' => Selectable(_iCurSel') /\ Selectable(selected')
        BY <1>2 DEF Keep, Restored, SelectionKept
    <2> QED BY <1>1, <2>1 DEF SelectionKept
<1>3. CASE Clear
    <2>1. ~refreshed' => Selectable(_iCurSel') /\ Selectable(selected')
        BY <1>3 DEF Clear, Selectable, SelectionKept
    <2> QED BY <1>1, <2>1 DEF SelectionKept
<1>4. CASE \E i \in Rows : IsFragInfoItem(i) /\ Select(i)
    <2>1. PICK i \in Rows : IsFragInfoItem(i) /\ Select(i) BY <1>4
    <2>2. Selectable(_iCurSel') /\ Selectable(selected') BY <2>1 DEF Select, Selectable
    <2> QED BY <1>1, <2>2 DEF SelectionKept
<1> QED BY <1>2, <1>3, <1>4

LEMMA FirstAndLast ==
    ASSUME OfFiles(_rgItemInfo, _rgFileInfo), NEW js, js \subseteq Rows, js # {}
    PROVE  Min(js) \in js /\ Max(js) \in js
<1>1. Len(_rgItemInfo) \in Nat BY DEF OfFiles
<1>2. js \in SUBSET Nat /\ Rows \subseteq 0 .. Len(_rgItemInfo) BY <1>1 DEF Rows
<1>3. IsFiniteSet(0 .. Len(_rgItemInfo)) BY <1>1, FS_Interval
<1>4. js \in SUBSET (0 .. Len(_rgItemInfo)) BY <1>2
<1>5. IsFiniteSet(js)
    <2> DEFINE T == 0 .. Len(_rgItemInfo)
    <2> HIDE DEF T
    <2> QED BY <1>3, <1>4, FS_Subset DEF T
<1>6. \E m \in js : \A k \in js : m <= k BY <1>2, LeastNumber
<1>7. \E m \in js : \A k \in js : k <= m BY <1>2, <1>5, Greatest
<1>8. \E m \in js : \A k \in js : m >= k BY <1>7
<1> QED BY <1>6, <1>8 DEF Min, Max

\* A key selects a fragment or leaves the selection of before, or none.
LEMMA KeysSelect ==
    ASSUME OfFiles(_rgItemInfo, _rgFileInfo),
           KeyPrior \/ KeyNext \/ KeyHome \/ KeyEnd \/ KeyUp \/ KeyDown
    PROVE  Keep \/ Clear \/ \E i \in Rows : IsFragInfoItem(i) /\ Select(i)
<1> DEFINE Fragments == {j \in Rows : IsFragInfoItem(j)}
           Chosen == Keep \/ Clear \/ \E i \in Rows : IsFragInfoItem(i) /\ Select(i)
<1>1. ASSUME NEW js, js \subseteq Fragments, SelectFirst(js) \/ SelectLast(js) PROVE Chosen
    <2>1. CASE js = {} BY <1>1, <2>1 DEF SelectFirst, SelectLast
    <2>2. CASE js # {}
        <3>1. Min(js) \in js /\ Max(js) \in js BY <1>1, <2>2, FirstAndLast
        <3>2. Min(js) \in Fragments /\ Max(js) \in Fragments BY <1>1, <3>1
        <3> QED BY <1>1, <2>2, <3>2 DEF SelectFirst, SelectLast
    <2> QED BY <2>1, <2>2
<1>2. ASSUME NEW i PROVE Below(i) \subseteq Fragments /\ Above(i) \subseteq Fragments
    BY DEF Below, Above
<1> HIDE DEF Chosen, Fragments
<1>3. ASSUME KeyPrior PROVE Chosen
    <2> DEFINE i == IF _iCurSel = None THEN 0 ELSE _iCurSel - PerPage
               Search == \E top \in Tops :
                   LET from == IF top = 0 THEN 0 ELSE top - 1
                   IN  IF \E j \in Below(from) : j <= from + PerPage THEN SelectFirst(Below(from))
                       ELSE Keep
    <2>1. IF i <= 0 \/ (i \in Rows /\ IsFileInfoItem(i)) THEN Search
          ELSE IF i \in Rows THEN Select(i) ELSE Keep \/ Search
        BY <1>3 DEF KeyPrior
    <2>2. Search => Chosen
        <3> HAVE Search
        <3>1. PICK from : Keep \/ SelectFirst(Below(from)) OBVIOUS
        <3> QED BY <3>1, <1>1, <1>2 DEF Chosen
    <2> HIDE DEF Search, i
    <2>3. Search \/ Keep \/ (i \in Rows /\ IsFragInfoItem(i) /\ Select(i))
        BY <2>1 DEF IsFragInfoItem
    <2> QED BY <2>2, <2>3 DEF Chosen
<1>4. ASSUME KeyNext PROVE Chosen
    <2> DEFINE i == IF _iCurSel = None THEN PerPage - 1 ELSE _iCurSel + PerPage
    <2>1. IF i > 0 /\ i \in Rows /\ IsFragInfoItem(i) THEN Select(i)
          ELSE \E top \in Tops : SelectLast({j \in Above(top + PerPage + 1) : j >= top})
        BY <1>4 DEF KeyNext
    <2> HIDE DEF i
    <2>2. CASE \E top \in Tops : SelectLast({j \in Above(top + PerPage + 1) : j >= top})
        <3>1. PICK top \in Tops : SelectLast({j \in Above(top + PerPage + 1) : j >= top}) BY <2>2
        <3> DEFINE js == {j \in Above(top + PerPage + 1) : j >= top}
        <3>2. js \subseteq Above(top + PerPage + 1) /\ SelectLast(js) BY <3>1
        <3> HIDE DEF js
        <3>3. js \subseteq Fragments BY <3>2, <1>2
        <3> QED BY <3>2, <3>3, <1>1
    <2> QED BY <2>1, <2>2 DEF Chosen
<1>5. ASSUME KeyHome PROVE Chosen
    <2> DEFINE js == Below(CGROUPITEMSEXTRA - 1)
    <2>1. IF js # {} /\ Min(js) < PerPage THEN Select(Min(js)) ELSE Clear BY <1>5 DEF KeyHome
    <2>2. js \subseteq Fragments BY <1>2
    <2> HIDE DEF js
    <2>3. js # {} => Min(js) \in Fragments BY <2>2, FirstAndLast DEF Fragments
    <2> QED BY <2>1, <2>3 DEF Chosen, Fragments
<1>6. ASSUME KeyEnd PROVE Chosen
    <2> DEFINE js == Above(Len(_rgItemInfo))
    <2>1. Clear \/ (js # {} /\ Select(Max(js))) BY <1>6 DEF KeyEnd
    <2>2. js \subseteq Fragments BY <1>2
    <2> HIDE DEF js
    <2>3. js # {} => Max(js) \in Fragments BY <2>2, FirstAndLast DEF Fragments
    <2> QED BY <2>1, <2>3 DEF Chosen, Fragments
<1>7. ASSUME KeyUp PROVE Chosen
    <2>1. Keep \/ SelectLast(Above(Restored)) BY <1>7 DEF KeyUp
    <2> QED BY <2>1, <1>1, <1>2 DEF Chosen
<1>8. ASSUME KeyDown PROVE Chosen
    <2>1. PICK from : SelectFirst(Below(from)) BY <1>8 DEF KeyDown
    <2> QED BY <2>1, <1>1, <1>2
<1>9. Chosen BY <1>3, <1>4, <1>5, <1>6, <1>7, <1>8
<1> QED BY <1>9 DEF Chosen

\* What a column shows is in the order that the items are.
LEMMA ShownIs ==
    ASSUME NEW a \in ItemRow, NEW b \in ItemRow, Info(a) \in FragmentInformation,
           Info(b) \in FragmentInformation, NEW column, Greater(b, a, column)
    PROVE  Shown(a, column) <= Shown(b, column)
<1>1. /\ Info(a).clusters \in Nat /\ Info(a).extents \in Nat /\ a.frag \in Nat
      /\ Info(b).clusters \in Nat /\ Info(b).extents \in Nat /\ b.frag \in Nat
    BY DEF FragmentInformation, ItemRow
<1>2. MapIdSequence = 0 /\ MapIdPercentage = 2 /\ MapIdExtents = 4
    BY DEF MapIdSequence, MapIdPercentage, MapIdExtents
<1>3. CASE column = MapIdSequence
    <2>1. Shown(a, column) = a.frag /\ Shown(b, column) = b.frag BY <1>2, <1>3 DEF Shown
    <2> QED BY <2>1, <1>1, <1>2, <1>3 DEF Greater, Weight, Lesser
<1>4. CASE column = MapIdPercentage
    <2>1. /\ Shown(a, column) = IF Info(a).virtual THEN 0 ELSE Info(a).clusters
          /\ Shown(b, column) = IF Info(b).virtual THEN 0 ELSE Info(b).clusters
        BY <1>2, <1>4 DEF Shown
    <2> QED BY <2>1, <1>1, <1>2, <1>4 DEF Greater, Weight, Lesser
<1>5. CASE column = MapIdExtents
    <2>1. Shown(a, column) = Info(a).extents /\ Shown(b, column) = Info(b).extents
        BY <1>2, <1>5 DEF Shown
    <2> QED BY <2>1, <1>1, <1>2, <1>5 DEF Greater, Weight, Lesser
<1>6. CASE column \notin {MapIdSequence, MapIdPercentage, MapIdExtents}
    <2>1. Shown(a, column) = Info(a).clusters /\ Shown(b, column) = Info(b).clusters
        BY <1>2, <1>6 DEF Shown
    <2> QED BY <2>1, <1>1, <1>2, <1>6 DEF Greater, Weight, Lesser
<1> QED BY <1>3, <1>4, <1>5, <1>6

\* Sorting on a column: the headings stay, and the column is in order.
LEMMA SortingStep ==
    ASSUME PageAssumption, PageInv, NEW place, OnColumnClick(place)
    PROVE  PageInv' /\ (built => (InPlace /\ InOrder(_bColMap[place + 1], _bSortASC))')
<1> DEFINE items == _rgItemInfo
           column == _bColMap[place + 1]
           asc == _bSortASC'
           new == Sorted(items, column, asc)
           n == Len(items)
<1>1. /\ _rgItemInfo' = new /\ page = "shown" /\ page' = page
      /\ UNCHANGED <<_rgFileInfo, open, built, _bColMap, _iCurSel, selected, refreshed>>
    BY DEF OnColumnClick, selVars
<1>2. asc \in BOOLEAN BY DEF OnColumnClick
<1>3. /\ _rgFileInfo \in Seq(FileRow) /\ OfFiles(items, _rgFileInfo) /\ built \in BOOLEAN
      /\ ContextsOwned /\ Grouped(items) /\ Distinct(items)
    BY DEF PageInv, TablesInv
<1> HIDE DEF asc, column
<1>4. /\ OfFiles(new, _rgFileInfo) /\ Distinct(new) /\ Grouped(new) /\ Len(new) = n
      /\ \A k \in 1 .. n :
           /\ new[k].file = items[k].file
           /\ new[k].frag = INVALIDFRAGINDEX <=> items[k].frag = INVALIDFRAGINDEX
      /\ \A k, l \in 1 .. n :
           /\ k < l /\ new[k].file = new[l].file
           /\ new[k].frag # INVALIDFRAGINDEX /\ new[l].frag # INVALIDFRAGINDEX
           => IF asc THEN Greater(new[l], new[k], column) ELSE Greater(new[k], new[l], column)
    BY <1>2, <1>3, SortedKeeps
<1> HIDE DEF new
<1>5. n \in Nat BY <1>3 DEF OfFiles
<1>6. \A i : i \in Rows' <=> i \in Rows BY <1>1, <1>4 DEF Rows
<1>7. \A i : i \in Rows => i + 1 \in 1 .. n BY <1>5 DEF Rows
<1>8. \A i : i \in Rows => (IsFileInfoItem(i)' <=> IsFileInfoItem(i))
               /\ Item(i)'.file = Item(i).file
    BY <1>1, <1>4, <1>7 DEF IsFileInfoItem, Item
<1>9. (built => InPlace)'
    <2> SUFFICES ASSUME built, NEW i \in Rows
                 PROVE  LET first == _rgFileInfo'[Item(i)'.file].itemBase
                        IN  IsFileInfoItem(i)' <=> i \in first .. first + CGROUPITEMSEXTRA - 1
        BY <1>1, <1>6 DEF InPlace
    <2>1. LET first == _rgFileInfo[Item(i).file].itemBase
          IN  IsFileInfoItem(i) <=> i \in first .. first + CGROUPITEMSEXTRA - 1
        BY DEF PageInv, TablesInv, InPlace
    <2> QED BY <1>1, <1>8, <2>1
<1>10. TablesInv'
    BY <1>1, <1>3, <1>4, <1>9 DEF TablesInv, ContextsOwned, OfFiles, Grouped, Distinct, WithContext
<1>11. SelectionKept'
    <2>1. \A i : Selectable(i) => Selectable(i)' BY <1>6, <1>8 DEF Selectable, IsFragInfoItem
    <2>2. ~refreshed => Selectable(_iCurSel) /\ Selectable(selected) BY DEF PageInv, SelectionKept
    <2>3. ~refreshed' => Selectable(_iCurSel)' /\ Selectable(selected)'
        BY <2>1, <2>2, <1>1 DEF Selectable
    <2> QED BY <1>1, <2>3 DEF SelectionKept
<1>12. PageInv' BY <1>1, <1>2, <1>10, <1>11 DEF PageInv, asc
<1>13. InOrder(_bColMap[place + 1], _bSortASC)'
    <2> SUFFICES ASSUME NEW i \in Rows, i + 1 \in Rows, Item(i)'.file = Item(i + 1)'.file,
                        IsFragInfoItem(i)', IsFragInfoItem(i + 1)'
                 PROVE  IF asc THEN Shown(Item(i), column)' <= Shown(Item(i + 1), column)'
                        ELSE Shown(Item(i), column)' >= Shown(Item(i + 1), column)'
        BY <1>1, <1>6 DEF InOrder, asc, column
    <2> DEFINE k == i + 1
               l == i + 1 + 1
               a == new[k]
               b == new[l]
    <2>1. k \in 1 .. n /\ l \in 1 .. n /\ k < l BY <1>5 DEF Rows
    <2>2. Item(i)' = a /\ Item(i + 1)' = b BY <1>1 DEF Item
    <2> HIDE DEF k, l
    <2>3. a.file = b.file /\ a.frag # INVALIDFRAGINDEX /\ b.frag # INVALIDFRAGINDEX
        BY <2>2 DEF IsFragInfoItem, IsFileInfoItem
    <2>4. IF asc THEN Greater(b, a, column) ELSE Greater(a, b, column) BY <1>4, <2>1, <2>3
    <2>5. a \in ItemRow /\ b \in ItemRow /\ a.file \in 1 .. Len(_rgFileInfo) /\ b.file \in 1 .. Len(_rgFileInfo)
        BY <1>4, <2>1 DEF OfFiles
    <2> HIDE DEF a, b
    <2>6. Info(a) \in FragmentInformation /\ Info(b) \in FragmentInformation
        BY <1>3, <2>5, InfoIs
    <2>7. /\ Shown(Item(i), column)' = Shown(a, column)
          /\ Shown(Item(i + 1), column)' = Shown(b, column)
        BY <1>1, <2>2 DEF Shown, Info, column
    <2>8. CASE asc
        <3>1. Greater(b, a, column) BY <2>4, <2>8
        <3>2. Shown(a, column) <= Shown(b, column) BY <2>5, <2>6, <3>1, ShownIs
        <3> QED BY <2>7, <2>8, <3>2
    <2>9. CASE ~asc
        <3>1. Greater(a, b, column) BY <2>4, <2>9
        <3>2. Shown(b, column) <= Shown(a, column) BY <2>5, <2>6, <3>1, ShownIs
        <3> QED BY <2>7, <2>9, <3>2
    <2> QED BY <2>8, <2>9
<1>14. built => InPlace' BY <1>1, <1>9
<1> QED BY <1>12, <1>13, <1>14

-----------------------------------------------------------------------------
(* The page.                                                               *)

LEMMA NoItems ==
    /\ <<>> \in Seq(ItemRow) /\ Len(<<>>) = 0
    /\ \A files : OfFiles(<<>>, files)
    /\ Grouped(<<>>) /\ Distinct(<<>>)
<1>1. <<>> \in Seq(ItemRow) /\ Len(<<>>) = 0 OBVIOUS
<1> QED BY <1>1 DEF OfFiles, Grouped, Distinct

LEMMA NoContexts ==
    ASSUME NEW files, \A f \in DOMAIN files : files[f].ctx = None
    PROVE  Cardinality(WithContext(files)) = 0
<1>1. WithContext(files) = {} BY DEF WithContext
<1> QED BY <1>1, FS_EmptySet

LEMMA PageInvInit == PageInit => PageInv
<1> SUFFICES ASSUME PageInit PROVE PageInv OBVIOUS
<1> USE DEF PageInit
<1>1. _rgFileInfo \in Seq(FileRow) /\ DOMAIN _rgFileInfo = {} OBVIOUS
<1>2. ContextsOwned BY <1>1, NoContexts DEF ContextsOwned
<1>3. OfFiles(_rgItemInfo, _rgFileInfo) /\ Grouped(_rgItemInfo) /\ Distinct(_rgItemInfo) BY NoItems
<1>4. TablesInv BY <1>1, <1>2, <1>3 DEF TablesInv
<1>5. SelectionKept BY DEF SelectionKept, Selectable
<1> QED BY <1>4, <1>5 DEF PageInv

\* Tables without contexts and items.
LEMMA TablesEmpty ==
    ASSUME _rgFileInfo' \in Seq(FileRow), \A f \in DOMAIN _rgFileInfo' : _rgFileInfo'[f].ctx = None,
           _rgItemInfo' = <<>>, open' = 0, built' \in BOOLEAN
    PROVE  TablesInv'
<1>1. ContextsOwned' 
    <2>1. Cardinality(WithContext(_rgFileInfo')) = 0 BY NoContexts
    <2> QED BY <2>1 DEF ContextsOwned, WithContext
<1>2. OfFiles(_rgItemInfo', _rgFileInfo') /\ Grouped(_rgItemInfo') /\ Distinct(_rgItemInfo')
    BY NoItems
<1>3. InPlace'
    <2>1. Rows' = {} BY NoItems DEF Rows
    <2> QED BY <2>1 DEF InPlace
<1> QED BY <1>1, <1>2, <1>3 DEF TablesInv, OfFiles, Grouped, Distinct

LEMMA InitializeStep ==
    ASSUME PageAssumption, PageInv, Initialize
    PROVE  PageInv'
<1>1. /\ page = "none" /\ _rgFileInfo = <<>> /\ _rgItemInfo' = <<>> /\ _bSortASC' = TRUE
      /\ page' \in {"loaded", "gone"}
      /\ UNCHANGED <<open, built, _iCurSel, selected, refreshed>>
    BY DEF Initialize, ClearItems, PageInv, selVars
<1>2. open = 0
    <2>1. DOMAIN _rgFileInfo = {} BY <1>1
    <2>2. Cardinality(WithContext(_rgFileInfo)) = 0 BY <2>1, NoContexts
    <2> QED BY <2>2 DEF PageInv, TablesInv, ContextsOwned
<1>3. _rgFileInfo' \in Seq(FileRow) /\ \A f \in DOMAIN _rgFileInfo' : _rgFileInfo'[f].ctx = None
    <2>1. CASE _rgFileInfo' = _rgFileInfo BY <1>1, <2>1
    <2>2. CASE \E n \in 0 .. MaxFiles : _rgFileInfo' = [f \in 1 .. n |-> NewFile(None)]
        <3>1. PICK n \in 0 .. MaxFiles : _rgFileInfo' = [f \in 1 .. n |-> NewFile(None)] BY <2>2
        <3>2. n \in Nat BY DEF PageAssumption
        <3>3. NewFile(None) \in FileRow /\ NewFile(None).ctx = None BY NewFileIs
        <3>4. [f \in 1 .. n |-> NewFile(None)] \in Seq(FileRow) BY <3>2, <3>3
        <3>5. DOMAIN _rgFileInfo' = 1 .. n BY <3>1
        <3>6. \A f \in 1 .. n : _rgFileInfo'[f] = NewFile(None) BY <3>1
        <3> QED BY <3>1, <3>3, <3>4, <3>5, <3>6
    <2> QED BY <2>1, <2>2 DEF Initialize
<1>4. built' \in BOOLEAN BY <1>1 DEF PageInv, TablesInv
<1>5. TablesInv' BY <1>1, <1>2, <1>3, <1>4, TablesEmpty
<1>6. SelectionKept' BY <1>1 DEF PageInv, SelectionKept, Selectable
<1> QED BY <1>1, <1>5, <1>6 DEF PageInv

LEMMA InitDialogStep ==
    ASSUME PageAssumption, PageInv, OnInitDialog
    PROVE  PageInv'
<1>1. /\ page = "loaded" /\ page' = "shown" /\ RefreshData
      /\ UNCHANGED <<_iCurSel, selected, refreshed>>
    BY DEF OnInitDialog, selVars
<1>2. TablesInv' /\ _bSortASC' \in BOOLEAN BY <1>1, RefreshStep DEF PageInv
<1>3. SelectionKept' BY <1>1 DEF PageInv, SelectionKept, Selectable
<1> QED BY <1>1, <1>2, <1>3 DEF PageInv

LEMMA FinalReleaseStep ==
    ASSUME PageAssumption, PageInv, FinalRelease
    PROVE  PageInv'
<1>1. /\ page' = "gone" /\ _rgFileInfo' = <<>> /\ _rgItemInfo' = <<>> /\ _bSortASC' = TRUE
      /\ open' = open - Cardinality(WithContext(_rgFileInfo)) /\ built' = FALSE
      /\ _iCurSel' = None /\ selected' = None
    BY DEF FinalRelease, ClearItems
<1>2. open' = 0
    <2>1. /\ _rgFileInfo \in Seq(FileRow) /\ open = Cardinality(WithContext(_rgFileInfo))
        BY DEF PageInv, TablesInv, ContextsOwned
    <2>2. open \in Nat BY <2>1, ContextsFinite
    <2> QED BY <1>1, <2>1, <2>2
<1>3. _rgFileInfo' \in Seq(FileRow) /\ DOMAIN _rgFileInfo' = {} BY <1>1
<1>4. TablesInv' BY <1>1, <1>2, <1>3, TablesEmpty
<1>5. SelectionKept' BY <1>1 DEF SelectionKept, Selectable
<1> QED BY <1>1, <1>4, <1>5 DEF PageInv

LEMMA UpdateControlStep ==
    ASSUME PageAssumption, PageInv, OnUpdateControl
    PROVE  PageInv'
<1>1. page = "shown" /\ page' = page /\ RefreshData /\ refreshed' = TRUE BY DEF OnUpdateControl
<1>2. TablesInv' /\ _bSortASC' \in BOOLEAN BY <1>1, RefreshStep DEF PageInv
<1>3. SelectionKept' BY <1>1 DEF SelectionKept
<1> QED BY <1>1, <1>2, <1>3 DEF PageInv

\* Steps that leave the tables alone.
LEMMA TablesKept ==
    ASSUME TablesInv, UNCHANGED tableVars
    PROVE  TablesInv'
BY DEF TablesInv, tableVars, OfFiles, ContextsOwned, WithContext, Grouped, Distinct, InPlace,
       Rows, IsFileInfoItem, Item

LEMMA KeyDownStep ==
    ASSUME PageInv, OnKeyDown
    PROVE  PageInv'
<1>1. /\ page = "shown" /\ page' = page /\ UNCHANGED tableVars /\ UNCHANGED sortVars
      /\ KeyPrior \/ KeyNext \/ KeyHome \/ KeyEnd \/ KeyUp \/ KeyDown
    BY DEF OnKeyDown
<1>2. UNCHANGED _rgItemInfo /\ UNCHANGED _bSortASC BY <1>1 DEF tableVars, sortVars
<1>3. TablesInv' BY <1>1, TablesKept DEF PageInv
<1>4. Keep \/ Clear \/ \E i \in Rows : IsFragInfoItem(i) /\ Select(i)
    BY <1>1, KeysSelect DEF PageInv, TablesInv
<1>5. SelectionKept' BY <1>1, <1>2, <1>4, SelectionStep DEF PageInv
<1> QED BY <1>1, <1>2, <1>3, <1>5 DEF PageInv

LEMMA ButtonDownStep ==
    ASSUME PageInv, NEW i \in Rows, OnButtonDown(i)
    PROVE  PageInv'
<1>1. /\ page = "shown" /\ page' = page /\ UNCHANGED tableVars /\ UNCHANGED sortVars
    BY DEF OnButtonDown
<1>2. UNCHANGED _rgItemInfo /\ UNCHANGED _bSortASC BY <1>1 DEF tableVars, sortVars
<1>3. TablesInv' BY <1>1, TablesKept DEF PageInv
<1>4. SelectionKept'
    <2>1. CASE IsFileInfoItem(i)
        <3>1. selected' \in {None, selected} /\ UNCHANGED <<_iCurSel, refreshed>>
            BY <2>1 DEF OnButtonDown
        <3>2. \A j : Selectable(j)' <=> Selectable(j)
            BY <1>2 DEF Selectable, Rows, IsFragInfoItem, IsFileInfoItem, Item
        <3>3. ~refreshed' => Selectable(_iCurSel') /\ Selectable(selected')
            BY <3>1 DEF PageInv, SelectionKept, Selectable
        <3> QED BY <1>1, <3>2, <3>3 DEF SelectionKept
    <2>2. CASE IsFragInfoItem(i)
        <3>1. Select(i) BY <2>2 DEF OnButtonDown, IsFragInfoItem
        <3> QED BY <1>1, <1>2, <2>2, <3>1, SelectionStep DEF PageInv
    <2> QED BY <2>1, <2>2 DEF IsFragInfoItem
<1> QED BY <1>1, <1>2, <1>3, <1>4 DEF PageInv

\* Steps of the menus and of nobody.
LEMMA OtherStep ==
    ASSUME PageInv, UNCHANGED <<page, tableVars, selVars>>, _bSortASC' \in {_bSortASC, TRUE}
    PROVE  PageInv'
<1>1. TablesInv' BY TablesKept DEF PageInv
<1>2. SelectionKept'
    BY DEF PageInv, SelectionKept, Selectable, Rows, IsFragInfoItem, IsFileInfoItem, Item,
           tableVars, selVars
<1> QED BY <1>1, <1>2 DEF PageInv, tableVars

LEMMA PageInvNext == PageInv /\ [PageNext]_pageVars => PageInv'
<1> SUFFICES ASSUME PageInv, [PageNext]_pageVars PROVE PageInv' OBVIOUS
<1> USE PageAssumption
<1>1. CASE Initialize BY <1>1, InitializeStep
<1>2. CASE OnInitDialog BY <1>2, InitDialogStep
<1>3. CASE FinalRelease BY <1>3, FinalReleaseStep
<1>4. CASE Gone \/ UNCHANGED pageVars BY <1>4, OtherStep DEF Gone, pageVars, sortVars
<1>5. CASE OnUpdateControl BY <1>5, UpdateControlStep
<1>6. ASSUME NEW place \in 0 .. Len(_bColMap) - 1, OnColumnClick(place) PROVE PageInv'
    BY <1>6, SortingStep
<1>7. ASSUME NEW c \in Columns, OnColumnMenuClick(c) PROVE PageInv'
    BY <1>7, OtherStep DEF OnColumnMenuClick, sortVars
<1>8. CASE OnKeyDown BY <1>8, KeyDownStep
<1>9. CASE OnLButtonDown \/ OnRightClick BY <1>9, ButtonDownStep DEF OnLButtonDown, OnRightClick
<1>10. CASE UseFile BY <1>10, OtherStep DEF UseFile, MenuEnds, sortVars, tableVars
<1>11. CASE RefreshFile BY <1>11, OtherStep DEF RefreshFile, MenuEnds, tableVars
<1> QED
    BY <1>1, <1>2, <1>3, <1>4, <1>5, <1>6, <1>7, <1>8, <1>9, <1>10, <1>11 DEF PageNext

LEMMA PageInvariant == PageSpec => []PageInv
<1>1. PageInit => PageInv BY PageInvInit
<1>2. PageInv /\ [PageNext]_pageVars => PageInv' BY PageInvNext
<1> QED BY <1>1, <1>2, PTL DEF PageSpec

\* Each context that the page has open with the engine is that of one row of its table
\* of files, whatever streams come and go, files fail to be read and memory runs out
\* (_UpdateFileInfoTable, _UpdateFileFragmentInfo, _BuildItemInfoTable, _ResetData).
THEOREM ContextsHaveRows == PageSpec => []ContextsOwned
<1>1. PageInv => ContextsOwned BY DEF PageInv, TablesInv
<1> QED BY <1>1, PageInvariant, PTL

\* The row that the list shows as selected is a fragment and not a heading, in whatever
\* order columns are clicked, keys pressed and rows clicked, until the data are
\* refreshed (OnScListViewKeyDown, OnScListViewLButtonDown, _SortItemInfoTable).
THEOREM FragmentsAreSelected == PageSpec => []SelectionOnFragments
<1>1. PageInv => SelectionOnFragments
    BY DEF PageInv, SelectionKept, SelectionOnFragments, Selectable
<1> QED BY <1>1, PageInvariant, PTL

\* A click on a column puts what it shows in order within each file, in the direction
\* asked for, and leaves the headings where they are (_CompareItemInfo, qsort_s).
THEOREM SortingShows == PageSpec => SortShown
<1> DEFINE Sorts1 == \A place \in 0 .. Len(_bColMap) - 1 :
               OnColumnClick(place) /\ built
               => (InPlace /\ InOrder(_bColMap[place + 1], _bSortASC))'
<1>1. PageInv => Sorts1 BY PageAssumption, SortingStep
<1>2. PageInv /\ [PageNext]_pageVars => [Sorts1]_pageVars BY <1>1
<1> HIDE DEF Sorts1
<1>3. PageSpec => [][Sorts1]_pageVars BY <1>2, PageInvariant, PTL DEF PageSpec
<1> QED BY <1>3 DEF SortShown, Sorts1
=============================================================================
