------------------------- MODULE FilterCaptureProofs -------------------------
(***************************************************************************)
(* The filter driver counts its references to contexts and names, and what *)
(* it logs of a file is bounded, for any number of threads and contexts.   *)
(*                                                                         *)
(* The argument: every count of the driver is the size of a set of threads *)
(* or contexts, and a step moves one element of it.  The invariant has     *)
(* parts, each kept by the steps on its own: where a thread may hold what, *)
(* the references to contexts, those to names, who may log, why a count    *)
(* stays raised, and the creates that race.                                *)
(***************************************************************************)
EXTENDS FilterCapture, Integers, FiniteSetTheorems, TLAPS

-----------------------------------------------------------------------------
(* The inductive invariant.                                                *)

\* The places where a thread has a reference on a context.
Holding == {"found", "raise", "won", "log", "stale", "staleName", "done", "attach",
            "rename", "renamed", "swapName", "swapVolume", "reset", "cleanup"}

\* The places where a thread has a name, or knows it.
Named == {"named", "attach", "fallback", "renamed", "swapName"}

Places ==
    \A t \in Threads : /\ ctx[t] # NoContext <=> at[t] \in Holding
                       /\ at[t] \in Named => name[t] \in Names

\* TypeOK, but for the counts of references: that they are not negative is what
\* the exactness of the counts says.
Types ==
    /\ fileName \in Names /\ fileTime \in 0 .. MaxTime
    /\ streamContext \in Contexts \union {NoContext}
    /\ refs \in [Contexts -> Int] /\ Volume \in [Contexts -> BOOLEAN]
    /\ FileNameInformation \in [Contexts -> Names \union {NoName}]
    /\ LoggedCount \in [Contexts -> 0 .. MaxCount]
    /\ LastWriteTime \in [Contexts -> 0 .. MaxTime]
    /\ logs \in [Contexts -> Nat] /\ direct \in [Contexts -> Nat]
    /\ renames \in [Contexts -> Nat]
    /\ current \in [Contexts -> Names \union {NoName}]
    /\ nameLogged \in [Contexts -> BOOLEAN]
    /\ given \in [Contexts -> BOOLEAN] /\ nameRefs \in [Names -> Int]
    /\ at \in [Threads -> PCs] /\ ctx \in [Threads -> Contexts \union {NoContext}]
    /\ name \in [Threads -> Names \union {NoName}]
    /\ logging \in [Threads -> Names \union {NoName}]
    /\ closing \in [Threads -> BOOLEAN] /\ item \in [Threads -> BOOLEAN]

\* The switches of the filter.
Switches == captureRead \in BOOLEAN /\ bugcheck \in BOOLEAN

\* A context that is yet to be attached is its creator's alone.
AttachesItsOwn == \A t \in Threads : at[t] = "attach" => refs[ctx[t]] = 1

\* The threads that have raised LoggedCount of c from 0 and have not logged yet.
Winners(c) == {t \in Threads : ctx[t] = c /\ at[t] \in {"won", "log"}}

\* The right to log c once is with a winner or, as a 0, in LoggedCount; a rename
\* makes a new one.
Rights ==
    \A c \in Contexts :
        logs[c] + Cardinality(Winners(c)) + (IF LoggedCount[c] = 0 THEN 1 ELSE 0)
            <= 1 + renames[c]

\* t is about to log c under the name it was given last, or to reset LoggedCount.
Answers(t, c) ==
    /\ ctx[t] = c
    /\ \/ at[t] \in {"won", "swapVolume", "reset"}
       \/ at[t] = "log" /\ logging[t] = current[c]

\* A count that keeps others from logging c has a reason.
Reasons ==
    /\ \A c \in Contexts : FileNameInformation[c] \in {NoName, current[c]}
    /\ \A c \in Contexts :
           LoggedCount[c] > 0 =>
               nameLogged[c] \/ given[c] \/ \E t \in Threads : Answers(t, c)

\* The creates that can still log the file themselves, beside an attached context.
Racers == {t \in Threads : at[t] \in {"attach", "fallback"}}

Races ==
    /\ RacersLogOnce
    /\ streamContext # NoContext =>
           direct[streamContext] + Cardinality(Racers) < Cardinality(Threads)

IInv == /\ Types /\ Places /\ ContextRefsExact /\ AttachesItsOwn /\ NamesHeld
        /\ Rights /\ Reasons /\ Races

LEMMA NamesAre == NoName \notin Names /\ IsFiniteSet(Contexts) /\ IsFiniteSet(Threads)
BY ConstantsAssumption DEF Names

LEMMA ReleaseNameIs ==
    ASSUME Types, NEW n \in Names \union {NoName}, ReleaseName(n)
    PROVE  /\ nameRefs' \in [Names -> Int]
           /\ \A m \in Names : nameRefs'[m] = IF m = n THEN nameRefs[m] - 1 ELSE nameRefs[m]
<1> USE DEF Types, ReleaseName
<1>1. CASE n = NoName BY <1>1, NamesAre
<1>2. CASE n # NoName BY <1>2
<1> QED BY <1>1, <1>2

LEMMA AddReference ==
    ASSUME Types, NEW n \in Names, nameRefs' = [nameRefs EXCEPT ![n] = @ + 1]
    PROVE  /\ nameRefs' \in [Names -> Int]
           /\ \A m \in Names : nameRefs'[m] = IF m = n THEN nameRefs[m] + 1 ELSE nameRefs[m]
BY DEF Types

LEMMA FreeContextIs ==
    ASSUME Types, NEW c \in Contexts, FreeContext(c)
    PROVE  /\ refs' \in [Contexts -> Int] /\ refs' = [refs EXCEPT ![c] = 0]
           /\ Volume' \in [Contexts -> BOOLEAN]
           /\ FileNameInformation' \in [Contexts -> Names \union {NoName}]
           /\ FileNameInformation' = [FileNameInformation EXCEPT ![c] = NoName]
           /\ ReleaseName(FileNameInformation[c]) /\ nameRefs' \in [Names -> Int]
           /\ LoggedCount' \in [Contexts -> 0 .. MaxCount]
           /\ LastWriteTime' \in [Contexts -> 0 .. MaxTime]
           /\ logs' \in [Contexts -> Nat] /\ renames' \in [Contexts -> Nat]
           /\ direct' \in [Contexts -> Nat] /\ direct' = [direct EXCEPT ![c] = 0]
           /\ current' \in [Contexts -> Names \union {NoName}]
           /\ current' = [current EXCEPT ![c] = NoName]
           /\ nameLogged' \in [Contexts -> BOOLEAN] /\ given' \in [Contexts -> BOOLEAN]
           /\ LoggedCount' = [LoggedCount EXCEPT ![c] = 0]
           /\ logs' = [logs EXCEPT ![c] = 0] /\ renames' = [renames EXCEPT ![c] = 0]
           /\ nameLogged' = [nameLogged EXCEPT ![c] = FALSE]
           /\ given' = [given EXCEPT ![c] = FALSE]
<1> USE ConstantsAssumption DEF Types, FreeContext
<1>1. ReleaseName(FileNameInformation[c]) /\ FileNameInformation[c] \in Names \union {NoName}
    OBVIOUS
<1>2. nameRefs' \in [Names -> Int] BY <1>1, ReleaseNameIs
<1>3. refs' \in [Contexts -> Int] OBVIOUS
<1>4. LoggedCount' \in [Contexts -> 0 .. MaxCount] OBVIOUS
<1>5. LastWriteTime' \in [Contexts -> 0 .. MaxTime] OBVIOUS
<1>6. logs' \in [Contexts -> Nat] /\ direct' \in [Contexts -> Nat] OBVIOUS
<1>10. renames' \in [Contexts -> Nat] OBVIOUS
<1>11. current' \in [Contexts -> Names \union {NoName}] OBVIOUS
<1>12. nameLogged' \in [Contexts -> BOOLEAN] OBVIOUS
<1>7. Volume' \in [Contexts -> BOOLEAN] OBVIOUS
<1>8. given' \in [Contexts -> BOOLEAN] OBVIOUS
<1>9. FileNameInformation' \in [Contexts -> Names \union {NoName}] OBVIOUS
<1> QED BY <1>1, <1>2, <1>3, <1>4, <1>5, <1>6, <1>7, <1>8, <1>9, <1>10, <1>11, <1>12

\* Whether it is the last one or not, a reference goes.
LEMMA ReleaseContextIs ==
    ASSUME Types, NEW c \in Contexts, ReleaseContext(c)
    PROVE  /\ refs' = [refs EXCEPT ![c] = @ - 1] /\ refs' \in [Contexts -> Int]
           /\ \/ refs[c] = 1 /\ FreeContext(c)
              \/ /\ refs[c] # 1
                 /\ UNCHANGED <<Volume, FileNameInformation, LoggedCount, LastWriteTime,
                                historyVars, nameRefs>>
<1>1. CASE refs[c] = 1
    <2>1. FreeContext(c) BY <1>1 DEF ReleaseContext
    <2>2. refs' = [refs EXCEPT ![c] = 0] /\ refs' \in [Contexts -> Int] BY <2>1, FreeContextIs
    <2> QED BY <1>1, <2>1, <2>2 DEF Types
<1>2. CASE refs[c] # 1 BY <1>2 DEF ReleaseContext, Types
<1> QED BY <1>1, <1>2

LEMMA CreateTypes ==
    ASSUME Types, Places, NEW t \in Threads, Create(t)
    PROVE  Types' /\ Places'
<1> USE ConstantsAssumption, NamesAre
    DEF Types, Places, Holding, Named, PCs, At, Goto, fileVars, contextVars, historyVars, threadVars
<1>1. CASE CreateIgnored(t) BY <1>1 DEF CreateIgnored
<1>2. CASE PostCreate(t)
    <2>1. nameRefs' \in [Names -> Int] BY <1>2, AddReference DEF PostCreate
    <2> QED BY <1>2, <2>1 DEF PostCreate
<1>3. CASE PostCreateFails(t)
    <2>1. nameRefs' \in [Names -> Int] BY <1>3, ReleaseNameIs DEF PostCreateFails, LeaveCreate
    <2> QED BY <1>3, <2>1 DEF PostCreateFails, LeaveCreate
<1>4. CASE GetContextFails(t) BY <1>4 DEF GetContextFails
<1>5. CASE FoundContext(t) BY <1>5 DEF FoundContext, HoldContext
<1>6. CASE TestFound(t) BY <1>6 DEF TestFound
<1>7. CASE Allocate(t)
    <2>1. nameRefs' \in [Names -> Int] BY <1>7, AddReference DEF Allocate
    <2> QED BY <1>7, <2>1 DEF Allocate
<1>8. CASE AllocateFails(t) BY <1>8 DEF AllocateFails
<1>9. CASE Attach(t)
    <2>1. nameRefs' \in [Names -> Int] BY <1>9, ReleaseNameIs DEF Attach, LeaveCreate
    <2> QED BY <1>9, <2>1 DEF Attach, LeaveCreate
<1>10. CASE AttachFails(t)
    <2>1. ctx[t] \in Contexts /\ FreeContext(ctx[t]) BY <1>10 DEF AttachFails
    <2> QED BY <1>10, <2>1, FreeContextIs DEF AttachFails
<1>11. CASE Fallback(t)
    <2>1. nameRefs' \in [Names -> Int] BY <1>11, ReleaseNameIs DEF Fallback, LeaveCreate
    <2>2. direct' \in [Contexts -> Nat] BY <1>11 DEF Fallback
    <2> QED BY <1>11, <2>1, <2>2 DEF Fallback, LeaveCreate
<1> QED BY <1>1, <1>2, <1>3, <1>4, <1>5, <1>6, <1>7, <1>8, <1>9, <1>10, <1>11 DEF Create

LEMMA CaptureTypes ==
    ASSUME Types, Places, NEW t \in Threads, Capture(t)
    PROVE  Types' /\ Places'
<1> USE ConstantsAssumption, NamesAre
    DEF Types, Places, Holding, Named, PCs, At, Goto, fileVars, contextVars, historyVars, threadVars
<1>1. CASE Raise(t)
    <2>1. ctx[t] \in Contexts BY <1>1 DEF Raise
    <2>2. LoggedCount' \in [Contexts -> 0 .. MaxCount] BY <1>1, <2>1 DEF Raise
    <2> QED BY <1>1, <2>1, <2>2 DEF Raise
<1>2. CASE QueueItem(t) BY <1>2 DEF QueueItem
<1>3. CASE QueueItemFails(t) BY <1>3 DEF QueueItemFails
<1>4. CASE AllocateItemFails(t) BY <1>4 DEF AllocateItemFails
<1>5. CASE LogStreamContext(t) BY <1>5 DEF LogStreamContext
<1>6. CASE LogWritten(t)
    <2>1. logs' \in [Contexts -> Nat] BY <1>6 DEF LogWritten
    <2> QED BY <1>6, <2>1 DEF LogWritten
<1>7. CASE LogFails(t) BY <1>7 DEF LogFails
<1>8. CASE StaleVolume(t) BY <1>8 DEF StaleVolume
<1>9. CASE StaleName(t)
    <2>1. ctx[t] \in Contexts BY <1>9 DEF StaleName
    <2>2. FileNameInformation[ctx[t]] \in Names \union {NoName} BY <2>1
    <2>3. nameRefs' \in [Names -> Int] BY <1>9, <2>2, ReleaseNameIs DEF StaleName
    <2> QED BY <1>9, <2>1, <2>2, <2>3 DEF StaleName
<1>10. CASE Done(t)
    <2>1. ctx[t] \in Contexts /\ ReleaseContext(ctx[t]) BY <1>10 DEF Done
    <2>2. refs' \in [Contexts -> Int] BY <2>1, ReleaseContextIs
    <2>3. CASE FreeContext(ctx[t]) BY <1>10, <2>1, <2>2, <2>3, FreeContextIs DEF Done
    <2>4. CASE UNCHANGED <<Volume, FileNameInformation, LoggedCount, LastWriteTime, historyVars,
                         nameRefs>>
        BY <1>10, <2>2, <2>4 DEF Done
    <2> QED BY <2>1, <2>3, <2>4, ReleaseContextIs
<1> QED BY <1>1, <1>2, <1>3, <1>4, <1>5, <1>6, <1>7, <1>8, <1>9, <1>10 DEF Capture

LEMMA SetInformationTypes ==
    ASSUME Types, Places, NEW t \in Threads, SetInformation(t)
    PROVE  Types' /\ Places'
<1> USE ConstantsAssumption, NamesAre
    DEF Types, Places, Holding, Named, PCs, At, Goto, fileVars, contextVars, historyVars, threadVars
<1>1. CASE RenameIgnored(t) BY <1>1 DEF RenameIgnored, Names
<1>2. CASE PreRename(t) BY <1>2 DEF PreRename, HoldContext
<1>3. CASE Rename(t)
    <2>1. fileName' \in Names /\ name' = [name EXCEPT ![t] = fileName']
        BY <1>3 DEF Rename, Names
    <2> QED BY <1>3, <2>1 DEF Rename
<1>4. CASE RenameFails(t) BY <1>4 DEF RenameFails
<1>5. CASE PostRename(t)
    <2>1. nameRefs' \in [Names -> Int] BY <1>5, AddReference DEF PostRename
    <2> QED BY <1>5, <2>1 DEF PostRename
<1>6. CASE SwapName(t) BY <1>6 DEF SwapName
<1>7. CASE SwapVolume(t) BY <1>7 DEF SwapVolume
<1>8. CASE ResetCount(t)
    <2>1. nameRefs' \in [Names -> Int] BY <1>8, ReleaseNameIs DEF ResetCount
    <2>2. renames' \in [Contexts -> Nat] BY <1>8 DEF ResetCount
    <2>3. LoggedCount' \in [Contexts -> 0 .. MaxCount] BY <1>8 DEF ResetCount
    <2> QED BY <1>8, <2>1, <2>2, <2>3 DEF ResetCount
<1>9. CASE PreDelete(t)
    <2>1. LoggedCount' \in [Contexts -> 0 .. MaxCount] BY <1>9 DEF PreDelete
    <2> QED BY <1>9, <2>1 DEF PreDelete
<1> QED BY <1>1, <1>2, <1>3, <1>4, <1>5, <1>6, <1>7, <1>8, <1>9 DEF SetInformation

LEMMA CleanupTypes ==
    ASSUME Types, Places, NEW t \in Threads, Cleanup(t)
    PROVE  Types' /\ Places'
<1> USE ConstantsAssumption, NamesAre
    DEF Types, Places, Holding, Named, PCs, At, Goto, fileVars, contextVars, historyVars, threadVars
<1>1. CASE CleanupIgnored(t) BY <1>1 DEF CleanupIgnored
<1>2. CASE PreCleanup(t) BY <1>2 DEF PreCleanup, HoldContext
<1>3. CASE CompareTimes(t) BY <1>3 DEF CompareTimes
<1>4. CASE CompareFails(t) BY <1>4 DEF CompareFails
<1> QED BY <1>1, <1>2, <1>3, <1>4 DEF Cleanup

LEMMA StreamClosedTypes ==
    ASSUME Types, Places, StreamClosed
    PROVE  Types' /\ Places'
<1> USE ConstantsAssumption, NamesAre DEF Types, Places, fileVars, historyVars, threadVars
<1>1. streamContext \in Contexts /\ ReleaseContext(streamContext) BY DEF StreamClosed
<1>2. refs' \in [Contexts -> Int] BY <1>1, ReleaseContextIs
<1>3. CASE FreeContext(streamContext)
    BY <1>1, <1>2, <1>3, FreeContextIs DEF StreamClosed
<1>4. CASE UNCHANGED <<Volume, FileNameInformation, LoggedCount, LastWriteTime, historyVars,
                         nameRefs>>
    BY <1>2, <1>4 DEF StreamClosed
<1> QED BY <1>1, <1>3, <1>4, ReleaseContextIs

LEMMA OtherTypes ==
    ASSUME Types, Places, NEW t \in Threads, Write(t) \/ SetFeatureControls \/ UNCHANGED vars
    PROVE  Types' /\ Places'
BY ConstantsAssumption DEF Types, Places, Write, SetFeatureControls, vars, At, fileVars,
       contextVars, historyVars, threadVars

-----------------------------------------------------------------------------
(* Sets that differ in one element, and the driver's counts.               *)

One(P) == IF P THEN 1 ELSE 0

LEMMA OneElement ==
    ASSUME NEW S, NEW T, NEW x, IsFiniteSet(S), \A y : y # x => (y \in S <=> y \in T)
    PROVE  /\ IsFiniteSet(T) /\ Cardinality(S) \in Nat /\ Cardinality(T) \in Nat
           /\ Cardinality(T) = Cardinality(S) - One(x \in S) + One(x \in T)
<1>1. CASE x \in T
    <2>1. T = S \union {x} BY <1>1
    <2> QED BY <1>1, <2>1, FS_AddElement, FS_CardinalityType DEF One
<1>2. CASE x \notin T
    <2>1. T = S \ {x} BY <1>2
    <2> QED BY <1>2, <2>1, FS_RemoveElement, FS_CardinalityType DEF One
<1> QED BY <1>1, <1>2

Naming(n) == {c \in Contexts : FileNameInformation[c] = n}

LEMMA Finite ==
    /\ \A c : IsFiniteSet(Users(c)) /\ Cardinality(Users(c)) \in Nat
    /\ \A c : IsFiniteSet(Winners(c)) /\ Cardinality(Winners(c)) \in Nat
    /\ \A n : IsFiniteSet(NameHolders(n)) /\ Cardinality(NameHolders(n)) \in Nat
    /\ \A n : IsFiniteSet(Naming(n)) /\ Cardinality(Naming(n)) \in Nat
<1>1. /\ \A c : Users(c) \in SUBSET Threads
      /\ \A c : Winners(c) \in SUBSET Threads
      /\ \A n : NameHolders(n) \in SUBSET Threads
      /\ \A n : Naming(n) \in SUBSET Contexts
    BY DEF Users, Winners, NameHolders, Naming
<1>2. /\ \A T \in SUBSET Threads : IsFiniteSet(T)
      /\ \A T \in SUBSET Contexts : IsFiniteSet(T)
    BY NamesAre, FS_Subset
<1>3. \A T : IsFiniteSet(T) => Cardinality(T) \in Nat BY FS_CardinalityType
<1> QED BY <1>1, <1>2, <1>3

LEMMA Member == \A S, x : IsFiniteSet(S) /\ x \in S => Cardinality(S) >= 1
<1> SUFFICES ASSUME NEW S, NEW x, IsFiniteSet(S), x \in S PROVE Cardinality(S) >= 1
    OBVIOUS
<1>1. Cardinality(S) \in Nat /\ (Cardinality(S) = 0 <=> S = {})
    BY FS_CardinalityType, FS_EmptySet
<1> QED BY <1>1

\* Thread t takes, keeps or drops a context; the others keep theirs.
LEMMA UsersStep ==
    ASSUME NEW t \in Threads, NEW c, \A u \in Threads \ {t} : ctx'[u] = ctx[u]
    PROVE  Cardinality(Users(c)') = Cardinality(Users(c)) - One(ctx[t] = c) + One(ctx'[t] = c)
<1>1. \A u : u # t => (u \in Users(c) <=> u \in Users(c)') BY DEF Users
<1>2. (t \in Users(c) <=> ctx[t] = c) /\ (t \in Users(c)' <=> ctx'[t] = c) BY DEF Users
<1> HIDE DEF Users
<1> QED BY <1>1, <1>2, Finite, OneElement DEF One

-----------------------------------------------------------------------------
(* The references to contexts.                                             *)

Counted == ContextRefsExact /\ AttachesItsOwn

LEMMA AttachAlone ==
    ASSUME Types, Places, Counted, NEW u \in Threads, at[u] = "attach"
    PROVE  /\ ctx[u] \in Contexts /\ ctx[u] # streamContext
           /\ \A v \in Threads : v # u => ctx[v] # ctx[u]
<1> DEFINE c == ctx[u]
<1>1. c \in Contexts /\ refs[c] = 1 BY DEF Types, Places, Holding, Counted, AttachesItsOwn
<1>2. refs[c] = Cardinality(Users(c)) + One(streamContext = c)
    BY <1>1 DEF Counted, ContextRefsExact, One
<1>3. u \in Users(c) /\ IsFiniteSet(Users(c)) /\ Cardinality(Users(c)) \in Nat
    BY Finite DEF Users
<1>4. Cardinality(Users(c)) >= 1 BY <1>3, Member
<1>5. Cardinality(Users(c)) = 1 /\ streamContext # c BY <1>1, <1>2, <1>3, <1>4 DEF One
<1>6. PICK x : Users(c) = {x} BY <1>3, <1>5, FS_Singleton
<1>7. \A v \in Threads : ctx[v] = c => v \in Users(c) BY DEF Users
<1> QED BY <1>1, <1>3, <1>5, <1>6, <1>7

\* What a step of t adds to the references on a context, it adds to their holders.
LEMMA Balance ==
    ASSUME Types, ContextRefsExact, NEW t \in Threads, \A u \in Threads \ {t} : ctx'[u] = ctx[u],
           \A c \in Contexts :
               refs'[c] = refs[c] - One(ctx[t] = c) + One(ctx'[t] = c)
                                  - One(streamContext = c) + One(streamContext' = c)
    PROVE  ContextRefsExact'
<1> SUFFICES ASSUME NEW c \in Contexts
             PROVE  refs'[c] = Cardinality(Users(c)') + One(streamContext' = c)
    BY DEF ContextRefsExact, One
<1>1. refs[c] = Cardinality(Users(c)) + One(streamContext = c) BY DEF ContextRefsExact, One
<1>2. Cardinality(Users(c)') = Cardinality(Users(c)) - One(ctx[t] = c) + One(ctx'[t] = c)
    BY UsersStep
<1>3. Cardinality(Users(c)) \in Nat BY Finite
<1> QED BY <1>1, <1>2, <1>3 DEF One

\* Only the context of t and the one attached change their counts.
LEMMA OthersAttach ==
    ASSUME Types, Places, Counted, NEW t \in Threads,
           \A u \in Threads \ {t} : ctx'[u] = ctx[u] /\ at'[u] = at[u], at'[t] # "attach",
           \A c \in Contexts : c # ctx[t] /\ c # streamContext => refs'[c] = refs[c]
    PROVE  AttachesItsOwn'
<1> SUFFICES ASSUME NEW u \in Threads, at'[u] = "attach" PROVE refs'[ctx'[u]] = 1
    BY DEF AttachesItsOwn
<1>1. u # t /\ at[u] = "attach" /\ ctx'[u] = ctx[u] OBVIOUS
<1>2. ctx[u] \in Contexts /\ ctx[u] # streamContext /\ ctx[u] # ctx[t] BY <1>1, AttachAlone
<1>3. refs[ctx[u]] = 1 BY <1>1 DEF Counted, AttachesItsOwn
<1> QED BY <1>1, <1>2, <1>3

LEMMA QuietCounted ==
    ASSUME Counted, UNCHANGED <<refs, ctx, streamContext>>,
           \A u \in Threads : at'[u] = "attach" => at[u] = "attach"
    PROVE  Counted'
BY DEF Counted, ContextRefsExact, AttachesItsOwn, Users

LEMMA HoldCounted ==
    ASSUME Types, Places, Counted, NEW t \in Threads,
           FoundContext(t) \/ PreRename(t) \/ PreCleanup(t)
    PROVE  Counted'
<1>1. /\ at[t] \in {"named", "open"} /\ HoldContext(t) /\ UNCHANGED streamContext
      /\ \E pc \in PCs \ {"attach"} : at' = [at EXCEPT ![t] = pc]
    BY DEF FoundContext, PreRename, PreCleanup, At, Goto, PCs, fileVars
<1>2. /\ ctx[t] = NoContext /\ streamContext \in Contexts
      /\ ctx' = [ctx EXCEPT ![t] = streamContext]
      /\ refs' = [refs EXCEPT ![streamContext] = @ + 1]
    BY <1>1 DEF Types, Places, Holding, HoldContext
<1>3. ContextRefsExact'
    <2>1. \A c \in Contexts :
              refs'[c] = refs[c] - One(ctx[t] = c) + One(ctx'[t] = c)
                                 - One(streamContext = c) + One(streamContext' = c)
        BY <1>1, <1>2, ConstantsAssumption DEF Types, One
    <2> QED BY <1>2, <2>1, Balance DEF Counted, Types
<1>4. AttachesItsOwn'
    <2>1. /\ \A u \in Threads \ {t} : ctx'[u] = ctx[u] /\ at'[u] = at[u]
          /\ at'[t] # "attach"
          /\ \A c \in Contexts : c # ctx[t] /\ c # streamContext => refs'[c] = refs[c]
        BY <1>1, <1>2 DEF Types
    <2> QED BY <2>1, OthersAttach
<1> QED BY <1>3, <1>4 DEF Counted

LEMMA AllocateCounted ==
    ASSUME Types, Places, Counted, NEW t \in Threads, Allocate(t)
    PROVE  Counted'
<1>1. PICK c \in Contexts : /\ refs[c] = 0 /\ ctx' = [ctx EXCEPT ![t] = c]
                            /\ refs' = [refs EXCEPT ![c] = 1]
    BY DEF Allocate
<1>2. /\ at[t] = "named" /\ at' = [at EXCEPT ![t] = "attach"] /\ UNCHANGED streamContext
      /\ streamContext = NoContext
    BY DEF Allocate, At, Goto
<1>3. ctx[t] = NoContext BY <1>2 DEF Places, Holding
<1>4. ContextRefsExact'
    <2>1. \A d \in Contexts :
              refs'[d] = refs[d] - One(ctx[t] = d) + One(ctx'[t] = d)
                                 - One(streamContext = d) + One(streamContext' = d)
        BY <1>1, <1>2, <1>3, ConstantsAssumption DEF Types, One
    <2> QED BY <1>1, <2>1, Balance DEF Counted, Types
<1>5. AttachesItsOwn' BY <1>1, <1>2 DEF Types, Places, Holding, Counted, AttachesItsOwn
<1> QED BY <1>4, <1>5 DEF Counted

LEMMA AttachCounted ==
    ASSUME Types, Places, Counted, NEW t \in Threads, Attach(t)
    PROVE  Counted'
<1>1. /\ at[t] = "attach" /\ at' = [at EXCEPT ![t] = "open"]
      /\ streamContext = NoContext /\ streamContext' = ctx[t]
      /\ ctx' = [ctx EXCEPT ![t] = NoContext] /\ UNCHANGED refs
    BY DEF Attach, At, Goto, LeaveCreate, contextVars, historyVars
<1>2. ContextRefsExact'
    <2>1. \A c \in Contexts :
              refs'[c] = refs[c] - One(ctx[t] = c) + One(ctx'[t] = c)
                                 - One(streamContext = c) + One(streamContext' = c)
        BY <1>1, ConstantsAssumption DEF Types, One
    <2> QED BY <1>1, <2>1, Balance DEF Counted, Types
<1>3. AttachesItsOwn'
    <2>1. /\ \A u \in Threads \ {t} : ctx'[u] = ctx[u] /\ at'[u] = at[u]
          /\ at'[t] # "attach"
          /\ \A c \in Contexts : c # ctx[t] /\ c # streamContext => refs'[c] = refs[c]
        BY <1>1 DEF Types
    <2> QED BY <2>1, OthersAttach
<1> QED BY <1>2, <1>3 DEF Counted

\* t's reference goes, with or without the context.
LEMMA ReleaseCounted ==
    ASSUME Types, Places, Counted, NEW t \in Threads, AttachFails(t) \/ Done(t)
    PROVE  Counted'
<1>1. /\ ctx[t] \in Contexts /\ ctx' = [ctx EXCEPT ![t] = NoContext] /\ UNCHANGED streamContext
      /\ \E pc \in PCs \ {"attach"} : at' = [at EXCEPT ![t] = pc]
    BY DEF Types, Places, Holding, AttachFails, Done, At, Goto, PCs
<1>2. refs' = [refs EXCEPT ![ctx[t]] = @ - 1]
    <2>1. CASE AttachFails(t)
        <3>1. at[t] = "attach" /\ FreeContext(ctx[t]) BY <2>1 DEF AttachFails, At
        <3>2. refs[ctx[t]] = 1 BY <3>1 DEF Counted, AttachesItsOwn
        <3> QED BY <1>1, <3>1, <3>2 DEF FreeContext, Types
    <2>2. CASE Done(t) BY <1>1, <2>2, ReleaseContextIs DEF Done
    <2> QED BY <2>1, <2>2
<1>3. ContextRefsExact'
    <2>1. \A c \in Contexts :
              refs'[c] = refs[c] - One(ctx[t] = c) + One(ctx'[t] = c)
                                 - One(streamContext = c) + One(streamContext' = c)
        BY <1>1, <1>2, ConstantsAssumption DEF Types, One
    <2> QED BY <1>1, <2>1, Balance DEF Counted, Types
<1>4. AttachesItsOwn'
    <2>1. /\ \A u \in Threads \ {t} : ctx'[u] = ctx[u] /\ at'[u] = at[u]
          /\ at'[t] # "attach"
          /\ \A c \in Contexts : c # ctx[t] /\ c # streamContext => refs'[c] = refs[c]
        BY <1>1, <1>2 DEF Types
    <2> QED BY <2>1, OthersAttach
<1> QED BY <1>3, <1>4 DEF Counted

LEMMA CloseCounted ==
    ASSUME Types, Places, Counted, StreamClosed
    PROVE  Counted'
<1>1. /\ streamContext \in Contexts /\ streamContext' = NoContext /\ UNCHANGED <<ctx, at>>
      /\ ReleaseContext(streamContext)
    BY DEF StreamClosed, Types, threadVars
<1>2. refs' = [refs EXCEPT ![streamContext] = @ - 1] BY <1>1, ReleaseContextIs
<1>3. ContextRefsExact'
    <2> SUFFICES ASSUME NEW c \in Contexts
                 PROVE  refs'[c] = Cardinality(Users(c)) + One(streamContext' = c)
        BY <1>1 DEF ContextRefsExact, One, Users
    <2>1. refs[c] = Cardinality(Users(c)) + One(streamContext = c)
        BY DEF Counted, ContextRefsExact, One
    <2> QED BY <1>1, <1>2, <2>1, Finite, ConstantsAssumption DEF One, Types
<1>4. AttachesItsOwn'
    <2> SUFFICES ASSUME NEW u \in Threads, at[u] = "attach" PROVE refs'[ctx[u]] = 1
        BY <1>1 DEF AttachesItsOwn
    <2>1. ctx[u] \in Contexts /\ ctx[u] # streamContext BY AttachAlone
    <2> QED BY <1>2, <2>1 DEF Types, Counted, AttachesItsOwn
<1> QED BY <1>3, <1>4 DEF Counted

\* The steps that leave references to contexts alone.
QuietSteps(t) ==
    \/ CreateIgnored(t) \/ PostCreate(t) \/ PostCreateFails(t) \/ GetContextFails(t)
    \/ TestFound(t) \/ AllocateFails(t) \/ Fallback(t)
    \/ Raise(t) \/ QueueItem(t) \/ QueueItemFails(t) \/ AllocateItemFails(t)
    \/ LogStreamContext(t) \/ LogWritten(t) \/ LogFails(t) \/ StaleVolume(t) \/ StaleName(t)
    \/ RenameIgnored(t) \/ Rename(t) \/ RenameFails(t) \/ PostRename(t)
    \/ SwapName(t) \/ SwapVolume(t) \/ ResetCount(t) \/ PreDelete(t)
    \/ CleanupIgnored(t) \/ CompareTimes(t) \/ CompareFails(t) \/ Write(t)
    \/ SetFeatureControls \/ UNCHANGED vars

LEMMA QuietStepCounted ==
    ASSUME Types, Counted, NEW t \in Threads, QuietSteps(t)
    PROVE  Counted'
<1>1. UNCHANGED <<refs, ctx, streamContext>>
    BY DEF QuietSteps, CreateIgnored, PostCreate, PostCreateFails, GetContextFails, TestFound,
           AllocateFails, Fallback, Raise, QueueItem, QueueItemFails, AllocateItemFails,
           LogStreamContext, LogWritten, LogFails, StaleVolume, StaleName, RenameIgnored,
           Rename, RenameFails, PostRename, SwapName, SwapVolume, ResetCount, PreDelete,
           CleanupIgnored, CompareTimes, CompareFails, Write, SetFeatureControls, vars,
           contextVars, historyVars, threadVars
<1>2. at' = at \/ \E pc \in PCs \ {"attach"} : at' = [at EXCEPT ![t] = pc]
    BY DEF QuietSteps, CreateIgnored, PostCreate, PostCreateFails, GetContextFails, TestFound,
           AllocateFails, Fallback, Raise, QueueItem, QueueItemFails, AllocateItemFails,
           LogStreamContext, LogWritten, LogFails, StaleVolume, StaleName, RenameIgnored,
           Rename, RenameFails, PostRename, SwapName, SwapVolume, ResetCount, PreDelete,
           CleanupIgnored, CompareTimes, CompareFails, Write, SetFeatureControls, vars,
           LeaveCreate, Goto, PCs
<1>3. \A u \in Threads : at'[u] = "attach" => at[u] = "attach" BY <1>2 DEF Types
<1> QED BY <1>1, <1>3, QuietCounted

LEMMA CountedStep ==
    ASSUME Types, Places, Counted, [Next]_vars
    PROVE  Counted'
<1>1. ASSUME NEW t \in Threads,
             Create(t) \/ Capture(t) \/ SetInformation(t) \/ Cleanup(t) \/ Write(t)
      PROVE  Counted'
    BY <1>1, QuietStepCounted, HoldCounted, AllocateCounted, AttachCounted, ReleaseCounted
       DEF QuietSteps, Create, Capture, SetInformation, Cleanup
<1>2. CASE SetFeatureControls \/ UNCHANGED vars
    BY <1>2, QuietCounted DEF SetFeatureControls, vars, contextVars, historyVars, threadVars
<1> QED BY <1>1, <1>2, CloseCounted DEF Next

-----------------------------------------------------------------------------
(* The references to names.                                                *)

Holds(t, n) == name[t] = n /\ at[t] # "renamed"

LEMMA HoldersStep ==
    ASSUME NEW t \in Threads, NEW n,
           \A u \in Threads \ {t} : name'[u] = name[u] /\ at'[u] = at[u]
    PROVE  Cardinality(NameHolders(n)')
              = Cardinality(NameHolders(n)) - One(Holds(t, n)) + One(Holds(t, n)')
<1>1. \A u : u # t => (u \in NameHolders(n) <=> u \in NameHolders(n)') BY DEF NameHolders
<1>2. (t \in NameHolders(n) <=> Holds(t, n)) /\ (t \in NameHolders(n)' <=> Holds(t, n)')
    BY DEF NameHolders, Holds
<1> HIDE DEF NameHolders
<1> QED BY <1>1, <1>2, Finite, OneElement DEF One

LEMMA NamingStep ==
    ASSUME NEW c \in Contexts, NEW n,
           \A d \in Contexts \ {c} : FileNameInformation'[d] = FileNameInformation[d]
    PROVE  Cardinality(Naming(n)')
              = Cardinality(Naming(n)) - One(FileNameInformation[c] = n)
                                       + One(FileNameInformation'[c] = n)
<1>1. \A d : d # c => (d \in Naming(n) <=> d \in Naming(n)') BY DEF Naming
<1>2. /\ c \in Naming(n) <=> FileNameInformation[c] = n
      /\ c \in Naming(n)' <=> FileNameInformation'[c] = n
    BY DEF Naming
<1> HIDE DEF Naming
<1> QED BY <1>1, <1>2, Finite, OneElement DEF One

LEMMA NamesHeldIs ==
    NamesHeld <=> \A n \in Names :
                      nameRefs[n] >= Cardinality(NameHolders(n)) + Cardinality(Naming(n))
BY DEF NamesHeld, Naming

\* A step of t in which a name passes between t, the name's count and nothing else.
LEMMA HolderBalance ==
    ASSUME Types, NamesHeld, NEW t \in Threads, nameRefs' \in [Names -> Int],
           \A u \in Threads \ {t} : name'[u] = name[u] /\ at'[u] = at[u],
           UNCHANGED FileNameInformation,
           \A n \in Names : nameRefs'[n] >= nameRefs[n] - One(Holds(t, n)) + One(Holds(t, n)')
    PROVE  NamesHeld'
<1> SUFFICES ASSUME NEW n \in Names
             PROVE  nameRefs'[n] >= Cardinality(NameHolders(n)') + Cardinality(Naming(n)')
    BY DEF NamesHeld, Naming
<1>1. nameRefs[n] >= Cardinality(NameHolders(n)) + Cardinality(Naming(n)) BY NamesHeldIs
<1>2. Naming(n)' = Naming(n) BY DEF Naming
<1>3. Cardinality(NameHolders(n)')
         = Cardinality(NameHolders(n)) - One(Holds(t, n)) + One(Holds(t, n)')
    BY HoldersStep
<1>4. nameRefs[n] \in Int /\ nameRefs'[n] \in Int BY DEF Types
<1> QED BY <1>1, <1>2, <1>3, <1>4, Finite DEF One

\* A step of t on context c, which may pass names between them.
LEMMA NameBalance ==
    ASSUME Types, NamesHeld, NEW t \in Threads, NEW c \in Contexts, nameRefs' \in [Names -> Int],
           \A u \in Threads \ {t} : name'[u] = name[u] /\ at'[u] = at[u],
           \A d \in Contexts \ {c} : FileNameInformation'[d] = FileNameInformation[d],
           \A n \in Names :
               nameRefs'[n] >= nameRefs[n] - One(Holds(t, n)) + One(Holds(t, n)')
                                           - One(FileNameInformation[c] = n)
                                           + One(FileNameInformation'[c] = n)
    PROVE  NamesHeld'
<1> SUFFICES ASSUME NEW n \in Names
             PROVE  nameRefs'[n] >= Cardinality(NameHolders(n)') + Cardinality(Naming(n)')
    BY DEF NamesHeld, Naming
<1>1. nameRefs[n] >= Cardinality(NameHolders(n)) + Cardinality(Naming(n)) BY NamesHeldIs
<1>2. Cardinality(Naming(n)')
         = Cardinality(Naming(n)) - One(FileNameInformation[c] = n)
                                  + One(FileNameInformation'[c] = n)
    BY NamingStep
<1>3. Cardinality(NameHolders(n)')
         = Cardinality(NameHolders(n)) - One(Holds(t, n)) + One(Holds(t, n)')
    BY HoldersStep
<1>4. nameRefs[n] \in Int /\ nameRefs'[n] \in Int BY DEF Types
<1> QED BY <1>1, <1>2, <1>3, <1>4, Finite DEF One

\* No reference is dropped, and no thread holds a name it did not hold before.
LEMMA QuietHeld ==
    ASSUME Types, NamesHeld, UNCHANGED <<nameRefs, FileNameInformation>>,
           \A u \in Threads, n \in Names : Holds(u, n)' => Holds(u, n)
    PROVE  NamesHeld'
<1> SUFFICES ASSUME NEW n \in Names
             PROVE  nameRefs[n] >= Cardinality(NameHolders(n)') + Cardinality(Naming(n)')
    BY DEF NamesHeld, Naming
<1>1. nameRefs[n] >= Cardinality(NameHolders(n)) + Cardinality(Naming(n)) BY NamesHeldIs
<1>2. Naming(n)' = Naming(n) BY DEF Naming
<1>3. NameHolders(n)' \in SUBSET NameHolders(n) BY DEF NameHolders, Holds
<1>4. Cardinality(NameHolders(n)') <= Cardinality(NameHolders(n))
    <2> HIDE DEF NameHolders
    <2> QED BY <1>3, Finite, FS_Subset
<1>5. Cardinality(NameHolders(n)') \in Nat
    <2> HIDE DEF NameHolders
    <2> QED BY <1>3, Finite, FS_Subset, FS_CardinalityType
<1>6. nameRefs[n] \in Int BY DEF Types
<1> QED BY <1>1, <1>2, <1>4, <1>5, <1>6, Finite

LEMMA TakeHeld ==
    ASSUME Types, Places, NamesHeld, NEW t \in Threads, PostCreate(t) \/ PostRename(t)
    PROVE  NamesHeld'
<1>1. PICK n \in Names : nameRefs' = [nameRefs EXCEPT ![n] = @ + 1] /\ name'[t] = n
    BY DEF PostCreate, PostRename, At, Types, Places, Named, threadVars
<1>2. /\ \A u \in Threads \ {t} : name'[u] = name[u] /\ at'[u] = at[u]
      /\ UNCHANGED FileNameInformation
    BY DEF PostCreate, PostRename, Goto, Types, contextVars, historyVars, threadVars
<1>3. \A m \in Names : nameRefs'[m] >= nameRefs[m] - One(Holds(t, m)) + One(Holds(t, m)')
    BY <1>1, AddReference DEF Types, One, Holds
<1>4. nameRefs' \in [Names -> Int] BY <1>1, AddReference
<1> QED BY <1>2, <1>3, <1>4, HolderBalance

LEMMA DropHeld ==
    ASSUME Types, Places, NamesHeld, NEW t \in Threads,
           PostCreateFails(t) \/ Attach(t) \/ Fallback(t) \/ ResetCount(t)
    PROVE  NamesHeld'
<1>1. /\ ReleaseName(name[t]) /\ name' = [name EXCEPT ![t] = NoName] /\ at[t] # "renamed"
      /\ name[t] \in Names \union {NoName}
    BY DEF PostCreateFails, Attach, Fallback, ResetCount, LeaveCreate, At, Types
<1>2. /\ \A u \in Threads \ {t} : name'[u] = name[u] /\ at'[u] = at[u]
      /\ UNCHANGED FileNameInformation
    BY DEF PostCreateFails, Attach, Fallback, ResetCount, LeaveCreate, Goto, Types, contextVars, historyVars
<1>3. \A m \in Names : nameRefs'[m] >= nameRefs[m] - One(Holds(t, m)) + One(Holds(t, m)')
    BY <1>1, ReleaseNameIs, NamesAre DEF Types, One, Holds
<1>4. nameRefs' \in [Names -> Int] BY <1>1, ReleaseNameIs
<1> QED BY <1>2, <1>3, <1>4, HolderBalance

LEMMA AllocateHeld ==
    ASSUME Types, Places, NamesHeld, NEW t \in Threads, Allocate(t)
    PROVE  NamesHeld'
<1>1. PICK c \in Contexts : FileNameInformation' = [FileNameInformation EXCEPT ![c] = name[t]]
    BY DEF Allocate
<1>2. name[t] \in Names /\ nameRefs' = [nameRefs EXCEPT ![name[t]] = @ + 1]
    BY DEF Allocate, At, Places, Named
<1>3. \A u \in Threads \ {t} : name'[u] = name[u] /\ at'[u] = at[u] BY DEF Allocate, Goto, Types
<1>4. \A m \in Names : Holds(t, m)' <=> Holds(t, m)
    BY DEF Allocate, At, Goto, Types, Holds
<1>5. \A m \in Names :
          nameRefs'[m] >= nameRefs[m] - One(Holds(t, m)) + One(Holds(t, m)')
                                      - One(FileNameInformation[c] = m)
                                      + One(FileNameInformation'[c] = m)
    BY <1>1, <1>2, <1>4, AddReference DEF Types, One
<1>6. \A d \in Contexts \ {c} : FileNameInformation'[d] = FileNameInformation[d]
    BY <1>1 DEF Types
<1> QED BY <1>2, <1>3, <1>5, <1>6, AddReference, NameBalance

\* The new name goes into the context, the old one is left with the thread.
LEMMA SwapHeld ==
    ASSUME Types, Places, NamesHeld, NEW t \in Threads, SwapName(t)
    PROVE  NamesHeld'
<1> DEFINE c == ctx[t]
<1>1. /\ c \in Contexts /\ name[t] \in Names /\ at[t] = "swapName"
      /\ at' = [at EXCEPT ![t] = "swapVolume"]
      /\ FileNameInformation' = [FileNameInformation EXCEPT ![c] = name[t]]
      /\ name' = [name EXCEPT ![t] = FileNameInformation[c]] /\ UNCHANGED nameRefs
    BY DEF SwapName, At, Goto, Places, Holding, Named, Types
<1> HIDE DEF c
<1>2. \A u \in Threads \ {t} : name'[u] = name[u] /\ at'[u] = at[u] BY <1>1 DEF Types
<1>3. \A d \in Contexts \ {c} : FileNameInformation'[d] = FileNameInformation[d]
    BY <1>1 DEF Types
<1>4. \A m \in Names :
          nameRefs'[m] >= nameRefs[m] - One(Holds(t, m)) + One(Holds(t, m)')
                                      - One(FileNameInformation[c] = m)
                                      + One(FileNameInformation'[c] = m)
    BY <1>1 DEF Types, One, Holds
<1>5. nameRefs' \in [Names -> Int] BY <1>1 DEF Types
<1> QED BY <1>1, <1>2, <1>3, <1>4, <1>5, NameBalance

\* The name goes from context c, and its reference with it.
LEMMA ContextDrops ==
    ASSUME Types, NamesHeld, NEW t \in Threads, NEW c \in Contexts,
           ReleaseName(FileNameInformation[c]),
           FileNameInformation' = [FileNameInformation EXCEPT ![c] = NoName],
           \A u \in Threads \ {t} : name'[u] = name[u] /\ at'[u] = at[u],
           \A n \in Names : Holds(t, n)' => Holds(t, n)
    PROVE  NamesHeld'
<1>1. FileNameInformation[c] \in Names \union {NoName} BY DEF Types
<1>2. /\ nameRefs' \in [Names -> Int]
      /\ \A m \in Names : nameRefs'[m] = IF m = FileNameInformation[c]
                                          THEN nameRefs[m] - 1 ELSE nameRefs[m]
    BY <1>1, ReleaseNameIs
<1>3. \A m \in Names :
          nameRefs'[m] >= nameRefs[m] - One(Holds(t, m)) + One(Holds(t, m)')
                                      - One(FileNameInformation[c] = m)
                                      + One(FileNameInformation'[c] = m)
    BY <1>2, NamesAre DEF Types, One
<1>4. \A d \in Contexts \ {c} : FileNameInformation'[d] = FileNameInformation[d] BY DEF Types
<1> QED BY <1>2, <1>3, <1>4, NameBalance

LEMMA ReleaseHeld ==
    ASSUME Types, Places, NamesHeld, NEW t \in Threads, StaleName(t) \/ AttachFails(t) \/ Done(t)
    PROVE  NamesHeld'
<1>1. /\ ctx[t] \in Contexts
      /\ \A u \in Threads \ {t} : name'[u] = name[u] /\ at'[u] = at[u]
    BY DEF Types, Places, Holding, StaleName, AttachFails, Done, At, Goto, threadVars
<1>2. \A n \in Names : Holds(t, n)' => Holds(t, n)
    BY NamesAre DEF Types, StaleName, AttachFails, Done, At, Goto, threadVars, Holds
<1>3. CASE StaleName(t) BY <1>1, <1>2, <1>3, ContextDrops DEF StaleName
<1>4. CASE AttachFails(t)
    <2>1. FreeContext(ctx[t]) BY <1>4 DEF AttachFails
    <2> QED BY <1>1, <1>2, <2>1, FreeContextIs, ContextDrops
<1>5. CASE Done(t)
    <2>1. ReleaseContext(ctx[t]) BY <1>5 DEF Done
    <2>2. CASE FreeContext(ctx[t]) BY <1>1, <1>2, <2>2, FreeContextIs, ContextDrops
    <2>3. CASE UNCHANGED <<FileNameInformation, nameRefs>>
        <3>1. \A u \in Threads, n \in Names : Holds(u, n)' => Holds(u, n)
            BY <1>1, <1>2 DEF Holds
        <3> QED BY <2>3, <3>1, QuietHeld
    <2> QED BY <1>1, <2>1, <2>2, <2>3, ReleaseContextIs
<1> QED BY <1>3, <1>4, <1>5

LEMMA CloseHeld ==
    ASSUME Types, NamesHeld, StreamClosed
    PROVE  NamesHeld'
<1> DEFINE c == streamContext
<1>1. c \in Contexts /\ ReleaseContext(c) /\ UNCHANGED <<name, at>>
    BY DEF StreamClosed, Types, threadVars
<1>2. CASE FreeContext(c)
    <2> SUFFICES ASSUME NEW n \in Names
                 PROVE  nameRefs'[n] >= Cardinality(NameHolders(n)) + Cardinality(Naming(n)')
        BY <1>1 DEF NamesHeld, Naming, NameHolders
    <2>1. nameRefs[n] >= Cardinality(NameHolders(n)) + Cardinality(Naming(n)) BY NamesHeldIs
    <2>2. /\ FileNameInformation' = [FileNameInformation EXCEPT ![c] = NoName]
          /\ ReleaseName(FileNameInformation[c])
        BY <1>1, <1>2, FreeContextIs
    <2>3. FileNameInformation[c] \in Names \union {NoName} BY <1>1 DEF Types
    <2>4. nameRefs'[n] = nameRefs[n] - One(FileNameInformation[c] = n)
        BY <2>2, <2>3, ReleaseNameIs DEF One, Types
    <2>5. Cardinality(Naming(n)') = Cardinality(Naming(n)) - One(FileNameInformation[c] = n)
                                        + One(FileNameInformation'[c] = n)
        BY <1>1, <2>2, NamingStep DEF Types
    <2>6. FileNameInformation'[c] # n BY <1>1, <2>2, NamesAre DEF Types
    <2> QED BY <2>1, <2>4, <2>5, <2>6, Finite DEF One, Types
<1>3. CASE UNCHANGED <<FileNameInformation, nameRefs>>
    BY <1>1, <1>3, QuietHeld DEF Holds
<1> QED BY <1>1, <1>2, <1>3, ReleaseContextIs

\* The steps in which names stay with those who hold them, or leak.
NamesStay(t) ==
    \/ CreateIgnored(t) \/ GetContextFails(t) \/ FoundContext(t) \/ TestFound(t)
    \/ AllocateFails(t) \/ Raise(t) \/ QueueItem(t) \/ QueueItemFails(t) \/ AllocateItemFails(t)
    \/ LogStreamContext(t) \/ LogWritten(t) \/ LogFails(t) \/ StaleVolume(t)
    \/ RenameIgnored(t) \/ PreRename(t) \/ Rename(t) \/ RenameFails(t) \/ SwapVolume(t)
    \/ PreDelete(t) \/ CleanupIgnored(t) \/ PreCleanup(t) \/ CompareTimes(t)
    \/ CompareFails(t) \/ Write(t) \/ SetFeatureControls \/ UNCHANGED vars

LEMMA StayHeld ==
    ASSUME Types, NamesHeld, NEW t \in Threads, NamesStay(t)
    PROVE  NamesHeld'
<1> USE DEF NamesStay, CreateIgnored, GetContextFails, FoundContext, TestFound, AllocateFails,
            Raise, QueueItem, QueueItemFails, AllocateItemFails, LogStreamContext, LogWritten,
            LogFails, StaleVolume, RenameIgnored, PreRename, Rename, RenameFails, SwapVolume,
            PreDelete, CleanupIgnored, PreCleanup, CompareTimes, CompareFails, Write,
            SetFeatureControls, vars, contextVars, historyVars, threadVars, HoldContext
<1>1. UNCHANGED <<nameRefs, FileNameInformation>> OBVIOUS
<1>2. \/ name' = name /\ at' = at
      \/ /\ at[t] # "renamed" /\ name' = name
         /\ \E pc \in PCs : at' = [at EXCEPT ![t] = pc]
      \/ name' = [name EXCEPT ![t] = NoName] /\ \E pc \in PCs : at' = [at EXCEPT ![t] = pc]
      \/ /\ \A u \in Threads \ {t} : name'[u] = name[u]
         /\ at' = [at EXCEPT ![t] = "renamed"]
    BY DEF At, Goto, PCs, Types
<1>3. \A u \in Threads, n \in Names : Holds(u, n)' => Holds(u, n)
    BY ONLY <1>2, NamesAre, Types DEF Holds, Types
<1> QED BY <1>1, <1>3, QuietHeld

LEMMA HeldStep ==
    ASSUME Types, Places, NamesHeld, [Next]_vars
    PROVE  NamesHeld'
<1>1. ASSUME NEW t \in Threads,
             Create(t) \/ Capture(t) \/ SetInformation(t) \/ Cleanup(t) \/ Write(t)
      PROVE  NamesHeld'
    BY <1>1, StayHeld, TakeHeld, DropHeld, AllocateHeld, SwapHeld, ReleaseHeld
       DEF NamesStay, Create, Capture, SetInformation, Cleanup
<1>2. CASE SetFeatureControls \/ UNCHANGED vars
    BY <1>2, QuietHeld DEF SetFeatureControls, vars, contextVars, historyVars, threadVars, Holds
<1> QED BY <1>1, <1>2, CloseHeld DEF Next

-----------------------------------------------------------------------------
(* The log.                                                                *)

Logged == Rights

Wins(t, c) == ctx[t] = c /\ at[t] \in {"won", "log"}

LEMMA WinnersStep ==
    ASSUME NEW t \in Threads, NEW c,
           \A u \in Threads \ {t} : ctx'[u] = ctx[u] /\ at'[u] = at[u]
    PROVE  Cardinality(Winners(c)')
               = Cardinality(Winners(c)) - One(Wins(t, c)) + One(Wins(t, c)')
<1>1. \A u : u # t => (u \in Winners(c) <=> u \in Winners(c)') BY DEF Winners
<1>2. (t \in Winners(c) <=> Wins(t, c)) /\ (t \in Winners(c)' <=> Wins(t, c)')
    BY DEF Winners, Wins
<1> HIDE DEF Winners
<1> QED BY <1>1, <1>2, Finite, OneElement DEF One

\* A step of t that moves the rights to log c.  Each context keeps its balance:
\* what is logged, won or there to be won.
LEMMA LogBalance ==
    ASSUME Types, Logged, NEW t \in Threads,
           \A u \in Threads \ {t} : ctx'[u] = ctx[u] /\ at'[u] = at[u],
           \A c \in Contexts :
               /\ logs'[c] \in Int /\ renames'[c] \in Int
               /\ logs'[c] - logs[c] + One(Wins(t, c)') - One(Wins(t, c))
                      + One(LoggedCount'[c] = 0) - One(LoggedCount[c] = 0)
                     <= renames'[c] - renames[c]
    PROVE  Logged'
<1> SUFFICES ASSUME NEW c \in Contexts
             PROVE  logs'[c] + Cardinality(Winners(c)') + One(LoggedCount'[c] = 0)
                        <= 1 + renames'[c]
    BY DEF Logged, Rights, One
<1>1. logs[c] + Cardinality(Winners(c)) + One(LoggedCount[c] = 0) <= 1 + renames[c]
    BY DEF Logged, Rights, One
<1>2. Cardinality(Winners(c)') = Cardinality(Winners(c)) - One(Wins(t, c)) + One(Wins(t, c)')
    BY WinnersStep
<1>3. logs[c] \in Int /\ renames[c] \in Int /\ Cardinality(Winners(c)) \in Int
    BY Finite DEF Types
<1> QED BY <1>1, <1>2, <1>3 DEF One

\* t neither wins nor stops to, and counts and log stay as they are.
LEMMA QuietLogged ==
    ASSUME Logged, UNCHANGED <<LoggedCount, logs, renames>>,
           \A u \in Threads, c \in Contexts : Wins(u, c)' <=> Wins(u, c)
    PROVE  Logged'
<1>1. \A c \in Contexts : Winners(c)' = Winners(c) BY DEF Winners, Wins
<1> QED BY <1>1 DEF Logged, Rights

\* Of the threads that race, the one that finds 0 has the right.
LEMMA RaiseLogged ==
    ASSUME Types, Places, Logged, NEW t \in Threads, Raise(t)
    PROVE  Logged'
<1> DEFINE d == ctx[t]
<1>1. /\ d \in Contexts /\ at[t] = "raise" /\ UNCHANGED <<logs, renames, ctx>>
      /\ LoggedCount' = [LoggedCount EXCEPT ![d] = @ + 1]
      /\ at' = [at EXCEPT ![t] = IF LoggedCount'[d] = 1 THEN "won" ELSE "done"]
    BY DEF Raise, At, Goto, Types, Places, Holding, historyVars, threadVars
<1> HIDE DEF d
<1>2. \A c \in Contexts : LoggedCount[c] \in Nat /\ logs[c] \in Nat /\ renames[c] \in Nat
    BY ConstantsAssumption DEF Types
<1>3. \A c \in Contexts : LoggedCount'[c] = IF c = d THEN LoggedCount[c] + 1 ELSE LoggedCount[c]
    BY <1>1 DEF Types
<1>4. \A c \in Contexts : ~Wins(t, c) BY <1>1 DEF Wins
<1>5. \A c \in Contexts : Wins(t, c)' <=> c = d /\ LoggedCount[d] = 0
    BY <1>1, <1>2, <1>3 DEF Wins, Types, d
<1>6. \A c \in Contexts :
          /\ logs'[c] \in Int /\ renames'[c] \in Int
          /\ logs'[c] - logs[c] + One(Wins(t, c)') - One(Wins(t, c))
                 + One(LoggedCount'[c] = 0) - One(LoggedCount[c] = 0)
                <= renames'[c] - renames[c]
    BY <1>1, <1>2, <1>3, <1>4, <1>5 DEF One
<1>7. \A u \in Threads \ {t} : ctx'[u] = ctx[u] /\ at'[u] = at[u] BY <1>1 DEF Types
<1> QED BY <1>6, <1>7, LogBalance

\* The right is given back with the count, by a winner that cannot log, or made
\* anew by a rename.
LEMMA ResetLogged ==
    ASSUME Types, Places, Logged, NEW t \in Threads,
           QueueItemFails(t) \/ LogFails(t) \/ ResetCount(t)
    PROVE  Logged'
<1> DEFINE d == ctx[t]
<1>1. /\ d \in Contexts /\ UNCHANGED <<logs, ctx>>
      /\ LoggedCount' = [LoggedCount EXCEPT ![d] = 0]
      /\ at' = [at EXCEPT ![t] = "done"]
      /\ \/ at[t] \in {"won", "log"} /\ UNCHANGED renames
         \/ at[t] = "reset" /\ renames' = [renames EXCEPT ![d] = @ + 1]
    BY DEF QueueItemFails, LogFails, ResetCount, At, Goto, Types, Places, Holding, threadVars
<1> HIDE DEF d
<1>2. \A c \in Contexts : LoggedCount[c] \in Nat /\ logs[c] \in Nat /\ renames[c] \in Nat
    BY ConstantsAssumption DEF Types
<1>3. \A c \in Contexts : LoggedCount'[c] = IF c = d THEN 0 ELSE LoggedCount[c]
    BY <1>1 DEF Types
<1>4. \A c \in Contexts : Wins(t, c) <=> c = d /\ at[t] \in {"won", "log"} BY DEF Wins, d
<1>5. \A c \in Contexts : ~Wins(t, c)' BY <1>1 DEF Wins, Types
<1>6. \A c \in Contexts :
          renames'[c] = IF c = d /\ at[t] = "reset" THEN renames[c] + 1 ELSE renames[c]
    BY <1>1 DEF Types
<1>7. \A c \in Contexts :
          /\ logs'[c] \in Int /\ renames'[c] \in Int
          /\ logs'[c] - logs[c] + One(Wins(t, c)') - One(Wins(t, c))
                 + One(LoggedCount'[c] = 0) - One(LoggedCount[c] = 0)
                <= renames'[c] - renames[c]
    BY <1>1, <1>2, <1>3, <1>4, <1>5, <1>6 DEF One
<1>8. \A u \in Threads \ {t} : ctx'[u] = ctx[u] /\ at'[u] = at[u] BY <1>1 DEF Types
<1> QED BY <1>7, <1>8, LogBalance

\* The right is used, or lost with the memory for the work item.
LEMMA UseLogged ==
    ASSUME Types, Places, Logged, NEW t \in Threads, LogWritten(t) \/ AllocateItemFails(t)
    PROVE  Logged'
<1> DEFINE d == ctx[t]
<1>1. /\ d \in Contexts /\ UNCHANGED <<LoggedCount, renames, ctx>> /\ at[t] \in {"won", "log"}
      /\ \E pc \in {"stale", "done"} : at' = [at EXCEPT ![t] = pc]
      /\ logs' = [logs EXCEPT ![d] = @ + 1] \/ UNCHANGED logs
    BY DEF LogWritten, AllocateItemFails, At, Goto, Types, Places, Holding, threadVars
<1> HIDE DEF d
<1>2. \A c \in Contexts : LoggedCount[c] \in Nat /\ logs[c] \in Nat /\ renames[c] \in Nat
    BY ConstantsAssumption DEF Types
<1>3. \A c \in Contexts : logs'[c] = logs[c] \/ (c = d /\ logs'[c] = logs[c] + 1)
    BY <1>1 DEF Types
<1>4. \A c \in Contexts : Wins(t, c) <=> c = d BY <1>1 DEF Wins, d
<1>5. \A c \in Contexts : ~Wins(t, c)' BY <1>1 DEF Wins, Types
<1>6. \A c \in Contexts :
          /\ logs'[c] \in Int /\ renames'[c] \in Int
          /\ logs'[c] - logs[c] + One(Wins(t, c)') - One(Wins(t, c))
                 + One(LoggedCount'[c] = 0) - One(LoggedCount[c] = 0)
                <= renames'[c] - renames[c]
    BY <1>1, <1>2, <1>3, <1>4, <1>5 DEF One
<1>7. \A u \in Threads \ {t} : ctx'[u] = ctx[u] /\ at'[u] = at[u] BY <1>1 DEF Types
<1> QED BY <1>6, <1>7, LogBalance

LEMMA DeleteLogged ==
    ASSUME Types, Places, Logged, NEW t \in Threads, PreDelete(t)
    PROVE  Logged'
<1> DEFINE d == streamContext
<1>1. /\ d \in Contexts /\ UNCHANGED <<logs, renames, ctx, at>>
      /\ LoggedCount' = [LoggedCount EXCEPT ![d] = @ + 1]
    BY DEF PreDelete, Types, threadVars
<1> HIDE DEF d
<1>2. \A c \in Contexts : LoggedCount[c] \in Nat /\ logs[c] \in Nat /\ renames[c] \in Nat
    BY ConstantsAssumption DEF Types
<1>3. \A c \in Contexts : Winners(c)' = Winners(c) /\ Cardinality(Winners(c)) \in Nat
    BY <1>1, Finite DEF Winners
<1>4. \A c \in Contexts : LoggedCount'[c] = IF c = d THEN LoggedCount[c] + 1 ELSE LoggedCount[c]
    BY <1>1 DEF Types
<1> QED BY <1>1, <1>2, <1>3, <1>4 DEF Logged, Rights

\* A context goes with its last user, who has not won it.
LEMMA FreeLogged ==
    ASSUME Types, Logged, NEW c \in Contexts, FreeContext(c), Winners(c) = {},
           \A d \in Contexts : Winners(d)' = Winners(d)
    PROVE  Logged'
<1>1. /\ LoggedCount' = [LoggedCount EXCEPT ![c] = 0]
      /\ logs' = [logs EXCEPT ![c] = 0] /\ renames' = [renames EXCEPT ![c] = 0]
    BY FreeContextIs
<1>2. Rights'
    <2> SUFFICES ASSUME NEW d \in Contexts
                 PROVE  logs'[d] + Cardinality(Winners(d)) + One(LoggedCount'[d] = 0)
                            <= 1 + renames'[d]
        BY DEF Rights, One
    <2>1. CASE d = c
        <3>1. logs'[d] = 0 /\ renames'[d] = 0 BY <1>1, <2>1 DEF Types
        <3>2. Cardinality(Winners(d)) = 0 BY <2>1, FS_EmptySet
        <3> QED BY <3>1, <3>2 DEF One
    <2>2. CASE d # c
        <3>1. /\ logs'[d] = logs[d] /\ renames'[d] = renames[d]
              /\ LoggedCount'[d] = LoggedCount[d]
            BY <1>1, <2>2 DEF Types
        <3> QED BY <3>1 DEF Logged, Rights, One
    <2> QED BY <2>1, <2>2
<1> QED BY <1>2 DEF Logged

LEMMA ReleaseLogged ==
    ASSUME Types, Places, Counted, Logged, NEW t \in Threads, AttachFails(t) \/ Done(t)
    PROVE  Logged'
<1> DEFINE c == ctx[t]
<1>1. /\ c \in Contexts /\ at[t] \in {"attach", "done"} /\ ctx' = [ctx EXCEPT ![t] = NoContext]
      /\ \E pc \in {"fallback", "closed", "open"} : at' = [at EXCEPT ![t] = pc]
    BY DEF AttachFails, Done, At, Goto, Types, Places, Holding
<1>2. \A u \in Threads, d \in Contexts : Wins(u, d)' <=> Wins(u, d)
    BY <1>1, ConstantsAssumption DEF Wins, Types
<1>3. \A d \in Contexts : Winners(d)' = Winners(d) BY <1>2 DEF Winners, Wins
<1>4. ASSUME refs[c] = 1 PROVE Winners(c) = {}
    <2>1. refs[c] = Cardinality(Users(c)) + One(streamContext = c)
        BY <1>1 DEF Counted, ContextRefsExact, One
    <2>2. t \in Users(c) /\ IsFiniteSet(Users(c)) /\ Cardinality(Users(c)) \in Nat
        BY Finite DEF Users
    <2>3. Cardinality(Users(c)) >= 1 BY <2>2, Member
    <2>4. Cardinality(Users(c)) = 1 BY <1>4, <2>1, <2>2, <2>3 DEF One
    <2>5. PICK x : Users(c) = {x} BY <2>2, <2>4, FS_Singleton
    <2> QED BY <1>1, <2>2, <2>5 DEF Users, Winners
<1>5. CASE AttachFails(t)
    <2>1. refs[c] = 1 /\ FreeContext(c)
        BY <1>5 DEF AttachFails, At, Counted, AttachesItsOwn
    <2> QED BY <1>1, <1>3, <1>4, <2>1, FreeLogged
<1>6. CASE Done(t)
    <2>1. ReleaseContext(c) BY <1>6 DEF Done
    <2>2. CASE refs[c] = 1 /\ FreeContext(c) BY <1>1, <1>3, <1>4, <2>2, FreeLogged
    <2>3. CASE UNCHANGED <<LoggedCount, logs, renames>> BY <1>2, <2>3, QuietLogged
    <2> QED BY <1>1, <2>1, <2>2, <2>3, ReleaseContextIs DEF historyVars
<1> QED BY <1>5, <1>6

LEMMA CloseLogged ==
    ASSUME Types, Places, Counted, Logged, StreamClosed
    PROVE  Logged'
<1> DEFINE c == streamContext
<1>1. c \in Contexts /\ ReleaseContext(c) /\ UNCHANGED <<ctx, at>>
    BY DEF StreamClosed, Types, threadVars
<1>2. \A d \in Contexts : Winners(d)' = Winners(d) BY <1>1 DEF Winners
<1>3. CASE refs[c] = 1 /\ FreeContext(c)
    <2>1. refs[c] = Cardinality(Users(c)) + 1
        BY <1>1 DEF Counted, ContextRefsExact
    <2>2. Cardinality(Users(c)) = 0 BY <1>3, <2>1, Finite
    <2>3. Users(c) = {} BY <2>2, Finite, FS_EmptySet
    <2>4. Winners(c) = {} BY <2>3 DEF Users, Winners
    <2> QED BY <1>1, <1>2, <1>3, <2>4, FreeLogged
<1>4. CASE UNCHANGED <<LoggedCount, logs, renames>>
    BY <1>1, <1>4, QuietLogged DEF Wins
<1> QED BY <1>1, <1>3, <1>4, ReleaseContextIs DEF historyVars

\* The steps in which no right to log changes hands.
RightsStay(t) ==
    \/ CreateIgnored(t) \/ PostCreate(t) \/ PostCreateFails(t) \/ GetContextFails(t)
    \/ FoundContext(t) \/ TestFound(t) \/ Allocate(t) \/ AllocateFails(t) \/ Attach(t)
    \/ Fallback(t) \/ QueueItem(t) \/ LogStreamContext(t) \/ StaleVolume(t) \/ StaleName(t)
    \/ RenameIgnored(t) \/ PreRename(t) \/ Rename(t) \/ RenameFails(t) \/ PostRename(t)
    \/ SwapName(t) \/ SwapVolume(t) \/ CleanupIgnored(t) \/ PreCleanup(t)
    \/ CompareTimes(t) \/ CompareFails(t) \/ Write(t) \/ SetFeatureControls \/ UNCHANGED vars

LEMMA StayLogged ==
    ASSUME Types, Places, Logged, NEW t \in Threads, RightsStay(t)
    PROVE  Logged'
<1> USE DEF RightsStay, CreateIgnored, PostCreate, PostCreateFails, GetContextFails,
            FoundContext, TestFound, Allocate, AllocateFails, Attach, Fallback, QueueItem,
            LogStreamContext, StaleVolume, StaleName, RenameIgnored, PreRename, Rename,
            RenameFails, PostRename, SwapName, SwapVolume, CleanupIgnored, PreCleanup,
            CompareTimes, CompareFails, Write, SetFeatureControls, vars, contextVars, historyVars,
            threadVars, HoldContext, LeaveCreate, At, Goto
<1>1. UNCHANGED <<LoggedCount, logs, renames>> OBVIOUS
<1>2. \/ UNCHANGED <<at, ctx>>
      \/ at[t] = "won" /\ at' = [at EXCEPT ![t] = "log"] /\ UNCHANGED ctx
      \/ /\ at[t] \notin {"won", "log"}
         /\ \E pc \in PCs \ {"won", "log"} : at' = [at EXCEPT ![t] = pc]
         /\ \A u \in Threads \ {t} : ctx'[u] = ctx[u]
    BY DEF PCs, Types
<1>3. \A u \in Threads, c \in Contexts : Wins(u, c)' <=> Wins(u, c)
    BY ONLY <1>2, Types DEF Wins, Types
<1> QED BY <1>1, <1>3, QuietLogged

LEMMA LoggedStep ==
    ASSUME Types, Places, Counted, Logged, [Next]_vars
    PROVE  Logged'
<1>1. ASSUME NEW t \in Threads,
             Create(t) \/ Capture(t) \/ SetInformation(t) \/ Cleanup(t) \/ Write(t)
      PROVE  Logged'
    BY <1>1, StayLogged, RaiseLogged, ResetLogged, UseLogged, DeleteLogged, ReleaseLogged
       DEF RightsStay, Create, Capture, SetInformation, Cleanup
<1>2. CASE SetFeatureControls \/ UNCHANGED vars
    BY <1>2, QuietLogged DEF SetFeatureControls, vars, contextVars, historyVars, threadVars, Wins
<1> QED BY <1>1, <1>2, CloseLogged DEF Next

-----------------------------------------------------------------------------
(* Why a count is raised.                                                  *)

\* Whoever answers for a count goes on to, and counts, names and log stay as they are.
LEMMA QuietReasons ==
    ASSUME Reasons, UNCHANGED <<LoggedCount, nameLogged, given, current>>,
           \A c \in Contexts : FileNameInformation'[c] \in {NoName, FileNameInformation[c]},
           \A u \in Threads, c \in Contexts : Answers(u, c) => Answers(u, c)'
    PROVE  Reasons'
<1> QED BY DEF Reasons

\* A step of t in which nothing changes but for context d.
LEMMA ReasonsOf ==
    ASSUME Types, Reasons, NEW t \in Threads, NEW d \in Contexts, ctx[t] = d,
           \A u \in Threads \ {t} :
               ctx'[u] = ctx[u] /\ at'[u] = at[u] /\ logging'[u] = logging[u],
           \A c \in Contexts \ {d} :
               /\ LoggedCount'[c] = LoggedCount[c] /\ nameLogged'[c] = nameLogged[c]
               /\ given'[c] = given[c] /\ current'[c] = current[c]
               /\ FileNameInformation'[c] = FileNameInformation[c],
           FileNameInformation'[d] \in {NoName, current'[d]},
           LoggedCount'[d] > 0 =>
               nameLogged'[d] \/ given'[d] \/ \E u \in Threads : Answers(u, d)'
    PROVE  Reasons'
<1>1. \A c \in Contexts : FileNameInformation'[c] \in {NoName, current'[c]} BY DEF Reasons
<1>2. ASSUME NEW c \in Contexts \ {d}, LoggedCount'[c] > 0
      PROVE  nameLogged'[c] \/ given'[c] \/ \E u \in Threads : Answers(u, c)'
    <2>1. nameLogged[c] \/ given[c] \/ \E u \in Threads : Answers(u, c) BY <1>2 DEF Reasons
    <2>2. \A u \in Threads : Answers(u, c) => Answers(u, c)' BY DEF Answers
    <2> QED BY <2>1, <2>2
<1> QED BY <1>1, <1>2 DEF Reasons

\* The thread that raises a count from 0 answers for it.
LEMMA RaiseReasons ==
    ASSUME Types, Places, Reasons, NEW t \in Threads, Raise(t)
    PROVE  Reasons'
<1> DEFINE d == ctx[t]
<1>1. /\ d \in Contexts /\ at[t] = "raise"
      /\ UNCHANGED <<nameLogged, given, current, FileNameInformation, ctx, logging>>
      /\ LoggedCount' = [LoggedCount EXCEPT ![d] = @ + 1]
      /\ at' = [at EXCEPT ![t] = IF LoggedCount'[d] = 1 THEN "won" ELSE "done"]
    BY DEF Raise, At, Goto, Types, Places, Holding, threadVars, historyVars
<1> HIDE DEF d
<1>2. \A u \in Threads \ {t} : ctx'[u] = ctx[u] /\ at'[u] = at[u] /\ logging'[u] = logging[u]
    BY <1>1 DEF Types
<1>3. LoggedCount[d] \in Nat /\ LoggedCount'[d] = LoggedCount[d] + 1
    BY <1>1, ConstantsAssumption DEF Types
<1>4. \A c \in Contexts \ {d} : LoggedCount'[c] = LoggedCount[c] BY <1>1 DEF Types
<1>5. CASE LoggedCount[d] = 0
    <2>1. Answers(t, d)' BY <1>1, <1>3, <1>5 DEF Answers, Types, d
    <2> QED BY <1>1, <1>2, <1>4, <2>1, ReasonsOf DEF Reasons, d
<1>6. CASE LoggedCount[d] # 0
    <2>1. nameLogged[d] \/ given[d] \/ \E u \in Threads : Answers(u, d)
        BY <1>1, <1>3, <1>6 DEF Reasons
    <2>2. \A u \in Threads : Answers(u, d) => u # t BY <1>1 DEF Answers
    <2>3. \A u \in Threads \ {t} : Answers(u, d) => Answers(u, d)'
        <3>1. current'[d] = current[d] BY <1>1
        <3> QED BY <1>1, <1>2, <3>1 DEF Answers, d
    <2> QED BY <1>1, <1>2, <1>4, <2>1, <2>2, <2>3, ReasonsOf DEF Reasons, d
<1> QED BY <1>5, <1>6

\* Whoever gives up its answer resets the count, or the name is logged, or the work item
\* was lost.
LEMMA AnsweredReasons ==
    ASSUME Types, Places, Reasons, NEW t \in Threads,
           \/ QueueItemFails(t) \/ LogFails(t) \/ ResetCount(t)
           \/ LogWritten(t) \/ AllocateItemFails(t)
    PROVE  Reasons'
<1> USE DEF At, Goto, Types, Places, Holding, threadVars, contextVars, historyVars
<1> DEFINE d == ctx[t]
<1>1. /\ d \in Contexts /\ UNCHANGED <<ctx, FileNameInformation, current>>
      /\ \A u \in Threads \ {t} :
             ctx'[u] = ctx[u] /\ at'[u] = at[u] /\ logging'[u] = logging[u]
      /\ \A c \in Contexts \ {d} :
             /\ LoggedCount'[c] = LoggedCount[c] /\ nameLogged'[c] = nameLogged[c]
             /\ given'[c] = given[c]
    BY DEF QueueItemFails, LogFails, ResetCount, LogWritten, AllocateItemFails
<1>2. FileNameInformation'[d] \in {NoName, current'[d]} BY <1>1 DEF Reasons
<1>3. ASSUME LoggedCount'[d] = 0 PROVE Reasons'
    BY ONLY <1>1, <1>2, <1>3, Types, Reasons, t \in Threads, ReasonsOf DEF Types
<1>4. CASE QueueItemFails(t) \/ LogFails(t) \/ ResetCount(t)
    <2>1. LoggedCount'[d] = 0 BY <1>4 DEF QueueItemFails, LogFails, ResetCount
    <2> QED BY <1>3, <2>1
<1>5. CASE AllocateItemFails(t)
    <2>1. LoggedCount'[d] > 0 => given'[d] BY <1>1, <1>5 DEF AllocateItemFails
    <2> QED BY <1>1, <1>2, <2>1, ReasonsOf
<1>6. CASE LogWritten(t)
    <2>1. /\ nameLogged'[d] <=> nameLogged[d] \/ logging[t] = current[d]
          /\ at[t] = "log" /\ UNCHANGED <<LoggedCount, given, current>>
        BY <1>1, <1>6 DEF LogWritten
    <2>2. ASSUME LoggedCount[d] > 0, ~nameLogged'[d], ~given[d]
          PROVE  \E u \in Threads : Answers(u, d)'
        <3>1. PICK u \in Threads : Answers(u, d) BY <1>1, <2>1, <2>2 DEF Reasons
        <3>2. u # t BY <2>1, <2>2, <3>1 DEF Answers
        <3>3. Answers(u, d)' BY <1>1, <2>1, <3>1, <3>2 DEF Answers
        <3> QED BY <3>3
    <2> QED BY <1>1, <1>2, <2>1, <2>2, ReasonsOf
<1> QED BY <1>4, <1>5, <1>6

\* The winner reads the name that the context was given last; a rename, from its exchange
\* of the names on, will reset the count.
LEMMA NameReasons ==
    ASSUME Types, Places, Reasons, NEW t \in Threads, LogStreamContext(t) \/ SwapName(t)
    PROVE  Reasons'
<1> USE DEF At, Goto, Types, Places, Holding, threadVars, contextVars, historyVars
<1> DEFINE d == ctx[t]
<1>1. /\ d \in Contexts /\ UNCHANGED <<ctx, LoggedCount, given>>
      /\ \A u \in Threads \ {t} :
             ctx'[u] = ctx[u] /\ at'[u] = at[u] /\ logging'[u] = logging[u]
      /\ \A c \in Contexts \ {d} :
             /\ nameLogged'[c] = nameLogged[c] /\ current'[c] = current[c]
             /\ FileNameInformation'[c] = FileNameInformation[c]
    BY DEF LogStreamContext, SwapName
<1>2. ASSUME Answers(t, d)', FileNameInformation'[d] \in {NoName, current'[d]}
      PROVE  Reasons'
    BY <1>1, <1>2, ReasonsOf
<1>3. CASE SwapName(t)
    <2>1. /\ at'[t] = "swapVolume" /\ FileNameInformation'[d] = current'[d]
        BY <1>1, <1>3 DEF SwapName
    <2> QED BY <1>1, <1>2, <2>1 DEF Answers
<1>4. CASE LogStreamContext(t)
    <2>1. UNCHANGED <<FileNameInformation, current>> BY <1>4 DEF LogStreamContext
    <2>2. FileNameInformation[d] \in {NoName, current[d]} BY <1>1 DEF Reasons
    <2>3. \/ at'[t] = "won"
          \/ at'[t] = "log" /\ logging'[t] = current[d]
        BY <1>1, <1>4, <2>2 DEF LogStreamContext
    <2>4. Answers(t, d)' BY <1>1, <2>1, <2>3 DEF Answers
    <2> QED BY <1>2, <2>1, <2>2, <2>4
<1> QED BY <1>3, <1>4

\* A new context has no user, and nobody answers for it.
LEMMA AllocateReasons ==
    ASSUME Types, Places, Counted, Reasons, NEW t \in Threads, Allocate(t)
    PROVE  Reasons'
<1>1. PICK d \in Contexts :
          /\ refs[d] = 0 /\ ctx' = [ctx EXCEPT ![t] = d]
          /\ FileNameInformation' = [FileNameInformation EXCEPT ![d] = name[t]]
          /\ current' = [current EXCEPT ![d] = name[t]]
    BY DEF Allocate
<1>2. /\ UNCHANGED <<LoggedCount, nameLogged, given, logging>> /\ at[t] = "named"
      /\ at' = [at EXCEPT ![t] = "attach"]
    BY DEF Allocate, At, Goto
<1>3. \A u \in Threads : ctx[u] # d
    <2>1. refs[d] = Cardinality(Users(d)) + One(streamContext = d)
        BY DEF Counted, ContextRefsExact, One
    <2>2. Cardinality(Users(d)) = 0 BY <1>1, <2>1, Finite DEF One
    <2>3. Users(d) = {} BY <2>2, Finite, FS_EmptySet
    <2> QED BY <2>3 DEF Users
<1>4. ctx[t] = NoContext BY <1>2 DEF Places, Holding
<1>5. \A u \in Threads, c \in Contexts : Answers(u, c) => Answers(u, c)'
    BY <1>1, <1>2, <1>3, <1>4, ConstantsAssumption DEF Answers, Types
<1>6. \A c \in Contexts : FileNameInformation'[c] \in {NoName, current'[c]}
    BY <1>1 DEF Types, Reasons
<1> QED BY <1>2, <1>5, <1>6 DEF Reasons

LEMMA DeleteReasons ==
    ASSUME Types, Reasons, NEW t \in Threads, PreDelete(t)
    PROVE  Reasons'
<1> DEFINE d == streamContext
<1>1. /\ d \in Contexts
      /\ UNCHANGED <<nameLogged, current, FileNameInformation, ctx, at, logging>>
      /\ LoggedCount' = [LoggedCount EXCEPT ![d] = @ + 1]
      /\ given' = [given EXCEPT ![d] = TRUE]
    BY DEF PreDelete, Types, threadVars
<1> HIDE DEF d
<1>2. \A c \in Contexts : given'[c] \/ (LoggedCount'[c] = LoggedCount[c] /\ given'[c] = given[c])
    BY <1>1 DEF Types
<1>3. \A u \in Threads, c \in Contexts : Answers(u, c)' <=> Answers(u, c)
    BY <1>1 DEF Answers
<1> QED BY <1>1, <1>2, <1>3 DEF Reasons

\* A free context has no count.
LEMMA FreeReasons ==
    ASSUME Types, Reasons, NEW c \in Contexts, FreeContext(c),
           \A u \in Threads, d \in Contexts :
               Answers(u, d) => ctx'[u] = d /\ at'[u] = at[u] /\ logging'[u] = logging[u]
    PROVE  Reasons'
<1>1. /\ LoggedCount' = [LoggedCount EXCEPT ![c] = 0]
      /\ current' = [current EXCEPT ![c] = NoName]
      /\ nameLogged' = [nameLogged EXCEPT ![c] = FALSE]
      /\ given' = [given EXCEPT ![c] = FALSE]
      /\ FileNameInformation' = [FileNameInformation EXCEPT ![c] = NoName]
    BY FreeContextIs
<1>2. LoggedCount'[c] = 0 /\ FileNameInformation'[c] = NoName BY <1>1 DEF Types
<1>3. \A d \in Contexts \ {c} :
          /\ LoggedCount'[d] = LoggedCount[d] /\ nameLogged'[d] = nameLogged[d]
          /\ given'[d] = given[d] /\ current'[d] = current[d]
          /\ FileNameInformation'[d] = FileNameInformation[d]
    BY <1>1 DEF Types
<1>4. \A u \in Threads, d \in Contexts \ {c} : Answers(u, d) => Answers(u, d)'
    BY <1>3 DEF Answers
<1> QED BY <1>2, <1>3, <1>4 DEF Reasons

LEMMA ReleaseReasons ==
    ASSUME Types, Places, Counted, Reasons, NEW t \in Threads,
           AttachFails(t) \/ Done(t) \/ StreamClosed
    PROVE  Reasons'
<1>1. \A u \in Threads, d \in Contexts :
          Answers(u, d) => ctx'[u] = d /\ at'[u] = at[u] /\ logging'[u] = logging[u]
    BY DEF AttachFails, Done, StreamClosed, At, Goto, Types, Answers, threadVars
<1>2. ASSUME NEW c \in Contexts, ReleaseContext(c) PROVE Reasons'
    <2>1. CASE FreeContext(c) BY <1>1, <2>1, FreeReasons
    <2>2. CASE UNCHANGED <<FileNameInformation, historyVars, LoggedCount>>
        <3>1. \A u \in Threads, d \in Contexts : Answers(u, d) => Answers(u, d)'
            BY <1>1, <2>2 DEF Answers, historyVars
        <3> QED BY <2>2, <3>1, QuietReasons DEF historyVars
    <2> QED BY <1>2, <2>1, <2>2, ReleaseContextIs
<1>3. CASE AttachFails(t)
    <2>1. ctx[t] \in Contexts /\ FreeContext(ctx[t])
        BY <1>3 DEF AttachFails, At, Types, Places, Holding
    <2> QED BY <1>1, <2>1, FreeReasons
<1>4. CASE Done(t)
    <2>1. ctx[t] \in Contexts /\ ReleaseContext(ctx[t])
        BY <1>4 DEF Done, At, Types, Places, Holding
    <2> QED BY <1>2, <2>1
<1>5. CASE StreamClosed BY <1>2, <1>5 DEF StreamClosed, Types
<1> QED BY <1>3, <1>4, <1>5

\* The steps that leave counts and their reasons alone.
ReasonsStay(t) ==
    \/ CreateIgnored(t) \/ PostCreate(t) \/ PostCreateFails(t) \/ GetContextFails(t)
    \/ FoundContext(t) \/ TestFound(t) \/ AllocateFails(t) \/ Attach(t) \/ Fallback(t)
    \/ QueueItem(t) \/ StaleVolume(t) \/ StaleName(t) \/ RenameIgnored(t) \/ PreRename(t)
    \/ Rename(t) \/ RenameFails(t) \/ PostRename(t) \/ SwapVolume(t) \/ CleanupIgnored(t)
    \/ PreCleanup(t) \/ CompareTimes(t) \/ CompareFails(t) \/ Write(t)
    \/ SetFeatureControls \/ UNCHANGED vars

LEMMA StayReasons ==
    ASSUME Types, Places, Reasons, NEW t \in Threads, ReasonsStay(t)
    PROVE  Reasons'
<1> USE DEF ReasonsStay, CreateIgnored, PostCreate, PostCreateFails, GetContextFails,
            FoundContext, TestFound, AllocateFails, Attach, Fallback, QueueItem, StaleVolume,
            StaleName, RenameIgnored, PreRename, Rename, RenameFails, PostRename, SwapVolume,
            CleanupIgnored, PreCleanup, CompareTimes, CompareFails, Write,
            SetFeatureControls, vars, contextVars, historyVars, threadVars, HoldContext,
            LeaveCreate, At, Goto
<1>1. UNCHANGED <<LoggedCount, nameLogged, given, current, logging>> OBVIOUS
<1>2. \A c \in Contexts : FileNameInformation'[c] \in {NoName, FileNameInformation[c]}
    BY DEF Types
<1>3. \/ UNCHANGED <<at, ctx>>
      \/ at[t] = "swapVolume" /\ at' = [at EXCEPT ![t] = "reset"] /\ UNCHANGED ctx
      \/ /\ at[t] \notin {"won", "log", "swapVolume", "reset"}
         /\ \E pc \in PCs : at' = [at EXCEPT ![t] = pc]
         /\ \A u \in Threads \ {t} : ctx'[u] = ctx[u]
    BY DEF PCs, Types
<1>4. \A u \in Threads, c \in Contexts : Answers(u, c) => Answers(u, c)'
    BY ONLY <1>1, <1>3, Types DEF Answers, Types
<1> QED BY <1>1, <1>2, <1>4, QuietReasons

LEMMA ReasonsStep ==
    ASSUME Types, Places, Counted, Reasons, [Next]_vars
    PROVE  Reasons'
<1>1. ASSUME NEW t \in Threads,
             Create(t) \/ Capture(t) \/ SetInformation(t) \/ Cleanup(t) \/ Write(t)
      PROVE  Reasons'
    BY <1>1, StayReasons, RaiseReasons, AnsweredReasons, NameReasons, AllocateReasons,
       DeleteReasons, ReleaseReasons
       DEF ReasonsStay, Create, Capture, SetInformation, Cleanup
<1>2. PICK t \in Threads : TRUE BY ConstantsAssumption
<1>3. CASE StreamClosed BY <1>2, <1>3, ReleaseReasons
<1>4. CASE SetFeatureControls \/ UNCHANGED vars BY <1>2, <1>4, StayReasons DEF ReasonsStay
<1> QED BY <1>1, <1>3, <1>4 DEF Next

-----------------------------------------------------------------------------
(* The creates that race to attach a context.                              *)

Races1(t) == at[t] \in {"attach", "fallback"}

LEMMA RacersStep ==
    ASSUME NEW t \in Threads, \A u \in Threads \ {t} : at'[u] = at[u]
    PROVE  /\ Cardinality(Racers) \in Nat /\ Cardinality(Racers') \in Nat
           /\ Cardinality(Racers') = Cardinality(Racers) - One(Races1(t)) + One(Races1(t)')
           /\ Cardinality(Racers) <= Cardinality(Threads) /\ Cardinality(Threads) \in Nat
<1>1. \A u : u # t => (u \in Racers <=> u \in Racers') BY DEF Racers
<1>2. (t \in Racers <=> Races1(t)) /\ (t \in Racers' <=> Races1(t)') BY DEF Racers, Races1
<1>3. Racers \subseteq Threads BY DEF Racers
<1>4. IsFiniteSet(Racers) /\ Cardinality(Racers) <= Cardinality(Threads)
    BY <1>3, NamesAre, FS_Subset
<1>5. Cardinality(Threads) \in Nat BY NamesAre, FS_CardinalityType
<1> HIDE DEF Racers
<1> QED BY <1>1, <1>2, <1>4, <1>5, OneElement DEF One

LEMMA QuietRaces ==
    ASSUME Types, Races, UNCHANGED Racers, streamContext' \in {streamContext, NoContext},
           \A c \in Contexts : direct'[c] \in {0, direct[c]}
    PROVE  Races'
<1>1. Cardinality(Racers) \in Nat /\ Cardinality(Threads) \in Nat /\ Cardinality(Threads) > 0
    <2>1. Racers \subseteq Threads BY DEF Racers
    <2> QED BY <2>1, NamesAre, ConstantsAssumption, FS_Subset, FS_CardinalityType, FS_EmptySet
<1>2. \A c \in Contexts : direct[c] \in Nat BY DEF Types
<1>3. RacersLogOnce' BY <1>1, <1>2 DEF Races, RacersLogOnce
<1>4. streamContext' # NoContext =>
          direct'[streamContext'] + Cardinality(Racers') < Cardinality(Threads)
    BY <1>1, <1>2 DEF Races, Types
<1> QED BY <1>3, <1>4 DEF Races

\* The winner is no racer any more, and nobody becomes one while its context is attached.
LEMMA AttachRaces ==
    ASSUME Types, Places, Races, NEW t \in Threads, Attach(t)
    PROVE  Races'
<1>1. /\ ctx[t] \in Contexts /\ streamContext' = ctx[t] /\ Races1(t) /\ ~Races1(t)'
      /\ \A u \in Threads \ {t} : at'[u] = at[u]
      /\ direct' = [direct EXCEPT ![ctx[t]] = 0]
    BY DEF Attach, At, Goto, LeaveCreate, Types, Places, Holding, Races1
<1>2. Cardinality(Racers') < Cardinality(Threads) /\ Cardinality(Racers') \in Nat
      /\ Cardinality(Threads) \in Nat
    BY <1>1, RacersStep DEF One
<1>3. direct'[ctx[t]] = 0 /\ \A c \in Contexts : direct'[c] \in {0, direct[c]}
    BY <1>1 DEF Types
<1>4. RacersLogOnce' BY <1>2, <1>3 DEF Races, RacersLogOnce
<1> QED BY <1>1, <1>2, <1>3, <1>4 DEF Races

\* A racer logs the file, and is none any more.
LEMMA FallbackRaces ==
    ASSUME Types, Places, Races, NEW t \in Threads, Fallback(t)
    PROVE  Races'
<1>1. /\ Races1(t) /\ ~Races1(t)' /\ \A u \in Threads \ {t} : at'[u] = at[u]
      /\ UNCHANGED streamContext
      /\ \/ UNCHANGED direct
         \/ /\ streamContext # NoContext
            /\ direct' = [direct EXCEPT ![streamContext] = @ + 1]
    BY DEF Fallback, At, Goto, LeaveCreate, Types, Races1
<1>2. /\ Cardinality(Racers') = Cardinality(Racers) - 1 /\ Cardinality(Racers') \in Nat
      /\ Cardinality(Racers) \in Nat /\ Cardinality(Threads) \in Nat
    BY <1>1, RacersStep DEF One
<1>3. \A c \in Contexts : direct[c] \in Nat BY DEF Types
<1>4. RacersLogOnce BY DEF Races
<1>5. CASE UNCHANGED direct
    <2>1. RacersLogOnce' BY <1>4, <1>5 DEF RacersLogOnce
    <2>2. ASSUME streamContext # NoContext
          PROVE  direct[streamContext] + Cardinality(Racers') < Cardinality(Threads)
        <3>1. direct[streamContext] \in Nat BY <1>3, <2>2 DEF Types
        <3>2. direct[streamContext] + Cardinality(Racers) < Cardinality(Threads)
            BY <2>2 DEF Races
        <3> QED BY <1>2, <3>1, <3>2
    <2> QED BY <1>1, <1>5, <2>1, <2>2 DEF Races
<1>6. CASE /\ streamContext # NoContext
           /\ direct' = [direct EXCEPT ![streamContext] = @ + 1]
    <2>1. /\ streamContext \in Contexts
          /\ direct[streamContext] + Cardinality(Racers) < Cardinality(Threads)
        BY <1>6 DEF Races, Types
    <2>2. /\ direct'[streamContext] = direct[streamContext] + 1
          /\ \A c \in Contexts \ {streamContext} : direct'[c] = direct[c]
        BY <1>6, <2>1 DEF Types
    <2>3. direct'[streamContext] + Cardinality(Racers') < Cardinality(Threads)
        BY <1>2, <1>3, <2>1, <2>2
    <2>4. direct'[streamContext] < Cardinality(Threads)
        BY <1>2, <1>3, <2>1, <2>2, <2>3
    <2>5. RacersLogOnce' BY <1>4, <2>2, <2>4 DEF RacersLogOnce
    <2> QED BY <1>1, <2>3, <2>5 DEF Races
<1> QED BY <1>1, <1>5, <1>6

\* Nobody becomes a racer while a context is attached.
LEMMA AllocateRaces ==
    ASSUME Types, Races, NEW t \in Threads, Allocate(t) \/ AllocateFails(t)
    PROVE  Races'
<1>1. streamContext' = NoContext /\ UNCHANGED direct
    BY DEF Allocate, AllocateFails, contextVars, historyVars
<1> QED BY <1>1 DEF Races, RacersLogOnce

LEMMA ReleaseRaces ==
    ASSUME Types, Places, Races, NEW t \in Threads, AttachFails(t) \/ Done(t) \/ StreamClosed
    PROVE  Races'
<1>1. UNCHANGED Racers /\ streamContext' \in {streamContext, NoContext}
    BY DEF Racers, AttachFails, Done, StreamClosed, At, Goto, Types
<1>2. ASSUME NEW c \in Contexts, ReleaseContext(c) \/ FreeContext(c) PROVE Races'
    <2>1. direct' = [direct EXCEPT ![c] = 0] \/ UNCHANGED direct
        BY <1>2, FreeContextIs, ReleaseContextIs DEF historyVars
    <2> QED BY <1>1, <2>1, QuietRaces DEF Types
<1> QED BY <1>2 DEF AttachFails, Done, StreamClosed, At, Types, Places, Holding

\* The steps in which no thread begins or ends to race.
RacesStay(t) ==
    \/ CreateIgnored(t) \/ PostCreate(t) \/ PostCreateFails(t) \/ GetContextFails(t)
    \/ FoundContext(t) \/ TestFound(t) \/ (Capture(t) /\ ~Done(t))
    \/ SetInformation(t) \/ Cleanup(t) \/ Write(t) \/ SetFeatureControls \/ UNCHANGED vars

LEMMA StayRaces ==
    ASSUME Types, Races, NEW t \in Threads, RacesStay(t)
    PROVE  Races'
<1> USE DEF RacesStay, Capture, SetInformation, Cleanup, CreateIgnored, PostCreate,
            PostCreateFails, GetContextFails, FoundContext, TestFound, Raise, QueueItem,
            QueueItemFails, AllocateItemFails, LogStreamContext, LogWritten, LogFails,
            StaleVolume, StaleName, RenameIgnored, PreRename, Rename, RenameFails, PostRename,
            SwapName, SwapVolume, ResetCount, PreDelete, CleanupIgnored, PreCleanup,
            CompareTimes, CompareFails, Write, SetFeatureControls, vars, contextVars,
            historyVars, threadVars, HoldContext, LeaveCreate, At, Goto
<1>1. UNCHANGED <<direct, streamContext>> OBVIOUS
<1>2. \/ UNCHANGED at
      \/ /\ at[t] \notin {"attach", "fallback"}
         /\ \E pc \in PCs \ {"attach", "fallback"} : at' = [at EXCEPT ![t] = pc]
    BY DEF PCs, Types
<1>3. Racers' = Racers BY ONLY <1>2, Types DEF Racers, Types
<1> QED BY <1>1, <1>3, QuietRaces

LEMMA RacesStep ==
    ASSUME Types, Places, Races, [Next]_vars
    PROVE  Races'
<1>1. ASSUME NEW t \in Threads,
             Create(t) \/ Capture(t) \/ SetInformation(t) \/ Cleanup(t) \/ Write(t)
      PROVE  Races'
    BY <1>1, StayRaces, AttachRaces, FallbackRaces, AllocateRaces, ReleaseRaces
       DEF RacesStay, Create
<1>2. PICK t \in Threads : TRUE BY ConstantsAssumption
<1>3. CASE StreamClosed BY <1>2, <1>3, ReleaseRaces
<1>4. CASE SetFeatureControls \/ UNCHANGED vars BY <1>2, <1>4, StayRaces DEF RacesStay
<1> QED BY <1>1, <1>3, <1>4 DEF Next

-----------------------------------------------------------------------------
(* The theorems.                                                           *)

LEMMA InitInv == Init => IInv
<1> SUFFICES ASSUME Init PROVE IInv OBVIOUS
<1> USE ConstantsAssumption DEF Init
<1>1. Types BY DEF Types, Names, PCs
<1>2. Places BY DEF Places, Holding, Named
<1>3. AttachesItsOwn BY DEF AttachesItsOwn
<1>4. \A c \in Contexts : Users(c) = {} /\ Winners(c) = {} BY DEF Users, Winners
<1>5. \A n \in Names : NameHolders(n) = {} /\ Naming(n) = {}
    BY NamesAre DEF NameHolders, Naming
<1>6. ContextRefsExact
    <2>1. \A c \in Contexts : /\ Cardinality(Users(c)) = 0 /\ refs[c] = 0
                             /\ streamContext # c
        BY <1>4, FS_EmptySet
    <2> QED BY <2>1 DEF ContextRefsExact
<1>7. NamesHeld
    <2>1. \A n \in Names : /\ Cardinality(NameHolders(n)) = 0 /\ Cardinality(Naming(n)) = 0
                          /\ nameRefs[n] = 0
        BY <1>5, FS_EmptySet
    <2> QED BY <2>1, NamesHeldIs
<1>8. Rights
    <2>1. \A c \in Contexts : /\ Cardinality(Winners(c)) = 0 /\ logs[c] = 0
                             /\ renames[c] = 0 /\ LoggedCount[c] = 0
        BY <1>4, FS_EmptySet
    <2> QED BY <2>1 DEF Rights
<1>9. Reasons BY DEF Reasons
<1>10. Races
    <2>1. Cardinality(Threads) \in Nat /\ Cardinality(Threads) # 0
        BY FS_CardinalityType, FS_EmptySet
    <2> QED BY <2>1 DEF Races, RacersLogOnce
<1> QED BY <1>1, <1>2, <1>3, <1>6, <1>7, <1>8, <1>9, <1>10 DEF IInv

LEMMA TypesStep == ASSUME Types, Places, [Next]_vars PROVE Types' /\ Places'
<1>1. CASE \E t \in Threads :
               Create(t) \/ Capture(t) \/ SetInformation(t) \/ Cleanup(t) \/ Write(t)
    BY <1>1, CreateTypes, CaptureTypes, SetInformationTypes, CleanupTypes, OtherTypes
<1>2. CASE SetFeatureControls \/ UNCHANGED vars
    BY <1>2 DEF SetFeatureControls, vars, Types, Places, contextVars, historyVars, threadVars, fileVars
<1> QED BY <1>1, <1>2, StreamClosedTypes DEF Next

LEMMA Invariance == Spec => []IInv
<1>1. ASSUME IInv, [Next]_vars PROVE IInv'
    <2>1. Types' /\ Places' BY <1>1, TypesStep DEF IInv
    <2>2. Counted' BY <1>1, CountedStep DEF IInv, Counted
    <2>3. NamesHeld' BY <1>1, HeldStep DEF IInv
    <2>4. Logged' BY <1>1, LoggedStep DEF IInv, Counted, Logged
    <2>5. Reasons' BY <1>1, ReasonsStep DEF IInv, Counted
    <2>6. Races' BY <1>1, RacesStep DEF IInv
    <2> QED BY <2>1, <2>2, <2>3, <2>4, <2>5, <2>6 DEF IInv, Counted, Logged
<1> QED BY <1>1, InitInv, PTL DEF Spec

\* Every reference of FragFlt.c is accounted for: a context has one for each of
\* its users and one for being attached, and a name has one for each that holds it.
THEOREM ReferencesCounted == Spec => []ReferencesExact
<1>1. IInv => ReferencesExact BY DEF IInv, ReferencesExact
<1> QED BY <1>1, Invariance, PTL

\* What is logged of a file: by the captures of its context at most one record and one
\* for each rename that reset the count; by the creates that raced to attach theirs less
\* than one for each thread; and a count stays raised when nobody is at work on the context
\* only if its last name was logged, or for a reason that is named (LoggedCount in
\* FKxFltPostCreate, FKxFltPreCleanup, KFxFltLogStreamContext, FKxFltPostSetInformation).
THEOREM CapturesAreLogged == Spec => []CapturesLogged
<1>1. ASSUME IInv PROVE LoggedOncePerReset
    <2> SUFFICES ASSUME NEW c \in Contexts PROVE logs[c] <= 1 + renames[c]
        BY DEF LoggedOncePerReset
    <2>1. logs[c] + Cardinality(Winners(c)) + One(LoggedCount[c] = 0) <= 1 + renames[c]
        BY <1>1 DEF IInv, Rights, One
    <2>2. logs[c] \in Nat /\ renames[c] \in Nat BY <1>1 DEF IInv, Types
    <2> QED BY <2>1, <2>2, Finite DEF One
<1>2. ASSUME IInv PROVE LoggedMeansLogged
    BY <1>2 DEF IInv, Reasons, Answers, Users, LoggedMeansLogged
<1>3. IInv => CapturesLogged BY <1>1, <1>2 DEF CapturesLogged, IInv, Races
<1> QED BY <1>3, Invariance, PTL

LEMMA SwitchesStep == ASSUME Switches, [Next]_vars PROVE Switches'
<1> USE DEF Switches
<1>1. ASSUME NEW t \in Threads,
             Create(t) \/ Capture(t) \/ SetInformation(t) \/ Cleanup(t) \/ Write(t)
      PROVE  captureRead' = captureRead /\ (bugcheck' = bugcheck \/ bugcheck' = TRUE)
    BY <1>1 DEF Create, Capture, SetInformation, Cleanup, CreateIgnored, PostCreate,
           PostCreateFails, GetContextFails, FoundContext, TestFound, Allocate, AllocateFails,
           Attach, AttachFails, Fallback, Raise, QueueItem, QueueItemFails, AllocateItemFails,
           LogStreamContext, LogWritten, LogFails, StaleVolume, StaleName, Done, RenameIgnored,
           PreRename, Rename, RenameFails, PostRename, SwapName, SwapVolume, ResetCount,
           PreDelete, CleanupIgnored, PreCleanup, CompareTimes, CompareFails, Write
<1>2. CASE \E t \in Threads :
               Create(t) \/ Capture(t) \/ SetInformation(t) \/ Cleanup(t) \/ Write(t)
    BY <1>1, <1>2
<1>3. CASE StreamClosed BY <1>3 DEF StreamClosed
<1>4. CASE SetFeatureControls BY <1>4 DEF SetFeatureControls
<1>5. CASE UNCHANGED vars BY <1>5 DEF vars
<1> QED BY <1>2, <1>3, <1>4, <1>5 DEF Next

\* Every variable has its type; no count of references in FragFlt.c falls below 0.
THEOREM TypeCorrect == Spec => []TypeOK
<1>1. Init => Switches BY DEF Init, Switches
<1>2. Switches /\ [Next]_vars => Switches' BY SwitchesStep
<1>3. ASSUME IInv, Switches PROVE TypeOK
    <2>1. \A c \in Contexts : refs[c] \in Nat
        BY <1>3, Finite DEF IInv, ContextRefsExact
    <2>2. \A n \in Names : nameRefs[n] \in Nat
        <3> SUFFICES ASSUME NEW n \in Names PROVE nameRefs[n] \in Nat OBVIOUS
        <3>1. nameRefs[n] >= Cardinality(NameHolders(n)) + Cardinality(Naming(n))
            BY <1>3, NamesHeldIs DEF IInv
        <3>2. nameRefs[n] \in Int BY <1>3 DEF IInv, Types
        <3> QED BY <3>1, <3>2, Finite
    <2>3. refs \in [Contexts -> Nat] /\ nameRefs \in [Names -> Nat]
        BY <1>3, <2>1, <2>2 DEF IInv, Types
    <2>4. Types BY <1>3 DEF IInv
    <2> HIDE DEF Types
    <2>5. captureRead \in BOOLEAN /\ bugcheck \in BOOLEAN BY <1>3 DEF Switches
    <2> QED BY ONLY <2>3, <2>4, <2>5 DEF Types, TypeOK
<1> QED BY <1>1, <1>2, <1>3, Invariance, PTL DEF Spec
=============================================================================
