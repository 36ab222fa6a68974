--------------------------- MODULE DirEnumProofs ---------------------------
(***************************************************************************)
(* Proof for any tree, any number of workers and any failures that no      *)
(* worker outlives an enumeration, that one nothing stopped passes every   *)
(* item of the tree, and that without threads the directories come in the  *)
(* order of the tree.                                                      *)
(*                                                                         *)
(* The first counts the workers.  The second divides the items of the tree *)
(* among the directories that wait, the threads that read, and what has    *)
(* been passed or lost.  The third orders the directories that wait.       *)
(***************************************************************************)
EXTENDS DirEnum, SequencesExt, FiniteSetTheorems, TLAPS

Labels == {None, "next", "end", "fail", "query", "call", "calling", "open", "entry", "required",
           "create", "start", "undo", "release", "unlock", "wait", "cleanup", "returned"}

\* The workers that run, and the threads that have counted one more.
Active == {w \in Workers : pc[w] \notin {None, "unlock"}}
Starting == {t \in Threads : pc[t] \in {"start", "undo"}}

PlacesInv ==
    /\ pc \in [Threads -> Labels] /\ threaded \in BOOLEAN /\ WorkerExit \in BOOLEAN
    /\ pc[Main] \notin {None, "release", "unlock"}
    /\ \A w \in Workers : pc[w] \notin {"wait", "cleanup", "returned"}
    /\ ~threaded => /\ \A w \in Workers : pc[w] = None
                    /\ pc[Main] \notin {"required", "create", "start", "undo"}

CountInv == WorkerCount \in Nat /\ WorkerCount = Cardinality(Active) + Cardinality(Starting)

ExitInv ==
    /\ WorkerExit => WorkerCount = 0
    /\ pc[Main] \in {"cleanup", "returned"} => WorkerCount = 0

IInv == PlacesInv /\ CountInv /\ ExitInv

-----------------------------------------------------------------------------
(* The workers.                                                            *)

LEMMA ThreadsFinite ==
    /\ IsFiniteSet(Threads) /\ IsFiniteSet(Workers) /\ Main \in Threads /\ Main \notin Workers
    /\ IsFiniteSet(Active) /\ Cardinality(Active) \in Nat
    /\ IsFiniteSet(Starting) /\ Cardinality(Starting) \in Nat
<1>1. IsFiniteSet(Threads) /\ IsFiniteSet(Workers) /\ Main \in Threads /\ Main \notin Workers
    BY LimitsAssumption, TreeAssumption, FS_AddElement DEF Threads
<1>2. Active \subseteq Workers /\ Starting \subseteq Threads
    BY DEF Active, Starting
<1>3. IsFiniteSet(Active) /\ IsFiniteSet(Starting)
    BY <1>1, <1>2, FS_Subset
<1>4. QED
    BY <1>1, <1>3, FS_CardinalityType

\* With a count of 0 nobody works and nobody starts a worker.
LEMMA NobodyLeft == CountInv /\ WorkerCount = 0 => Active = {} /\ Starting = {}
BY ThreadsFinite, FS_EmptySet DEF CountInv

LEMMA Initially == Init => IInv
<1> SUFFICES ASSUME Init PROVE IInv
    OBVIOUS
<1>1. Active = {} /\ Starting = {}
    BY TreeAssumption DEF Init, Active, Starting, Threads, None
<1>2. CountInv
    BY <1>1, FS_EmptySet DEF Init, CountInv
<1>3. PlacesInv /\ ExitInv
    BY TreeAssumption DEF Init, PlacesInv, ExitInv, Threads, Labels, None
<1>4. QED
    BY <1>2, <1>3 DEF IInv

\* A step of thread t to label l that neither ends nor starts a worker.
LEMMA Moves ==
    ASSUME IInv, NEW t \in Threads, NEW l \in Labels,
           pc' = [pc EXCEPT ![t] = l],
           pc[t] \notin {None, "unlock", "start", "undo", "returned"},
           l \notin {None, "unlock", "start", "undo"},
           l \in {"wait", "cleanup", "returned"} => t = Main,
           l = "release" => t # Main,
           l \in {"required", "create"} => threaded,
           UNCHANGED <<threaded, WorkerCount>>,
           WorkerExit' \in BOOLEAN, WorkerExit' => WorkerExit,
           l = "cleanup" => WorkerCount = 0,
           l = "returned" => pc[t] = "cleanup",
           pc[t] = "cleanup" => l = "returned"
    PROVE  IInv'
<1>1. Active' = Active /\ Starting' = Starting
    BY DEF Active, Starting, IInv, PlacesInv
<1>2. CountInv'
    BY <1>1 DEF IInv, CountInv
<1>3. PlacesInv'
    BY ThreadsFinite DEF IInv, PlacesInv, Threads
<1>4. ExitInv'
    BY ThreadsFinite DEF IInv, ExitInv, PlacesInv
<1>5. QED
    BY <1>2, <1>3, <1>4 DEF IInv

\* The steps of the loop that neither end nor start a worker.
LEMMA LoopSteps ==
    ASSUME IInv, NEW t \in Threads,
           \/ NextDirectory(t) \/ EndDirectory(t) \/ QueryDirectory(t) \/ BeginCall(t)
           \/ CallReturns(t) \/ OpenDirectory(t) \/ Entry(t) \/ EntryFails(t)
           \/ NoMoreEntries(t) \/ WorkerRequired(t)
    PROVE  IInv'
<1> USE DEF workerVars, options
<1>1. PICK l : /\ pc' = [pc EXCEPT ![t] = l]
               /\ l \in {"next", "end", "fail", "query", "call", "calling", "open", "entry",
                         "required", "create", "wait", "release"}
               /\ l = "wait" => t = Main
               /\ l = "release" => t # Main
               /\ l \in {"required", "create"} => threaded \/ pc[t] = "required"
    <2>1. CASE NextDirectory(t)
        BY <2>1 DEF NextDirectory, Leave, Goto
    <2>2. CASE EndDirectory(t)
        BY <2>2 DEF EndDirectory, Leave, Goto
    <2>3. CASE QueryDirectory(t)
        BY <2>3 DEF QueryDirectory, Denied, Fails, Goto
    <2>4. CASE BeginCall(t)
        BY <2>4 DEF BeginCall, Goto
    <2>5. CASE CallReturns(t)
        BY <2>5 DEF CallReturns, AfterCall, ToEntry, Goto
    <2>6. CASE OpenDirectory(t)
        BY <2>6 DEF OpenDirectory, Denied, Fails, ToEntry, Goto
    <2>7. CASE Entry(t)
        BY <2>7 DEF Entry, ToEntry, Goto
    <2>8. CASE EntryFails(t)
        BY <2>8 DEF EntryFails, Denied, Fails, Goto
    <2>9. CASE NoMoreEntries(t)
        <3>1. pc' = [pc EXCEPT ![t] = "end"]
            BY <2>9, Zenon DEF NoMoreEntries, Goto
        <3>2. pc[t] = "entry"
            BY <2>9, Zenon DEF NoMoreEntries
        <3>3. QED
            <4>1. WITNESS "end"
            <4>2. QED
                BY <3>1
    <2>10. CASE WorkerRequired(t)
        BY <2>10 DEF WorkerRequired, ToEntry, Goto
    <2>11. QED
        BY <2>1, <2>2, <2>3, <2>4, <2>5, <2>6, <2>7, <2>8, <2>9, <2>10
<1>2. /\ pc[t] \in {"next", "end", "fail", "query", "call", "calling", "open", "entry", "required"}
      /\ UNCHANGED <<threaded, WorkerCount, WorkerExit>>
    BY DEF NextDirectory, EndDirectory, QueryDirectory, BeginCall, CallReturns, OpenDirectory,
           Entry, EntryFails, NoMoreEntries, WorkerRequired
<1>3. pc[t] = "required" => threaded
    BY ThreadsFinite DEF IInv, PlacesInv, Threads, None
<1>4. l \in Labels /\ WorkerExit \in BOOLEAN
    BY <1>1 DEF Labels, IInv, PlacesInv
<1>5. QED
    BY <1>1, <1>2, <1>3, <1>4, Moves DEF None

LEMMA CreateSteps ==
    ASSUME IInv, NEW t \in Threads, CreateWorker(t)
    PROVE  IInv'
<1>1. CASE WorkerCount < FPI_WORKERTHREADMAX
    <2>1. /\ pc[t] = "create" /\ pc' = [pc EXCEPT ![t] = "start"] /\ UNCHANGED threaded
          /\ WorkerCount' = WorkerCount + 1
          /\ WorkerExit' = (WorkerExit /\ WorkerCount' # 1)
        BY <1>1 DEF CreateWorker, Goto, options
    <2>2. Active' = Active /\ Starting' = Starting \union {t} /\ t \notin Starting
        BY <2>1 DEF Active, Starting, IInv, PlacesInv, None
    <2>3. Cardinality(Starting') = Cardinality(Starting) + 1
        BY <2>2, ThreadsFinite, FS_AddElement
    <2>4. CountInv'
        BY <2>1, <2>2, <2>3, ThreadsFinite DEF IInv, CountInv
    <2>5. PlacesInv'
        BY <2>1, ThreadsFinite DEF IInv, PlacesInv, Labels, Threads, None
    <2>6. ExitInv'
        <3>1. WorkerExit' = FALSE
            <4>1. WorkerExit => WorkerCount' = 1
                BY <2>1 DEF IInv, ExitInv
            <4>2. QED
                BY <2>1, <4>1 DEF IInv, PlacesInv
        <3>2. pc[Main] \notin {"cleanup", "returned"}
            BY <2>2, ThreadsFinite, <2>1, NobodyLeft DEF IInv, ExitInv, PlacesInv, Active, None, Threads
        <3>3. QED
            BY <3>1, <3>2, <2>1, ThreadsFinite DEF ExitInv, IInv, PlacesInv
    <2>7. QED
        BY <2>4, <2>5, <2>6 DEF IInv
<1>2. CASE ~(WorkerCount < FPI_WORKERTHREADMAX)
    <2>1. /\ pc[t] = "create" /\ pc' = [pc EXCEPT ![t] = "entry"]
          /\ UNCHANGED <<threaded, WorkerCount, WorkerExit>>
        BY <1>2 DEF CreateWorker, ToEntry, Goto, options
    <2>2. WorkerExit \in BOOLEAN
        BY DEF IInv, PlacesInv
    <2>3. QED
        BY <2>1, <2>2, Moves DEF Labels, None
<1>3. QED
    BY <1>1, <1>2

LEMMA StartSteps ==
    ASSUME IInv, NEW t \in Threads, StartWorker(t)
    PROVE  IInv'
<1>1. UNCHANGED <<threaded, WorkerCount, WorkerExit>> /\ pc[t] = "start"
    BY DEF StartWorker, options, workerVars
<1>2. CASE pc' = [pc EXCEPT ![t] = "undo"]
    <2>1. Active' = Active /\ Starting' = Starting
        BY <1>1, <1>2 DEF Active, Starting, IInv, PlacesInv, None
    <2>2. QED
        BY <1>1, <1>2, <2>1, ThreadsFinite
        DEF IInv, PlacesInv, CountInv, ExitInv, Labels, Threads, None
<1>3. ASSUME NEW w \in Workers, pc[w] = None, pc' = [pc EXCEPT ![w] = "next", ![t] = "entry"]
      PROVE  IInv'
    <2>1. /\ Active' = Active \union {w} /\ w \notin Active
          /\ Starting' = Starting \ {t} /\ t \in Starting
        BY <1>1, <1>3 DEF Active, Starting, IInv, PlacesInv, None, Threads
    <2>2. CountInv'
        <3>1. Cardinality(Active') = Cardinality(Active) + 1
            BY <2>1, ThreadsFinite, FS_AddElement
        <3>2. Cardinality(Starting') = Cardinality(Starting) - 1
            BY <2>1, ThreadsFinite, FS_RemoveElement
        <3>3. QED
            BY <1>1, <3>1, <3>2, ThreadsFinite DEF IInv, CountInv
    <2>3. PlacesInv'
        BY <1>1, <1>3, ThreadsFinite DEF IInv, PlacesInv, Labels, Threads, None
    <2>4. ExitInv'
        BY <1>1, <1>3, ThreadsFinite DEF IInv, ExitInv, PlacesInv, None
    <2>5. QED
        BY <2>2, <2>3, <2>4 DEF IInv
<1>4. QED
    BY <1>2, <1>3 DEF StartWorker, Goto

LEMMA DropSteps ==
    ASSUME IInv, NEW t \in Threads,
           UndoWorker(t) \/ (t \in Workers /\ ReleaseWorker(t))
    PROVE  IInv'
<1>1. /\ UNCHANGED threaded /\ WorkerCount' = WorkerCount - 1
      /\ WorkerExit' = (WorkerExit \/ WorkerCount' = 0)
    BY DEF UndoWorker, ReleaseWorker, DropWorkerCount, options
<1>2. CountInv' /\ PlacesInv' /\ WorkerCount > 0
    <2>1. CASE UndoWorker(t)
        <3>1. pc[t] = "undo" /\ pc' = [pc EXCEPT ![t] = "entry"]
            BY <2>1 DEF UndoWorker, ToEntry, Goto
        <3>2. Active' = Active /\ Starting' = Starting \ {t} /\ t \in Starting
            BY <3>1 DEF Active, Starting, IInv, PlacesInv, None
        <3>3. Cardinality(Starting') = Cardinality(Starting) - 1 /\ Cardinality(Starting) > 0
            <4>1. Starting # {}
                BY <3>2
            <4>2. Cardinality(Starting) # 0
                BY <4>1, ThreadsFinite, FS_EmptySet
            <4>3. Cardinality(Starting) > 0
                BY <4>2, ThreadsFinite
            <4>4. Cardinality(Starting \ {t}) = Cardinality(Starting) - 1
                BY <3>2, ThreadsFinite, FS_RemoveElement
            <4>5. QED
                BY <3>2, <4>3, <4>4
        <3>4. CountInv' /\ WorkerCount > 0
            BY <1>1, <3>2, <3>3, ThreadsFinite DEF IInv, CountInv
        <3>5. PlacesInv'
            BY <1>1, <3>1, ThreadsFinite DEF IInv, PlacesInv, Labels, Threads, None
        <3>6. QED
            BY <3>4, <3>5
    <2>2. CASE t \in Workers /\ ReleaseWorker(t)
        <3>1. pc[t] = "release" /\ pc' = [pc EXCEPT ![t] = "unlock"]
            BY <2>2 DEF ReleaseWorker, Goto
        <3>2. Active' = Active \ {t} /\ t \in Active /\ Starting' = Starting
            BY <2>2, <3>1 DEF Active, Starting, IInv, PlacesInv, None
        <3>3. Cardinality(Active') = Cardinality(Active) - 1 /\ Cardinality(Active) > 0
            <4>1. Active # {}
                BY <3>2
            <4>2. Cardinality(Active) # 0
                BY <4>1, ThreadsFinite, FS_EmptySet
            <4>3. Cardinality(Active) > 0
                BY <4>2, ThreadsFinite
            <4>4. Cardinality(Active \ {t}) = Cardinality(Active) - 1
                BY <3>2, ThreadsFinite, FS_RemoveElement
            <4>5. QED
                BY <3>2, <4>3, <4>4
        <3>4. CountInv' /\ WorkerCount > 0
            BY <1>1, <3>2, <3>3, ThreadsFinite DEF IInv, CountInv
        <3>5. PlacesInv'
            BY <1>1, <2>2, <3>1, ThreadsFinite DEF IInv, PlacesInv, Labels, Threads, None
        <3>6. QED
            BY <3>4, <3>5
    <2>3. QED
        BY <2>1, <2>2
<1>3. ExitInv'
    <2>1. pc[Main] \notin {"cleanup", "returned"} /\ pc'[Main] \notin {"cleanup", "returned"}
        BY <1>2, ThreadsFinite
        DEF IInv, ExitInv, CountInv, PlacesInv, UndoWorker, ReleaseWorker, ToEntry, Goto
    <2>2. ~WorkerExit
        BY <1>2 DEF IInv, ExitInv
    <2>3. QED
        BY <1>1, <2>1, <2>2 DEF ExitInv
<1>4. QED
    BY <1>2, <1>3 DEF IInv

LEMMA UnlockSteps ==
    ASSUME IInv, NEW w \in Workers, UnlockWorker(w)
    PROVE  IInv'
<1>1. /\ UNCHANGED <<threaded, WorkerCount, WorkerExit>>
      /\ pc[w] = "unlock" /\ pc' = [pc EXCEPT ![w] = None]
    BY DEF UnlockWorker, Goto, options
<1>2. Active' = Active /\ Starting' = Starting
    BY <1>1 DEF Active, Starting, IInv, PlacesInv, None
<1>3. QED
    BY <1>1, <1>2, ThreadsFinite DEF IInv, PlacesInv, CountInv, ExitInv, Labels, Threads, None

\* The calling thread waits and cleans up.
LEMMA MainSteps ==
    ASSUME IInv, WaitForWorkers \/ Cleanup
    PROVE  IInv'
<1>1. CASE WaitForWorkers
    <2>1. pc[Main] = "wait" /\ UNCHANGED <<threaded, WorkerCount>>
        BY <1>1 DEF WaitForWorkers, options
    <2>2. ~threaded => WorkerCount = 0
        <3>1. ASSUME ~threaded PROVE Active = {} /\ Starting = {}
            BY <2>1, <3>1 DEF Active, Starting, IInv, PlacesInv, Threads, None
        <3>2. QED
            <4>1. Cardinality({}) = 0
                BY FS_EmptySet
            <4>2. QED
                BY <3>1, <4>1 DEF IInv, CountInv
    <2>3. \/ pc' = [pc EXCEPT ![Main] = "cleanup"] /\ WorkerCount = 0
          \/ pc' = [pc EXCEPT ![Main] = "next"]
        BY <1>1, <2>2 DEF WaitForWorkers, Goto, IInv, ExitInv
    <2>4. WorkerExit' \in BOOLEAN /\ (WorkerExit' => WorkerExit)
        <3>1. WorkerExit' = FALSE \/ WorkerExit' = WorkerExit
            BY <1>1 DEF WaitForWorkers
        <3>2. WorkerExit \in BOOLEAN
            BY DEF IInv, PlacesInv
        <3>3. CASE WorkerExit' = FALSE
            BY <3>3, Zenon
        <3>4. CASE WorkerExit' = WorkerExit
            BY <3>2, <3>4, Zenon
        <3>5. QED
            BY <3>1, <3>3, <3>4
    <2>5. QED
        BY <2>1, <2>3, <2>4, ThreadsFinite, Moves DEF Labels, None
<1>2. CASE Cleanup
    <2>1. /\ pc[Main] = "cleanup" /\ UNCHANGED <<threaded, WorkerCount, WorkerExit>>
          /\ pc' = [pc EXCEPT ![Main] = "returned"] /\ WorkerExit \in BOOLEAN
        BY <1>2 DEF Cleanup, Goto, options, workerVars, IInv, PlacesInv
    <2>2. QED
        BY <2>1, ThreadsFinite, Moves DEF Labels, None
<1>3. QED
    BY <1>1, <1>2

LEMMA Inductive == IInv /\ [Next]_vars => IInv'
<1> SUFFICES ASSUME IInv, [Next]_vars PROVE IInv'
    OBVIOUS
<1>1. CASE UNCHANGED vars
    BY <1>1 DEF vars, options, workerVars, IInv, PlacesInv, CountInv, ExitInv, Active, Starting
<1>2. ASSUME NEW t \in Threads, Step(t) PROVE IInv'
    BY <1>2, LoopSteps, CreateSteps, StartSteps, DropSteps DEF Step
<1>3. ASSUME NEW w \in Workers, WorkerStep(w) PROVE IInv'
    BY <1>2, <1>3, DropSteps, UnlockSteps DEF WorkerStep, Threads
<1>4. CASE MainStep
    BY <1>2, <1>4, MainSteps DEF MainStep, Threads
<1>5. QED
    BY <1>1, <1>3, <1>4 DEF Next

\* When FpEnumDirectoryInformation cleans up and returns, no worker is in the
\* caller's callback or comes back to the queue: CreateEnumDirectoryWorker and
\* ReleaseEnumDirectoryWorker count right whatever fails.
THEOREM WorkersGoneCorrect == Spec => []WorkersGone
<1>1. IInv => WorkersGone
    BY NobodyLeft DEF IInv, ExitInv, WorkersGone, Active
<1>2. QED
    BY <1>1, Initially, Inductive, PTL DEF Spec

-----------------------------------------------------------------------------
(* Sequences without repetition.                                           *)

\* A record put at the end of a queue that does not hold it.
LEMMA Appended ==
    ASSUME NEW S, NEW s \in Seq(S), NEW r \in S
    PROVE  /\ Append(s, r) \in Seq(S)
           /\ ToSet(Append(s, r)) = ToSet(s) \union {r}
           /\ IsInjective(s) /\ r \notin ToSet(s) => IsInjective(Append(s, r))
<1> DEFINE t == Append(s, r)
<1>1. /\ t \in Seq(S) /\ DOMAIN t = 1..Len(s) + 1 /\ DOMAIN s = 1..Len(s) /\ Len(s) \in Nat
      /\ \A i \in 1..Len(s) : t[i] = s[i]
      /\ t[Len(s) + 1] = r
    OBVIOUS
<1> HIDE DEF t
<1>2. ToSet(t) = ToSet(s) \union {r} BY <1>1 DEF ToSet
<1>3. IsInjective(s) /\ r \notin ToSet(s) => IsInjective(t)
    BY <1>1 DEF ToSet, IsInjective
<1> QED BY <1>1, <1>2, <1>3 DEF t

\* The record at the head of a queue taken off it.
LEMMA TakenOff ==
    ASSUME NEW S, NEW s \in Seq(S), s # <<>>
    PROVE  /\ Head(s) \in S /\ Tail(s) \in Seq(S)
           /\ ToSet(s) = ToSet(Tail(s)) \union {Head(s)}
           /\ IsInjective(s) => IsInjective(Tail(s)) /\ Head(s) \notin ToSet(Tail(s))
<1> DEFINE t == Tail(s)  h == Head(s)
<1>1. /\ h \in S /\ t \in Seq(S) /\ DOMAIN s = 1..Len(s) /\ DOMAIN t = 1..Len(s) - 1
      /\ Len(s) \in Nat \ {0} /\ h = s[1]
      /\ \A i \in 1..Len(s) - 1 : t[i] = s[i + 1]
    OBVIOUS
<1> HIDE DEF t, h
<1>2. ToSet(t) \union {h} \subseteq ToSet(s) BY <1>1 DEF ToSet
<1>3. ASSUME NEW x \in ToSet(s) PROVE x \in ToSet(t) \union {h}
    <2>1. PICK i \in 1..Len(s) : x = s[i] BY <1>1 DEF ToSet
    <2>2. CASE i = 1 BY <2>1, <2>2, <1>1
    <2>3. CASE i # 1
        <3>1. i - 1 \in 1..Len(s) - 1 /\ t[i - 1] = x BY <2>1, <2>3, <1>1
        <3> QED BY <3>1, <1>1 DEF ToSet
    <2> QED BY <2>2, <2>3
<1>4. \A i \in DOMAIN t : i + 1 \in DOMAIN s /\ t[i] = s[i + 1] /\ i + 1 # 1
    BY <1>1
<1>5. 1 \in DOMAIN s BY <1>1
<1>6. ASSUME IsInjective(s) PROVE h \notin ToSet(t)
    BY <1>1, <1>4, <1>5, <1>6 DEF ToSet, IsInjective
<1>7. ASSUME IsInjective(s) PROVE IsInjective(t)
    BY <1>1, <1>4, <1>7 DEF IsInjective
<1> QED BY <1>1, <1>2, <1>3, <1>6, <1>7 DEF t, h

\* Two queues one after the other.
LEMMA Joined ==
    ASSUME NEW S, NEW s \in Seq(S), NEW t \in Seq(S)
    PROVE  /\ s \o t \in Seq(S)
           /\ ToSet(s \o t) = ToSet(s) \union ToSet(t)
           /\ IsInjective(s) /\ IsInjective(t) /\ ToSet(s) \intersect ToSet(t) = {}
                  => IsInjective(s \o t)
<1> DEFINE u == s \o t
<1>1. /\ u \in Seq(S) /\ DOMAIN u = 1..Len(s) + Len(t)
      /\ DOMAIN s = 1..Len(s) /\ DOMAIN t = 1..Len(t) /\ Len(s) \in Nat /\ Len(t) \in Nat
      /\ \A i \in DOMAIN u : u[i] = IF i <= Len(s) THEN s[i] ELSE t[i - Len(s)]
    OBVIOUS
<1> HIDE DEF u
<1>2. ASSUME NEW i \in DOMAIN s PROVE i \in DOMAIN u /\ u[i] = s[i] BY <1>1
<1>3. ASSUME NEW i \in DOMAIN t PROVE i + Len(s) \in DOMAIN u /\ u[i + Len(s)] = t[i]
    BY <1>1
<1>4. ASSUME NEW i \in DOMAIN u, ~ i <= Len(s) PROVE i - Len(s) \in DOMAIN t /\ u[i] = t[i - Len(s)]
    BY <1>1, <1>4
<1>5. ToSet(s) \union ToSet(t) \subseteq ToSet(u) BY <1>2, <1>3 DEF ToSet
<1>6. ToSet(u) \subseteq ToSet(s) \union ToSet(t) BY <1>1, <1>4 DEF ToSet
<1>7. ASSUME IsInjective(s), IsInjective(t), ToSet(s) \intersect ToSet(t) = {}
      PROVE  IsInjective(u)
    <2> SUFFICES ASSUME NEW i \in DOMAIN u, NEW j \in DOMAIN u, u[i] = u[j] PROVE i = j
        BY DEF IsInjective
    <2>1. CASE i <= Len(s) /\ j <= Len(s)
        BY <2>1, <1>1, <1>7 DEF IsInjective
    <2>2. CASE ~ i <= Len(s) /\ ~ j <= Len(s)
        <3>1. i - Len(s) = j - Len(s) BY <2>2, <1>4, <1>7 DEF IsInjective
        <3> QED BY <3>1, <1>1
    <2>3. CASE i <= Len(s) /\ ~ j <= Len(s)
        <3>1. u[i] \in ToSet(s) /\ u[j] \in ToSet(t) BY <2>3, <1>1, <1>4 DEF ToSet
        <3> QED BY <3>1, <1>7
    <2>4. CASE ~ i <= Len(s) /\ j <= Len(s)
        <3>1. u[j] \in ToSet(s) /\ u[i] \in ToSet(t) BY <2>4, <1>1, <1>4 DEF ToSet
        <3> QED BY <3>1, <1>7
    <2> QED BY <2>1, <2>2, <2>3, <2>4
<1> QED BY <1>1, <1>5, <1>6, <1>7 DEF u
\* A queue holds what it is a queue of, and an empty one nothing.
LEMMA Contents ==
    ASSUME NEW S, NEW s \in Seq(S)
    PROVE  /\ ToSet(s) \subseteq S /\ <<>> \in Seq(S)
           /\ ToSet(<<>>) = {} /\ IsInjective(<<>>)
BY DEF ToSet, IsInjective

-----------------------------------------------------------------------------
(* The tree.                                                               *)

\* A queued entry is a directory one level down, and it is nobody else's entry.
LEMMA QueuedEntry ==
    ASSUME NEW d \in Dirs, NEW i \in QueuedIn(d)
    PROVE  /\ i \in DOMAIN Entries[d] /\ i \in Nat /\ i >= 1
           /\ Entries[d][i] \in Dirs \ {Root}
           /\ Depth[Entries[d][i]] = Depth[d] + 1
           /\ Depth[d] \in Nat /\ Depth[Entries[d][i]] \in Nat
<1>1. i \in DOMAIN Entries[d] /\ Entries[d][i] # File BY DEF QueuedIn, Queued
<1>2. Entries[d] \in Seq(Dirs \union {File}) /\ Depth[d] \in Nat BY TreeAssumption
<1>3. i \in Nat /\ i >= 1 /\ Entries[d][i] \in Dirs BY <1>1, <1>2
<1>4. Depth[Entries[d][i]] = Depth[d] + 1 BY <1>1, <1>3, TreeAssumption
<1>5. Entries[d][i] # Root
    BY <1>2, <1>4, TreeAssumption
<1> QED BY <1>1, <1>2, <1>3, <1>4, <1>5

LEMMA OneParent ==
    ASSUME NEW p \in Dirs, NEW i \in QueuedIn(p), NEW q \in Dirs, NEW j \in QueuedIn(q),
           Entries[p][i] = Entries[q][j]
    PROVE  p = q /\ i = j
<1>1. Entries[p][i] \in Dirs \ {Root} /\ i \in DOMAIN Entries[p] /\ j \in DOMAIN Entries[q]
    BY QueuedEntry
<1>2. PICK r \in Dirs : \E k \in DOMAIN Entries[r] :
          \A s \in Dirs : \A l \in DOMAIN Entries[s] :
              Entries[s][l] = Entries[p][i] => s = r /\ l = k
    BY <1>1, TreeAssumption
<1> QED BY <1>1, <1>2

\* The subtree of d is the least closed set that has d.
LEMMA SubtreeClosed ==
    ASSUME NEW d \in Dirs
    PROVE  d \in Subtree(d) /\ Closed(Subtree(d)) /\ Subtree(d) \subseteq Dirs
<1>1. d \in Subtree(d) /\ Subtree(d) \subseteq Dirs BY DEF Subtree
<1>2. ASSUME NEW e \in Subtree(d), NEW i \in QueuedIn(e) PROVE Entries[e][i] \in Subtree(d)
    <2>1. e \in Dirs /\ Entries[e][i] \in Dirs BY <1>1, QueuedEntry
    <2>2. ASSUME NEW S \in SUBSET Dirs, d \in S, Closed(S) PROVE Entries[e][i] \in S
        <3>1. e \in S BY <2>2 DEF Subtree
        <3> QED BY <2>2, <3>1 DEF Closed
    <2> QED BY <2>1, <2>2 DEF Subtree
<1> QED BY <1>1, <1>2 DEF Closed

LEMMA SubtreeLeast ==
    ASSUME NEW d \in Dirs, NEW S \in SUBSET Dirs, d \in S, Closed(S)
    PROVE  Subtree(d) \subseteq S
BY DEF Subtree

LEMMA SubtreeWithin ==
    ASSUME NEW d \in Dirs, NEW e \in Subtree(d)
    PROVE  Subtree(e) \subseteq Subtree(d)
BY SubtreeClosed, SubtreeLeast

\* It is d and the subtrees of the directories queued from it.
LEMMA SubtreeUnfolds ==
    ASSUME NEW d \in Dirs
    PROVE  Subtree(d) = {d} \union UNION {Subtree(Entries[d][i]) : i \in QueuedIn(d)}
<1> DEFINE S == {d} \union UNION {Subtree(Entries[d][i]) : i \in QueuedIn(d)}
<1>1. \A i \in QueuedIn(d) : Entries[d][i] \in Dirs BY QueuedEntry
<1>2. S \subseteq Subtree(d)
    <2>1. \A i \in QueuedIn(d) : Entries[d][i] \in Subtree(d) BY SubtreeClosed DEF Closed
    <2> QED BY <2>1, SubtreeClosed, SubtreeWithin
<1>3. S \in SUBSET Dirs BY <1>2, SubtreeClosed
<1>4. ASSUME NEW e \in S, NEW j \in QueuedIn(e) PROVE Entries[e][j] \in S
    <2>1. CASE e = d
        <3>1. Entries[d][j] \in Subtree(Entries[d][j]) BY <2>1, <1>1, SubtreeClosed
        <3> QED BY <2>1, <3>1
    <2>2. CASE e # d
        <3>1. PICK i \in QueuedIn(d) : e \in Subtree(Entries[d][i]) BY <2>2
        <3>2. Entries[e][j] \in Subtree(Entries[d][i])
            BY <1>1, <3>1, SubtreeClosed DEF Closed
        <3> QED BY <3>2
    <2> QED BY <2>1, <2>2
<1>5. Subtree(d) \subseteq S
    <2>1. Closed(S) BY <1>4 DEF Closed
    <2> HIDE DEF S
    <2>2. d \in S BY DEF S
    <2> QED BY <1>3, <2>1, <2>2, SubtreeLeast
<1> QED BY <1>2, <1>5

LEMMA Deeper ==
    ASSUME NEW d \in Dirs, NEW e \in Subtree(d)
    PROVE  Depth[e] >= Depth[d]
<1> DEFINE S == {x \in Dirs : Depth[x] >= Depth[d]}
<1>1. Depth[d] \in Nat BY TreeAssumption
<1>2. ASSUME NEW x \in S, NEW i \in QueuedIn(x) PROVE Entries[x][i] \in S
    <2>1. /\ Entries[x][i] \in Dirs /\ Depth[Entries[x][i]] = Depth[x] + 1
          /\ Depth[x] \in Nat
        BY QueuedEntry
    <2> QED BY <1>1, <2>1
<1>3. Closed(S) BY <1>2 DEF Closed
<1>4. d \in S BY <1>1
<1>5. S \in SUBSET Dirs OBVIOUS
<1> HIDE DEF S
<1>6. Subtree(d) \subseteq S BY <1>3, <1>4, <1>5, SubtreeLeast
<1> QED BY <1>6 DEF S

\* Every directory of a subtree but its root is queued from one of it.
LEMMA Above ==
    ASSUME NEW d \in Dirs, NEW e \in Subtree(d), e # d
    PROVE  \E p \in Subtree(d) : \E i \in QueuedIn(p) : Entries[p][i] = e
<1> DEFINE S == {x \in Subtree(d) :
                    x = d \/ \E p \in Subtree(d) : \E i \in QueuedIn(p) : Entries[p][i] = x}
<1>1. Closed(S)
    <2>1. ASSUME NEW x \in S, NEW i \in QueuedIn(x) PROVE Entries[x][i] \in S
        <3>1. Entries[x][i] \in Subtree(d) BY SubtreeClosed DEF Closed
        <3> QED BY <3>1
    <2> QED BY <2>1 DEF Closed
<1>2. d \in S /\ S \in SUBSET Dirs BY SubtreeClosed
<1> HIDE DEF S
<1>3. Subtree(d) \subseteq S BY <1>1, <1>2, SubtreeLeast
<1> QED BY <1>3 DEF S

\* Two subtrees overlap only if one is within the other.
LEMMA SubtreesApart ==
    ASSUME NEW a \in Dirs, NEW b \in Dirs, a \notin Subtree(b), b \notin Subtree(a)
    PROVE  Subtree(a) \intersect Subtree(b) = {}
<1> DEFINE S == Subtree(a) \ Subtree(b)
<1>1. Closed(S)
    <2>1. ASSUME NEW x \in S, NEW i \in QueuedIn(x), Entries[x][i] \notin S PROVE FALSE
        <3> DEFINE y == Entries[x][i]
        <3>1. y \in Subtree(a) /\ x \in Dirs BY SubtreeClosed DEF Closed
        <3>2. y \in Subtree(b) /\ y # b BY <2>1, <3>1
        <3>3. PICK p \in Subtree(b) : \E j \in QueuedIn(p) : Entries[p][j] = y
            BY <3>2, Above
        <3>4. p = x BY <3>1, <3>3, SubtreeClosed, OneParent
        <3> QED BY <3>3, <3>4
    <2> QED BY <2>1 DEF Closed
<1>2. a \in S /\ S \in SUBSET Dirs BY SubtreeClosed
<1> HIDE DEF S
<1>3. Subtree(a) \subseteq S BY <1>1, <1>2, SubtreeLeast
<1> QED BY <1>3 DEF S

\* Nothing is under a directory and above it.
LEMMA EntriesApart ==
    ASSUME NEW d \in Dirs, NEW i \in QueuedIn(d)
    PROVE  /\ d \notin Subtree(Entries[d][i])
           /\ \A j \in QueuedIn(d) : j # i =>
                  Subtree(Entries[d][i]) \intersect Subtree(Entries[d][j]) = {}
<1>1. ASSUME NEW j \in QueuedIn(d) PROVE d \notin Subtree(Entries[d][j])
    <2>1. /\ Entries[d][j] \in Dirs /\ Depth[d] \in Nat /\ Depth[Entries[d][j]] = Depth[d] + 1
        BY QueuedEntry
    <2>2. d \in Subtree(Entries[d][j]) => Depth[d] >= Depth[Entries[d][j]]
        BY <2>1, Deeper
    <2> QED BY <2>1, <2>2
<1>2. ASSUME NEW j \in QueuedIn(d), NEW k \in QueuedIn(d), j # k
      PROVE  Entries[d][j] \notin Subtree(Entries[d][k])
    <2>1. Entries[d][j] \in Dirs /\ Entries[d][k] \in Dirs /\ Entries[d][j] # Entries[d][k]
        BY <1>2, QueuedEntry, OneParent
    <2>2. SUFFICES ASSUME Entries[d][j] \in Subtree(Entries[d][k]) PROVE FALSE OBVIOUS
    <2>3. PICK p \in Subtree(Entries[d][k]) :
              \E l \in QueuedIn(p) : Entries[p][l] = Entries[d][j]
        BY <2>1, <2>2, Above
    <2>4. p = d BY <2>1, <2>3, SubtreeClosed, OneParent
    <2> QED BY <1>1, <2>3, <2>4
<1> QED BY <1>1, <1>2, QueuedEntry, SubtreesApart

\* An item of what is under d is of a directory of its subtree.
LEMMA UnderFirst ==
    ASSUME NEW d \in Dirs, NEW o \in Under(d)
    PROVE  /\ o[1] \in Subtree(d) /\ o \in Own(o[1])
           /\ o = <<o[1], o[2]>> /\ o[2] \in Nat
<1>1. PICK e \in Subtree(d) : o \in Own(e) BY DEF Under
<1>2. PICK i \in {0} \union DOMAIN Entries[e] : o = <<e, i>> BY <1>1 DEF Own
<1>3. Entries[e] \in Seq(Dirs \union {File}) BY SubtreeClosed, TreeAssumption
<1>4. i \in Nat BY <1>3
<1> QED BY <1>1, <1>2, <1>4

LEMMA UnderApart ==
    ASSUME NEW a \in Dirs, NEW b \in Dirs, Subtree(a) \intersect Subtree(b) = {}
    PROVE  Under(a) \intersect Under(b) = {}
BY UnderFirst

LEMMA UnderHas == ASSUME NEW d \in Dirs PROVE <<d, 0>> \in Under(d)
BY SubtreeClosed DEF Under, Own

\* What is left of a directory shrinks entry by entry, and each is met once.
LEMMA RestAll == ASSUME NEW d \in Dirs PROVE Rest(d, 0) = Under(d)
<1>1. \A o \in Own(d) : o[2] >= 0
    <2>1. Entries[d] \in Seq(Dirs \union {File}) BY TreeAssumption
    <2> QED BY <2>1 DEF Own
<1>2. \A i \in QueuedIn(d) : i >= 0 BY QueuedEntry
<1>3. Rest(d, 0) = Own(d) \union UNION {Under(Entries[d][i]) : i \in QueuedIn(d)}
    BY <1>1, <1>2 DEF Rest
<1>4. Under(d) = Own(d) \union UNION {Under(Entries[d][i]) : i \in QueuedIn(d)}
    <2>1. \A i \in QueuedIn(d) : Under(Entries[d][i]) \subseteq Under(d)
        BY SubtreeUnfolds DEF Under
    <2>2. Own(d) \subseteq Under(d) BY SubtreeClosed DEF Under
    <2>3. ASSUME NEW o \in Under(d)
          PROVE  o \in Own(d) \union UNION {Under(Entries[d][i]) : i \in QueuedIn(d)}
        <3>1. PICK e \in Subtree(d) : o \in Own(e) BY DEF Under
        <3>2. CASE e = d BY <3>1, <3>2
        <3>3. CASE e # d
            <4>1. PICK i \in QueuedIn(d) : e \in Subtree(Entries[d][i])
                BY <3>1, <3>3, SubtreeUnfolds
            <4>2. o \in Under(Entries[d][i]) BY <3>1, <4>1 DEF Under
            <4> QED BY <4>2
        <3> QED BY <3>2, <3>3
    <2> QED BY <2>1, <2>2, <2>3
<1> QED BY <1>3, <1>4

LEMMA RestItem ==
    ASSUME NEW d \in Dirs, NEW i \in Nat, i = 0 \/ (i \in DOMAIN Entries[d] /\ ~Queued(d, i))
    PROVE  /\ Rest(d, i) = {<<d, i>>} \union Rest(d, i + 1)
           /\ <<d, i>> \notin Rest(d, i + 1)
<1>1. \A o \in Own(d) : o = <<d, o[2]>> /\ o[2] \in Nat
    <2>1. Entries[d] \in Seq(Dirs \union {File}) BY TreeAssumption
    <2> QED BY <2>1 DEF Own
<1>2. <<d, i>> \in Own(d) BY DEF Own
<1>3. {o \in Own(d) : o[2] >= i} = {<<d, i>>} \union {o \in Own(d) : o[2] >= i + 1}
    <2>1. ASSUME NEW o \in Own(d), o[2] >= i, ~(o[2] >= i + 1) PROVE o = <<d, i>>
        <3>1. o[2] = i BY <1>1, <2>1
        <3> QED BY <1>1, <3>1
    <2>2. ASSUME NEW o \in Own(d), o[2] >= i + 1 PROVE o[2] >= i BY <1>1, <2>2
    <2> QED BY <1>2, <2>1, <2>2
<1>4. {k \in QueuedIn(d) : k >= i} = {k \in QueuedIn(d) : k >= i + 1}
    <2>1. i \notin QueuedIn(d) BY QueuedEntry DEF QueuedIn
    <2>2. \A k \in QueuedIn(d) : k \in Nat /\ k # i BY <2>1, QueuedEntry
    <2>3. \A k \in QueuedIn(d) : k >= i <=> k >= i + 1 BY <2>2
    <2> QED BY <2>3
<1>5. <<d, i>> \notin UNION {Under(Entries[d][j]) : j \in QueuedIn(d)}
    <2>1. ASSUME NEW j \in QueuedIn(d), <<d, i>> \in Under(Entries[d][j]) PROVE FALSE
        <3>1. <<d, i>>[1] \in Subtree(Entries[d][j]) BY <2>1, QueuedEntry, UnderFirst
        <3> QED BY <3>1, EntriesApart
    <2> QED BY <2>1
<1>6. <<d, i>> \notin {o \in Own(d) : o[2] >= i + 1} OBVIOUS
<1> QED BY <1>3, <1>4, <1>5, <1>6 DEF Rest

LEMMA RestQueued ==
    ASSUME NEW d \in Dirs, NEW i \in QueuedIn(d)
    PROVE  /\ Rest(d, i) = Under(Entries[d][i]) \union Rest(d, i + 1)
           /\ Under(Entries[d][i]) \intersect Rest(d, i + 1) = {}
<1>0. i \in Nat /\ i >= 1 /\ Entries[d][i] \in Dirs BY QueuedEntry
<1>1. \A o \in Own(d) : o[1] = d /\ o[2] \in Nat /\ o[2] # i
    <2>1. Entries[d] \in Seq(Dirs \union {File}) BY TreeAssumption
    <2> QED BY <1>0, <2>1 DEF Own, QueuedIn
<1>2. {o \in Own(d) : o[2] >= i} = {o \in Own(d) : o[2] >= i + 1}
    <2>1. \A o \in Own(d) : o[2] >= i <=> o[2] >= i + 1 BY <1>0, <1>1
    <2> QED BY <2>1
<1>3. {k \in QueuedIn(d) : k >= i} = {i} \union {k \in QueuedIn(d) : k >= i + 1}
    <2>1. \A k \in QueuedIn(d) : k \in Nat BY QueuedEntry
    <2>2. \A k \in QueuedIn(d) : k >= i <=> k = i \/ k >= i + 1 BY <1>0, <2>1
    <2> QED BY <1>0, <2>2
<1>4. \A o \in Own(d) : o \notin Under(Entries[d][i])
    <2>1. ASSUME NEW o \in Own(d), o \in Under(Entries[d][i]) PROVE FALSE
        <3>1. o[1] \in Subtree(Entries[d][i]) BY <1>0, <2>1, UnderFirst
        <3> QED BY <1>1, <3>1, EntriesApart
    <2> QED BY <2>1
<1>5. ASSUME NEW k \in QueuedIn(d), k >= i + 1
      PROVE  Under(Entries[d][i]) \intersect Under(Entries[d][k]) = {}
    <2>1. k # i /\ Entries[d][k] \in Dirs BY <1>0, <1>5, QueuedEntry
    <2> QED BY <1>0, <2>1, EntriesApart, UnderApart
<1> QED BY <1>2, <1>3, <1>4, <1>5 DEF Rest

LEMMA RestNone ==
    ASSUME NEW d \in Dirs, NEW i \in Nat, i >= 1, i \notin DOMAIN Entries[d]
    PROVE  Rest(d, i) = {}
<1>1. Entries[d] \in Seq(Dirs \union {File}) BY TreeAssumption
<1>2. \A j \in DOMAIN Entries[d] : j \in Nat /\ ~(j >= i)
    <2>1. DOMAIN Entries[d] = 1..Len(Entries[d]) /\ Len(Entries[d]) \in Nat BY <1>1
    <2> QED BY <2>1
<1>3. \A o \in Own(d) : ~(o[2] >= i)
    <2>1. ~(0 >= i) OBVIOUS
    <2> QED BY <1>2, <2>1 DEF Own
<1>4. \A j \in QueuedIn(d) : ~(j >= i) BY <1>2 DEF QueuedIn
<1> QED BY <1>3, <1>4 DEF Rest

\* The tree is the same while the maximum depth is.
LEMMA SameTree ==
    ASSUME UNCHANGED maxDepth
    PROVE  /\ \A d : Own(d)' = Own(d) /\ QueuedIn(d)' = QueuedIn(d)
           /\ \A d : Subtree(d)' = Subtree(d)
           /\ \A d : Under(d)' = Under(d)
           /\ \A d, i : Rest(d, i)' = Rest(d, i)
           /\ \A d : Before(d)' = Before(d)
<1>1. \A d : Own(d)' = Own(d) /\ QueuedIn(d)' = QueuedIn(d)
    BY DEF Own, QueuedIn, Queued
<1>2. \A S : Closed(S)' <=> Closed(S) BY <1>1 DEF Closed
<1>3. \A d : Subtree(d)' = Subtree(d) BY <1>2 DEF Subtree
<1>4. \A d : Under(d)' = Under(d) BY <1>1, <1>3 DEF Under
<1>5. \A d, i : Rest(d, i)' = Rest(d, i) BY <1>1, <1>4 DEF Rest
<1>6. \A d : BeforeIn(d)' = BeforeIn(d) BY <1>1, <1>4 DEF BeforeIn
<1>7. \A d : Before(d)' = Before(d) BY <1>3, <1>6 DEF Before
<1> QED BY <1>1, <1>3, <1>4, <1>5, <1>7

-----------------------------------------------------------------------------
(* What the threads and the queues hold.                                   *)

Reading == {"query", "call", "calling", "open", "entry", "required", "create", "start",
            "undo"}
Looping == Reading \union {"next", "end"}

\* The queues hold directories, each once, and a thread that reads has one, at
\* an entry it can be at.
HandsInv ==
    /\ DirectoryQueue \in Seq(Dirs) /\ SubDirectoryQueue \in Seq(Dirs)
    /\ dir \in [Threads -> Dirs \union {None}] /\ entry \in [Threads -> Nat]
    /\ SubDirectoryQueue # <<>> => ~threaded /\ pc[Main] \in Reading \union {"end", "fail"}
    /\ stopped \in BOOLEAN /\ maxDepth \in Nat
    /\ \A t \in Threads :
          /\ pc[t] \in Reading => dir[t] \in Dirs
          /\ pc[t] = "entry" => entry[t] >= 1
          /\ pc[t] \in {"call", "calling"} =>
                \/ entry[t] = 0
                \/ entry[t] \in DOMAIN Entries[dir[t]] /\ ~Queued(dir[t], entry[t])

\* As long as nothing stopped the enumeration, a directory on the queue has a
\* thread that will look there again.
LookedAt ==
    /\ Abort \/ (\E t \in Threads : pc[t] = "fail")
           => stopped \/ pc[Main] \in {"cleanup", "returned"}
    /\ ~stopped /\ DirectoryQueue # <<>> => \E t \in Threads : pc[t] \in Looping

Waiting == ToSet(DirectoryQueue) \union ToSet(SubDirectoryQueue)

\* What a thread has still to read of its directory, and of what is under it.
Position(t) ==
    IF pc[t] = "query" THEN 0
    ELSE IF pc[t] = "open" THEN 1
    ELSE IF pc[t] \in {"call", "entry"} THEN entry[t] ELSE entry[t] + 1
Left(t) == IF pc[t] \in Reading THEN Rest(dir[t], Position(t)) ELSE {}

All(F, S) == UNION {F[x] : x \in S}

\* The items of the tree are divided among the directories that wait (U[a] of
\* a), the threads that read (L[t] of t), the items passed and the ones lost.
Divided(U, W, L, p, l) ==
    /\ \A a, b \in W : a # b => U[a] \intersect U[b] = {}
    /\ \A t, u \in Threads : t # u => L[t] \intersect L[u] = {}
    /\ \A a \in W, t \in Threads : U[a] \intersect L[t] = {}
    /\ \A a \in W : U[a] \intersect (p \union l) = {}
    /\ \A t \in Threads : L[t] \intersect (p \union l) = {}
    /\ p \intersect l = {}
    /\ U[Root] = p \union l \union All(U, W) \union All(L, Threads)

AllUnder == [d \in Dirs |-> Under(d)]
AllLeft == [t \in Threads |-> Left(t)]

QueuedOnce ==
    /\ IsInjective(DirectoryQueue) /\ IsInjective(SubDirectoryQueue)
    /\ ToSet(DirectoryQueue) \intersect ToSet(SubDirectoryQueue) = {}

PartInv ==
    ~stopped => QueuedOnce /\ Divided(AllUnder, Waiting, AllLeft, passed, lost)
-----------------------------------------------------------------------------
(* The hands of the threads.                                               *)

\* Once the calling thread cleans up, no thread is in the loop.
LEMMA Alone ==
    ASSUME IInv, pc[Main] \in {"cleanup", "returned"}
    PROVE  \A t \in Threads : pc[t] \notin Looping \union {"fail"}
<1>1. \A w \in Workers : pc[w] \in {None, "unlock"}
    BY NobodyLeft DEF IInv, ExitInv, Active
<1> QED BY <1>1 DEF Threads, Looping, Reading, None

LEMMA HandsInitially == Init => HandsInv /\ LookedAt
<1> SUFFICES ASSUME Init PROVE HandsInv /\ LookedAt OBVIOUS
<1>1. Root \in Dirs /\ MaxDepths \subseteq Nat BY TreeAssumption, LimitsAssumption
<1>2. Main \in Threads BY ThreadsFinite
<1>3. \A t \in Threads : pc[t] = None \/ (t = Main /\ pc[t] = "next") BY DEF Init
<1>4. DirectoryQueue \in Seq(Dirs) /\ SubDirectoryQueue \in Seq(Dirs) BY <1>1 DEF Init
<1>5. dir \in [Threads -> Dirs \union {None}] /\ entry \in [Threads -> Nat] BY DEF Init
<1>6. stopped \in BOOLEAN /\ maxDepth \in Nat /\ SubDirectoryQueue = <<>> /\ ~Abort
    BY <1>1 DEF Init
<1>7. HandsInv BY <1>3, <1>4, <1>5, <1>6 DEF HandsInv, Reading, None
<1>8. LookedAt BY <1>2, <1>3, <1>6 DEF Init, LookedAt, Looping, Reading, None
<1> QED BY <1>7, <1>8

\* A step of t to l with the queues as they are, or one that is longer.
LEMMA HandsMove ==
    ASSUME HandsInv, NEW t \in Threads, NEW l, pc \in [Threads -> Labels],
           pc' = [pc EXCEPT ![t] = l],
           UNCHANGED options, stopped' \in BOOLEAN,
           DirectoryQueue' \in Seq(Dirs), SubDirectoryQueue' \in Seq(Dirs),
           SubDirectoryQueue' # <<>> => ~threaded /\ pc'[Main] \in Reading \union {"end", "fail"},
           dir' \in [Threads -> Dirs \union {None}], entry' \in [Threads -> Nat],
           \A u \in Threads \ {t} : dir'[u] = dir[u] /\ entry'[u] = entry[u],
           l \in Reading => dir'[t] \in Dirs,
           l = "entry" => entry'[t] >= 1,
           l \in {"call", "calling"} =>
               \/ entry'[t] = 0
               \/ entry'[t] \in DOMAIN Entries[dir'[t]] /\ ~Queued(dir'[t], entry'[t])
    PROVE  HandsInv'
<1>1. threaded' = threaded /\ maxDepth' = maxDepth BY DEF options
<1>2. \A d, i : Queued(d, i)' = Queued(d, i) BY <1>1 DEF Queued
<1>3. ASSUME NEW u \in Threads
      PROVE  /\ pc'[u] \in Reading => dir'[u] \in Dirs
             /\ pc'[u] = "entry" => entry'[u] >= 1
             /\ pc'[u] \in {"call", "calling"} =>
                   \/ entry'[u] = 0
                   \/ entry'[u] \in DOMAIN Entries[dir'[u]] /\ ~Queued(dir'[u], entry'[u])
    <2>1. CASE u = t BY <2>1
    <2>2. CASE u # t
        <3>1. pc'[u] = pc[u] /\ dir'[u] = dir[u] /\ entry'[u] = entry[u] BY <2>2
        <3> QED BY <3>1 DEF HandsInv
    <2> QED BY <2>1, <2>2
<1>4. maxDepth' \in Nat BY <1>1 DEF HandsInv
<1> QED BY <1>1, <1>2, <1>3, <1>4 DEF HandsInv

\* Where a thread is that reads, and what its directory holds.
LEMMA HandsHold ==
    ASSUME HandsInv, NEW t \in Threads
    PROVE  /\ dir \in [Threads -> Dirs \union {None}] /\ entry \in [Threads -> Nat]
           /\ entry[t] \in Nat /\ stopped \in BOOLEAN
           /\ DirectoryQueue \in Seq(Dirs) /\ SubDirectoryQueue \in Seq(Dirs)
           /\ pc[t] \in Reading => dir[t] \in Dirs
           /\ pc[t] = "entry" => entry[t] >= 1
           /\ pc[t] \in {"call", "calling"} =>
                 entry[t] = 0 \/ (entry[t] \in DOMAIN Entries[dir[t]] /\ ~Queued(dir[t], entry[t]))
BY DEF HandsInv

\* The queue of a single thread holds nothing while nobody reads.
LEMMA HandsSub ==
    ASSUME IInv, HandsInv, NEW t \in Threads, SubDirectoryQueue # <<>>,
           pc[t] \notin {None}
    PROVE  t = Main /\ ~threaded /\ pc[t] \in Reading \union {"end", "fail"}
<1>1. ~threaded /\ pc[Main] \in Reading \union {"end", "fail"} BY DEF HandsInv
<1>2. \A w \in Workers : pc[w] = None BY <1>1 DEF IInv, PlacesInv
<1> QED BY <1>1, <1>2 DEF Threads

LEMMA HandsQueues ==
    ASSUME IInv, HandsInv, NEW t \in Threads, NextDirectory(t) \/ EndDirectory(t)
    PROVE  HandsInv'
<1>0. pc \in [Threads -> Labels] BY DEF IInv, PlacesInv
<1>1. CASE /\ NextDirectory(t) /\ Leave(t)
           /\ UNCHANGED <<DirectoryQueue, dir>>
    <2>1. PICK l \in {"wait", "release"} : pc' = [pc EXCEPT ![t] = l]
        BY <1>1 DEF Leave, Goto
    <2>2. UNCHANGED <<options, SubDirectoryQueue, entry, stopped>> /\ pc[t] = "next"
        BY <1>1 DEF NextDirectory, logVars
    <2>3. SubDirectoryQueue = <<>> BY <2>2, HandsSub DEF Reading, None
    <2>4. l \notin Reading /\ l # "entry" /\ l \notin {"call", "calling"} BY <2>1 DEF Reading
    <2> QED BY <1>0, <1>1, <2>1, <2>2, <2>3, <2>4, HandsMove, HandsHold
<1>2. CASE /\ NextDirectory(t) /\ DirectoryQueue # <<>>
           /\ dir' = [dir EXCEPT ![t] = Head(DirectoryQueue)]
           /\ DirectoryQueue' = Tail(DirectoryQueue) /\ pc' = [pc EXCEPT ![t] = "query"]
    <2>1. Head(DirectoryQueue) \in Dirs /\ Tail(DirectoryQueue) \in Seq(Dirs)
        BY <1>2, TakenOff, HandsHold
    <2>2. /\ dir' \in [Threads -> Dirs \union {None}] /\ dir'[t] \in Dirs
          /\ \A u \in Threads \ {t} : dir'[u] = dir[u]
        BY <1>2, <2>1, HandsHold
    <2>3. /\ UNCHANGED <<options, SubDirectoryQueue, entry, stopped>>
          /\ pc[t] = "next"
        BY <1>2 DEF NextDirectory, logVars
    <2>4. SubDirectoryQueue = <<>> BY <2>3, HandsSub DEF Reading, None
    <2> QED BY <1>0, <1>2, <2>1, <2>2, <2>3, <2>4, HandsMove, HandsHold
<1>3. CASE EndDirectory(t)
    <2>1. PICK l \in {"wait", "release", "next"} : pc' = [pc EXCEPT ![t] = l]
        BY <1>3 DEF EndDirectory, Leave, Goto
    <2>2. /\ UNCHANGED <<options, entry, stopped>> /\ SubDirectoryQueue' = <<>>
          /\ dir' = [dir EXCEPT ![t] = None]
          /\ DirectoryQueue' = SubDirectoryQueue \o DirectoryQueue
        BY <1>3 DEF EndDirectory, logVars
    <2>3. DirectoryQueue' \in Seq(Dirs) /\ <<>> \in Seq(Dirs) BY <2>2, HandsHold
    <2>4. /\ dir' \in [Threads -> Dirs \union {None}]
          /\ \A u \in Threads \ {t} : dir'[u] = dir[u]
        BY <2>2, HandsHold
    <2>5. l \notin Reading /\ l # "entry" /\ l \notin {"call", "calling"} BY <2>1 DEF Reading
    <2> QED BY <1>0, <2>1, <2>2, <2>3, <2>4, <2>5, HandsMove, HandsHold
<1> QED BY <1>1, <1>2, <1>3 DEF NextDirectory, Goto

\* A step to l of a thread in a directory that leaves its entry alone.
LEMMA HandsGoto ==
    ASSUME IInv, HandsInv, NEW t \in Threads, NEW l,
           pc[t] \in Reading, l \in Reading \union {"end", "fail"},
           pc' = [pc EXCEPT ![t] = l],
           UNCHANGED <<options, queues, dir, entry>>, stopped' \in BOOLEAN,
           l = "entry" => entry[t] >= 1,
           l \in {"call", "calling"} =>
               entry[t] = 0 \/ (entry[t] \in DOMAIN Entries[dir[t]] /\ ~Queued(dir[t], entry[t]))
    PROVE  HandsInv'
<1>0. pc \in [Threads -> Labels] BY DEF IInv, PlacesInv
<1>1. SubDirectoryQueue # <<>> => ~threaded /\ pc'[Main] \in Reading \union {"end", "fail"}
    BY <1>0, HandsSub DEF HandsInv, Reading, None
<1>2. UNCHANGED <<DirectoryQueue, SubDirectoryQueue>> BY DEF queues
<1> QED BY <1>0, <1>1, <1>2, HandsHold, HandsMove

LEMMA HandsEntry ==
    ASSUME IInv, HandsInv, NEW t \in Threads, NEW i \in Nat, NEW l,
           pc[t] \in Reading, l \in {"entry", "call"}, l = "entry" => i >= 1, l = "call" => i = 0,
           pc' = [pc EXCEPT ![t] = l], entry' = [entry EXCEPT ![t] = i],
           UNCHANGED <<options, dir>>, stopped' \in BOOLEAN,
           UNCHANGED DirectoryQueue, SubDirectoryQueue' \in Seq(Dirs),
           UNCHANGED SubDirectoryQueue \/ (~threaded /\ t = Main)
    PROVE  HandsInv'
<1>0. pc \in [Threads -> Labels] BY DEF IInv, PlacesInv
<1>1. pc'[t] \in Reading /\ pc'[t] = l BY <1>0 DEF Reading
<1>2. SubDirectoryQueue' # <<>> => ~threaded /\ pc'[Main] \in Reading \union {"end", "fail"}
    BY <1>0, <1>1, HandsSub DEF HandsInv, Reading, None
<1>3. /\ entry' \in [Threads -> Nat] /\ entry'[t] = i
      /\ \A u \in Threads \ {t} : dir'[u] = dir[u] /\ entry'[u] = entry[u]
    BY HandsHold
<1> QED BY <1>0, <1>1, <1>2, <1>3, HandsHold, HandsMove

\* The steps of a thread in a directory.
LEMMA HandsSteps ==
    ASSUME IInv, HandsInv, NEW t \in Threads,
           \/ QueryDirectory(t) \/ BeginCall(t) \/ CallReturns(t) \/ OpenDirectory(t)
           \/ EntryFails(t) \/ NoMoreEntries(t)
           \/ WorkerRequired(t) \/ CreateWorker(t) \/ UndoWorker(t)
    PROVE  HandsInv'
<1>1. CASE QueryDirectory(t)
    <2>1. pc[t] \in Reading /\ UNCHANGED <<options, queues, dir>> /\ stopped' \in BOOLEAN
        BY <1>1, HandsHold DEF QueryDirectory, Denied, Fails, Reading
    <2>2. CASE Goto(t, "call") /\ entry' = [entry EXCEPT ![t] = 0]
        BY <2>1, <2>2, HandsEntry, HandsHold DEF Goto, queues
    <2>3. CASE (Denied(t, 0) \/ Fails(t)) /\ UNCHANGED entry
        <3>1. PICK l \in {"end", "fail"} : pc' = [pc EXCEPT ![t] = l]
            BY <2>3 DEF Denied, Fails, Goto
        <3> QED BY <2>1, <2>3, <3>1, HandsGoto
    <2> QED BY <1>1, <2>2, <2>3 DEF QueryDirectory
<1>2. CASE BeginCall(t)
    <2>1. /\ pc[t] = "call" /\ pc[t] \in Reading /\ UNCHANGED <<options, queues, dir, entry>>
          /\ stopped' \in BOOLEAN
        BY <1>2, HandsHold DEF BeginCall, Reading
    <2>2. PICK l \in {"end", "calling"} : pc' = [pc EXCEPT ![t] = l]
        BY <1>2 DEF BeginCall, Goto
    <2>3. l \in Reading \union {"end", "fail"} /\ l # "entry" BY <2>2 DEF Reading
    <2> QED BY <2>1, <2>2, <2>3, HandsGoto, HandsHold
<1>3. CASE CallReturns(t)
    <2>1. pc[t] \in Reading /\ UNCHANGED <<options, queues, dir>> /\ stopped' \in BOOLEAN
        BY <1>3, HandsHold DEF CallReturns, Reading
    <2>2. CASE Goto(t, "end") /\ UNCHANGED entry
        BY <2>1, <2>2, HandsGoto DEF Goto
    <2>3. CASE AfterCall(t)
        <3>1. CASE entry[t] = 0
            <4>1. pc' = [pc EXCEPT ![t] = "open"] /\ UNCHANGED entry
                BY <2>3, <3>1 DEF AfterCall, Goto
            <4> QED BY <2>1, <4>1, HandsGoto DEF Reading
        <3>2. CASE entry[t] # 0
            <4>1. /\ pc' = [pc EXCEPT ![t] = "entry"] /\ entry[t] + 1 \in Nat /\ entry[t] + 1 >= 1
                  /\ entry' = [entry EXCEPT ![t] = entry[t] + 1]
                BY <2>3, <3>2, HandsHold DEF AfterCall, ToEntry, Goto
            <4> QED BY <2>1, <4>1, HandsEntry, HandsHold DEF queues
        <3> QED BY <3>1, <3>2
    <2> QED BY <1>3, <2>2, <2>3 DEF CallReturns
<1>4. CASE OpenDirectory(t)
    <2>1. pc[t] \in Reading /\ UNCHANGED <<options, queues, dir>> /\ stopped' \in BOOLEAN
        BY <1>4, HandsHold DEF OpenDirectory, Denied, Fails, Reading
    <2>2. CASE ToEntry(t, 1)
        <3>1. /\ 1 \in Nat /\ 1 >= 1 /\ pc' = [pc EXCEPT ![t] = "entry"]
              /\ entry' = [entry EXCEPT ![t] = 1]
              /\ UNCHANGED <<DirectoryQueue, SubDirectoryQueue>>
            BY <2>1, <2>2 DEF ToEntry, Goto, queues
        <3> QED BY <2>1, <3>1, HandsEntry, HandsHold
    <2>3. CASE (Denied(t, 1) \/ Fails(t)) /\ UNCHANGED entry
        <3>1. PICK l \in {"end", "fail"} : pc' = [pc EXCEPT ![t] = l]
            BY <2>3 DEF Denied, Fails, Goto
        <3> QED BY <2>1, <2>3, <3>1, HandsGoto
    <2> QED BY <1>4, <2>2, <2>3 DEF OpenDirectory
<1>5. CASE EntryFails(t)
    <2>1. pc[t] \in Reading /\ UNCHANGED <<options, queues, dir, entry>> /\ stopped' \in BOOLEAN
        BY <1>5, HandsHold DEF EntryFails, Denied, Fails, Reading
    <2>2. PICK l \in {"end", "fail"} : pc' = [pc EXCEPT ![t] = l]
        BY <1>5 DEF EntryFails, Denied, Fails, Goto
    <2> QED BY <2>1, <2>2, HandsGoto
<1>6. CASE NoMoreEntries(t)
    <2>1. /\ pc[t] \in Reading /\ UNCHANGED <<options, queues, dir, entry>>
          /\ stopped' \in BOOLEAN /\ pc' = [pc EXCEPT ![t] = "end"]
        BY <1>6, HandsHold DEF NoMoreEntries, logVars, Goto, Reading
    <2> QED BY <2>1, HandsGoto
<1>7. CASE WorkerRequired(t) \/ CreateWorker(t) \/ UndoWorker(t)
    <2>1. pc[t] \in Reading /\ UNCHANGED <<options, queues, dir>> /\ stopped' \in BOOLEAN
        BY <1>7, HandsHold DEF WorkerRequired, CreateWorker, UndoWorker, logVars, Reading
    <2>2. CASE ToEntry(t, entry[t] + 1)
        <3>1. entry[t] + 1 \in Nat /\ entry[t] + 1 >= 1 BY HandsHold
        <3> QED BY <2>1, <2>2, <3>1, HandsEntry, HandsHold DEF ToEntry, Goto, queues
    <2>3. CASE (Goto(t, "create") \/ Goto(t, "start")) /\ UNCHANGED entry
        <3>1. PICK l \in {"create", "start"} : pc' = [pc EXCEPT ![t] = l]
            BY <2>3 DEF Goto
        <3>2. l \in Reading /\ l # "entry" /\ l \notin {"call", "calling"} BY <3>1 DEF Reading
        <3> QED BY <2>1, <2>3, <3>1, <3>2, HandsGoto
    <2> QED BY <1>7, <2>2, <2>3 DEF WorkerRequired, CreateWorker, UndoWorker
<1> QED BY <1>1, <1>2, <1>3, <1>4, <1>5, <1>6, <1>7

\* The entry is a directory to queue, or an item to pass.
LEMMA HandsAtEntry ==
    ASSUME IInv, HandsInv, NEW t \in Threads, Entry(t)
    PROVE  HandsInv'
<1>0. pc \in [Threads -> Labels] BY DEF IInv, PlacesInv
<1>1. /\ pc[t] = "entry" /\ pc[t] \in Reading /\ dir[t] \in Dirs
      /\ entry[t] \in DOMAIN Entries[dir[t]]
      /\ UNCHANGED <<options, dir>> /\ stopped' \in BOOLEAN
    BY HandsHold DEF Entry, logVars, Reading
<1>2. CASE Queued(dir[t], entry[t])
    <2> DEFINE d == Entries[dir[t]][entry[t]]
    <2>1. d \in Dirs BY <1>1, <1>2, QueuedEntry DEF QueuedIn
    <2>2. CASE threaded
        <3>1. /\ DirectoryQueue' = Append(DirectoryQueue, d) /\ pc' = [pc EXCEPT ![t] = "required"]
              /\ UNCHANGED <<SubDirectoryQueue, entry>>
            BY <1>2, <2>2 DEF Entry, Goto
        <3>2. DirectoryQueue' \in Seq(Dirs) BY <2>1, <3>1, HandsHold
        <3>3. SubDirectoryQueue = <<>> BY <2>2 DEF HandsInv
        <3> HIDE DEF d
        <3> QED BY <1>0, <1>1, <3>1, <3>2, <3>3, HandsMove, HandsHold
    <2>3. CASE ~threaded
        <3>1. /\ SubDirectoryQueue' = Append(SubDirectoryQueue, d) /\ pc' = [pc EXCEPT ![t] = "entry"]
              /\ entry' = [entry EXCEPT ![t] = entry[t] + 1] /\ UNCHANGED DirectoryQueue
            BY <1>2, <2>3 DEF Entry, ToEntry, Goto
        <3>2. SubDirectoryQueue' \in Seq(Dirs) BY <2>1, <3>1, HandsHold
        <3>3. t = Main BY <1>1, <2>3 DEF IInv, PlacesInv, Threads, None, Reading
        <3>4. entry[t] + 1 \in Nat /\ entry[t] + 1 >= 1 BY HandsHold
        <3> HIDE DEF d
        <3> QED BY <1>1, <2>3, <3>1, <3>2, <3>3, <3>4, HandsEntry
    <2> QED BY <2>2, <2>3
<1>3. CASE ~Queued(dir[t], entry[t])
    <2>1. pc' = [pc EXCEPT ![t] = "call"] /\ UNCHANGED <<queues, entry>>
        BY <1>3 DEF Entry, Goto
    <2> QED BY <1>1, <1>3, <2>1, HandsGoto DEF Reading
<1> QED BY <1>2, <1>3

\* The workers come and go.
LEMMA HandsWorkers ==
    ASSUME IInv, HandsInv, NEW t \in Threads,
           StartWorker(t) \/ (t \in Workers /\ (ReleaseWorker(t) \/ UnlockWorker(t)))
    PROVE  HandsInv'
<1>0. pc \in [Threads -> Labels] BY DEF IInv, PlacesInv
<1>1. CASE StartWorker(t) /\ Goto(t, "undo") /\ UNCHANGED entry
    <2>1. /\ pc[t] \in Reading /\ UNCHANGED <<options, queues, dir>> /\ stopped' \in BOOLEAN
          /\ "undo" \in Reading
        BY <1>1, HandsHold DEF StartWorker, logVars, Reading
    <2> QED BY <1>1, <2>1, HandsGoto DEF Goto
<1>2. ASSUME StartWorker(t), NEW w \in Workers, pc[w] = None,
             pc' = [pc EXCEPT ![w] = "next", ![t] = "entry"],
             entry' = [entry EXCEPT ![t] = @ + 1]
      PROVE  HandsInv'
    <2>1. /\ UNCHANGED <<options, queues, dir, stopped>> /\ pc[t] = "start"
        BY <1>2 DEF StartWorker, logVars
    <2>2. /\ UNCHANGED <<threaded, maxDepth, DirectoryQueue, SubDirectoryQueue, stopped, dir>>
          /\ maxDepth \in Nat
        BY <2>1 DEF options, queues, HandsInv
    <2>3. w # t /\ dir[t] \in Dirs /\ entry[t] + 1 \in Nat /\ entry[t] + 1 >= 1
        BY <1>2, <2>1, HandsHold DEF None, Reading
    <2>4. \A d, i : Queued(d, i)' = Queued(d, i) BY <2>2 DEF Queued
    <2>5. \A u \in Threads \ {t, w} : pc'[u] = pc[u] /\ entry'[u] = entry[u]
        BY <1>0, <1>2, HandsHold
    <2>6. pc'[w] = "next" /\ pc'[t] = "entry" /\ entry'[t] = entry[t] + 1 /\ entry' \in [Threads -> Nat]
        BY <1>0, <1>2, <2>3, HandsHold DEF Threads
    <2>7. ASSUME NEW u \in Threads
          PROVE  /\ pc'[u] \in Reading => dir'[u] \in Dirs
                 /\ pc'[u] = "entry" => entry'[u] >= 1
                 /\ pc'[u] \in {"call", "calling"} =>
                       \/ entry'[u] = 0
                       \/ (entry'[u] \in DOMAIN Entries[dir'[u]] /\ ~Queued(dir'[u], entry'[u]))
        <3>1. CASE u \in {t, w} BY <2>2, <2>3, <2>6, <3>1 DEF Reading
        <3>2. CASE u \notin {t, w}
            <4>1. pc'[u] = pc[u] /\ entry'[u] = entry[u] /\ dir'[u] = dir[u] BY <2>2, <2>5, <3>2
            <4> QED BY <4>1, HandsHold
        <3> QED BY <3>1, <3>2
    <2>8. SubDirectoryQueue' # <<>> => ~threaded' /\ pc'[Main] \in Reading \union {"end", "fail"}
        <3>1. SubDirectoryQueue = <<>> BY <1>2, <2>1, HandsSub DEF HandsInv, IInv, PlacesInv, None, Threads
        <3> QED BY <2>2, <3>1
    <2> QED BY <2>2, <2>4, <2>6, <2>7, <2>8, HandsHold DEF HandsInv
<1>3. CASE t \in Workers /\ (ReleaseWorker(t) \/ UnlockWorker(t))
    <2>1. PICK l \in {"unlock", None} : pc' = [pc EXCEPT ![t] = l]
        BY <1>3 DEF ReleaseWorker, UnlockWorker, Goto
    <2>2. /\ UNCHANGED <<options, DirectoryQueue, SubDirectoryQueue, dir, entry, stopped>>
          /\ pc[t] \in {"release", "unlock"}
        BY <1>3 DEF ReleaseWorker, UnlockWorker, queues, logVars
    <2>3. SubDirectoryQueue = <<>> BY <2>2, HandsSub DEF Reading, None
    <2>4. l \notin Reading /\ l # "entry" /\ l \notin {"call", "calling"}
        BY <2>1 DEF Reading, None
    <2> QED BY <1>0, <2>1, <2>2, <2>3, <2>4, HandsMove, HandsHold
<1> QED BY <1>1, <1>2, <1>3 DEF StartWorker

\* The calling thread waits and cleans up.
LEMMA HandsMain ==
    ASSUME IInv, HandsInv, WaitForWorkers \/ Cleanup
    PROVE  HandsInv'
<1>0. pc \in [Threads -> Labels] /\ Main \in Threads BY ThreadsFinite DEF IInv, PlacesInv
<1>1. PICK l \in {"cleanup", "next", "returned"} : pc' = [pc EXCEPT ![Main] = l]
    BY DEF WaitForWorkers, Cleanup, Goto
<1>2. UNCHANGED <<options, dir, entry, stopped>> /\ pc[Main] \in {"wait", "cleanup"}
    BY DEF WaitForWorkers, Cleanup, logVars
<1>3. SubDirectoryQueue = <<>> BY <1>0, <1>2, HandsSub DEF Reading, None
<1>4. SubDirectoryQueue' = <<>> /\ DirectoryQueue' \in Seq(Dirs)
    BY <1>0, <1>3, HandsHold DEF WaitForWorkers, Cleanup, queues
<1>5. l \notin Reading /\ l # "entry" /\ l \notin {"call", "calling"}
    BY <1>1 DEF Reading
<1> QED BY <1>0, <1>1, <1>2, <1>3, <1>4, <1>5, HandsMove, HandsHold

-----------------------------------------------------------------------------
(* The queue is looked at.                                                 *)

\* A thread in the loop that is told to leave it was stopped.
LEMMA Flagged ==
    ASSUME IInv, LookedAt, NEW t \in Threads, pc[t] \in Looping \union {"fail"},
           Abort \/ (\E u \in Threads : pc[u] = "fail")
    PROVE  stopped
BY Alone DEF LookedAt

LEMMA LooksMove ==
    ASSUME IInv, LookedAt, NEW t \in Threads, pc[t] \in Looping \union {"fail"},
           NEW l, pc' = [pc EXCEPT ![t] = l],
           stopped => stopped', Abort' => Abort \/ stopped', l = "fail" => stopped',
           l \in Looping \/ stopped' \/ DirectoryQueue' = <<>>
    PROVE  LookedAt'
<1>0. pc \in [Threads -> Labels] BY DEF IInv, PlacesInv
<1>1. Abort' => stopped' BY Flagged
<1>2. (\E u \in Threads : pc'[u] = "fail") => stopped' BY <1>0, Flagged
<1>3. ~stopped' /\ DirectoryQueue' # <<>> => pc'[t] \in Looping BY <1>0
<1> QED BY <1>1, <1>2, <1>3 DEF LookedAt

LEMMA LooksSteps ==
    ASSUME IInv, HandsInv, LookedAt, NEW t \in Threads, Step(t)
    PROVE  LookedAt'
<1>0. pc \in [Threads -> Labels] BY DEF IInv, PlacesInv
<1>1. CASE NextDirectory(t)
    <2>1. pc[t] = "next" /\ pc[t] \in Looping /\ UNCHANGED <<Abort, stopped>>
        BY <1>1 DEF NextDirectory, Looping, logVars
    <2>2. CASE Leave(t) /\ (Abort \/ DirectoryQueue = <<>>) /\ UNCHANGED DirectoryQueue
        <3>1. PICK l \in {"wait", "release"} : pc' = [pc EXCEPT ![t] = l]
            BY <2>2 DEF Leave, Goto
        <3>2. stopped \/ DirectoryQueue' = <<>> BY <2>1, <2>2, Flagged
        <3> QED BY <2>1, <3>1, <3>2, LooksMove
    <2>3. CASE Goto(t, "query")
        BY <2>1, <2>3, LooksMove DEF Goto, Looping, Reading
    <2> QED BY <1>1, <2>2, <2>3 DEF NextDirectory
<1>2. CASE EndDirectory(t)
    <2>1. pc[t] \in Looping \union {"fail"} /\ UNCHANGED <<Abort, stopped>>
        BY <1>2 DEF EndDirectory, Looping, logVars
    <2>2. CASE pc[t] = "fail"
        <3>1. PICK l \in {"wait", "release"} : pc' = [pc EXCEPT ![t] = l]
            BY <1>2, <2>2 DEF EndDirectory, Leave, Goto
        <3>2. stopped BY <2>1, <2>2, Flagged
        <3> QED BY <2>1, <3>1, <3>2, LooksMove
    <2>3. CASE pc[t] # "fail"
        <3>1. pc' = [pc EXCEPT ![t] = "next"]
            BY <1>2, <2>3 DEF EndDirectory, Goto
        <3> QED BY <2>1, <3>1, LooksMove DEF Looping
    <2> QED BY <2>2, <2>3
<1>3. CASE QueryDirectory(t) \/ OpenDirectory(t) \/ EntryFails(t)
    <2>1. /\ pc[t] \in Looping \union {"fail"} /\ UNCHANGED Abort
          /\ stopped => stopped'
        BY <1>3, HandsHold DEF QueryDirectory, OpenDirectory, EntryFails, Denied, Fails, Looping, Reading
    <2>2. CASE Fails(t)
        BY <2>1, <2>2, LooksMove DEF Fails, Goto
    <2>3. CASE ~Fails(t)
        <3>1. PICK l \in {"call", "entry", "end"} : pc' = [pc EXCEPT ![t] = l]
            BY <1>3, <2>3 DEF QueryDirectory, OpenDirectory, EntryFails, Denied, Goto, ToEntry
        <3> QED BY <2>1, <3>1, LooksMove DEF Looping, Reading
    <2> QED BY <2>2, <2>3
<1>4. CASE CallReturns(t)
    <2>1. /\ pc[t] \in Looping \union {"fail"}
          /\ UNCHANGED <<Abort, stopped>> \/ stopped' = TRUE
        BY <1>4 DEF CallReturns, Looping, Reading
    <2>2. PICK l \in {"open", "entry", "end"} : pc' = [pc EXCEPT ![t] = l]
        BY <1>4 DEF CallReturns, AfterCall, ToEntry, Goto
    <2>3. l \in Looping /\ l # "fail" BY <2>2 DEF Looping, Reading
    <2>4. CASE UNCHANGED <<Abort, stopped>> BY <2>1, <2>2, <2>3, <2>4, LooksMove
    <2>5. CASE stopped' = TRUE BY <2>1, <2>2, <2>3, <2>5, LooksMove
    <2> QED BY <2>1, <2>4, <2>5
<1>5. CASE \/ BeginCall(t) \/ Entry(t) \/ NoMoreEntries(t)
           \/ WorkerRequired(t) \/ CreateWorker(t) \/ UndoWorker(t)
    <2>1. pc[t] \in Looping \union {"fail"} /\ UNCHANGED <<Abort, stopped>>
        BY <1>5 DEF BeginCall, Entry, NoMoreEntries, WorkerRequired, CreateWorker, UndoWorker,
                    logVars, Looping, Reading
    <2>2. PICK l \in Looping \ {"fail"} : pc' = [pc EXCEPT ![t] = l]
        BY <1>5 DEF BeginCall, Entry, NoMoreEntries, WorkerRequired, CreateWorker, UndoWorker,
                    ToEntry, Goto, Looping, Reading
    <2> QED BY <2>1, <2>2, LooksMove
<1>6. CASE StartWorker(t)
    <2>1. /\ pc[t] \in Looping \union {"fail"} /\ UNCHANGED <<Abort, stopped>> /\ pc[t] = "start"
        BY <1>6 DEF StartWorker, logVars, Looping, Reading
    <2>2. CASE Goto(t, "undo")
        BY <2>1, <2>2, LooksMove DEF Goto, Looping, Reading
    <2>3. ASSUME NEW w \in Workers, pc[w] = None, pc' = [pc EXCEPT ![w] = "next", ![t] = "entry"]
          PROVE  LookedAt'
        <3>1. /\ \A u \in Threads : pc'[u] = "fail" => pc[u] = "fail"
              /\ pc'[t] = "entry"
            BY <1>0, <2>3
        <3>2. Abort' \/ (\E u \in Threads : pc'[u] = "fail") => stopped'
            BY <2>1, <3>1, Flagged
        <3>3. pc'[t] \in Looping BY <3>1 DEF Looping, Reading
        <3> QED BY <3>2, <3>3 DEF LookedAt
    <2> QED BY <1>6, <2>2, <2>3 DEF StartWorker
<1> QED BY <1>1, <1>2, <1>3, <1>4, <1>5, <1>6 DEF Step

\* Steps outside the loop leave the threads in it where they are.
LEMMA LooksOutside ==
    ASSUME IInv, LookedAt, NEW t \in Threads,
           \/ t \in Workers /\ (ReleaseWorker(t) \/ UnlockWorker(t))
           \/ t = Main /\ (WaitForWorkers \/ Cleanup)
    PROVE  LookedAt'
<1>0. pc \in [Threads -> Labels] /\ Main \in Threads /\ Main \notin Workers
    BY ThreadsFinite DEF IInv, PlacesInv
<1>1. PICK l \in {"unlock", None, "cleanup", "next", "returned"} :
          /\ pc' = [pc EXCEPT ![t] = l]
          /\ Abort' => Abort \/ (l = "cleanup" /\ t = Main)
          /\ l \in {"unlock", None} => t # Main
          /\ pc[t] = "cleanup" => l = "returned"
    <2>1. CASE t \in Workers /\ ReleaseWorker(t)
        BY <1>0, <2>1 DEF ReleaseWorker, Goto
    <2>2. CASE t \in Workers /\ UnlockWorker(t)
        BY <1>0, <2>2 DEF UnlockWorker, Goto
    <2>3. CASE t = Main /\ WaitForWorkers
        BY <2>3 DEF WaitForWorkers, Goto, None
    <2>4. CASE t = Main /\ Cleanup
        BY <2>4 DEF Cleanup, Goto, None
    <2> QED BY <2>1, <2>2, <2>3, <2>4
<1>2. /\ pc[t] \in {"release", "unlock", "wait", "cleanup"} /\ UNCHANGED stopped
      /\ DirectoryQueue' # <<>> => UNCHANGED DirectoryQueue
    BY DEF ReleaseWorker, UnlockWorker, WaitForWorkers, Cleanup, logVars, queues
<1>3. \A u \in Threads : u # t => pc'[u] = pc[u] BY <1>0, <1>1
<1>4. pc'[t] = l BY <1>0, <1>1
<1>5. Abort' \/ (\E u \in Threads : pc'[u] = "fail")
          => stopped' \/ pc'[Main] \in {"cleanup", "returned"}
    <2>1. ASSUME \E u \in Threads : pc'[u] = "fail" PROVE \E u \in Threads : pc[u] = "fail"
        BY <1>1, <1>3, <1>4, <2>1 DEF None
    <2>2. CASE Abort' /\ ~Abort BY <1>1, <1>4, <2>2
    <2>3. CASE Abort \/ (\E u \in Threads : pc[u] = "fail")
        <3>1. stopped \/ pc[Main] \in {"cleanup", "returned"} BY <2>3 DEF LookedAt
        <3>2. pc[Main] \in {"cleanup", "returned"} => pc'[Main] \in {"cleanup", "returned"}
            BY <1>1, <1>2, <1>3, <1>4
        <3> QED BY <1>2, <3>1, <3>2
    <2> QED BY <2>1, <2>2, <2>3
<1>6. ~stopped' /\ DirectoryQueue' # <<>> => \E u \in Threads : pc'[u] \in Looping
    <2>1. pc[t] \notin Looping BY <1>2 DEF Looping, Reading
    <2> QED BY <1>2, <1>3, <2>1 DEF LookedAt
<1> QED BY <1>5, <1>6 DEF LookedAt

-----------------------------------------------------------------------------
(* The division of the items under the steps that change it.               *)

\* A thread with nothing left takes the directory a.
LEMMA Takes ==
    ASSUME NEW U, NEW W, NEW L, NEW M, NEW p, NEW l, Divided(U, W, L, p, l),
           NEW a \in W, NEW t \in Threads, L[t] = {}, M[t] = U[a],
           \A u \in Threads \ {t} : M[u] = L[u]
    PROVE  Divided(U, W \ {a}, M, p, l)
<1>1. All(U, W) = U[a] \union All(U, W \ {a}) BY DEF All
<1>2. All(M, Threads) = U[a] \union All(L, Threads) BY DEF All
<1>3. \A u, v \in Threads : u # v => M[u] \intersect M[v] = {} BY DEF Divided
<1>4. \A b \in W \ {a}, u \in Threads : U[b] \intersect M[u] = {} BY DEF Divided
<1>5. \A u \in Threads : M[u] \intersect (p \union l) = {} BY DEF Divided
<1>6. U[Root] = p \union l \union All(U, W \ {a})
                  \union All(M, Threads)
    BY <1>1, <1>2 DEF Divided
<1> QED BY <1>3, <1>4, <1>5, <1>6 DEF Divided

\* A thread passes the item o.
LEMMA Passes ==
    ASSUME NEW U, NEW W, NEW L, NEW M, NEW p, NEW l, Divided(U, W, L, p, l),
           NEW o, NEW t \in Threads, L[t] = {o} \union M[t], o \notin M[t],
           \A u \in Threads \ {t} : M[u] = L[u]
    PROVE  Divided(U, W, M, p \union {o}, l)
<1>1. All(L, Threads) = {o} \union All(M, Threads) BY DEF All
<1>2. \A u, v \in Threads : u # v => M[u] \intersect M[v] = {} BY DEF Divided
<1>3. \A b \in W, u \in Threads : U[b] \intersect M[u] = {} BY DEF Divided
<1>4. \A u \in Threads : M[u] \intersect (p \union {o} \union l) = {}
    <2>1. \A u \in Threads : M[u] \intersect (p \union l) = {} BY DEF Divided
    <2>2. \A u \in Threads : o \notin M[u] BY DEF Divided
    <2> QED BY <2>1, <2>2
<1>5. \A b \in W : U[b] \intersect (p \union {o} \union l) = {} BY DEF Divided
<1>6. (p \union {o}) \intersect l = {} BY DEF Divided
<1>7. U[Root] = (p \union {o}) \union l \union All(U, W)
                  \union All(M, Threads)
    BY <1>1, <1>2 DEF Divided
<1> QED BY <1>2, <1>3, <1>4, <1>5, <1>6, <1>7 DEF Divided

\* The directory c that a thread puts on a queue did not wait.
LEMMA QueuesNew ==
    ASSUME NEW U, NEW W, NEW L, NEW M, NEW p, NEW l, Divided(U, W, L, p, l),
           NEW c, NEW t \in Threads, L[t] = U[c] \union M[t], U[c] # {}
    PROVE  c \notin W
BY DEF Divided

\* A thread puts the directory c on a queue.
LEMMA Queues ==
    ASSUME NEW U, NEW W, NEW L, NEW M, NEW p, NEW l, Divided(U, W, L, p, l),
           NEW c, NEW t \in Threads, L[t] = U[c] \union M[t], U[c] \intersect M[t] = {},
           U[c] # {}, \A u \in Threads \ {t} : M[u] = L[u]
    PROVE  Divided(U, W \union {c}, M, p, l)
<1>0. c \notin W BY QueuesNew
<1>1. All(L, Threads) = U[c] \union All(M, Threads) BY DEF All
<1>2. All(U, W \union {c}) = U[c] \union All(U, W) BY DEF All
<1>3. \A u, v \in Threads : u # v => M[u] \intersect M[v] = {} BY DEF Divided
<1>4. \A b \in W \union {c}, u \in Threads : U[b] \intersect M[u] = {} BY DEF Divided
<1>5. \A u \in Threads : M[u] \intersect (p \union l) = {} BY DEF Divided
<1>6. \A b \in W \union {c} : U[b] \intersect (p \union l) = {} BY DEF Divided
<1>7. \A a, b \in W \union {c} : a # b => U[a] \intersect U[b] = {} BY DEF Divided
<1>8. U[Root] = p \union l \union All(U, W \union {c})
                  \union All(M, Threads)
    BY <1>1, <1>2 DEF Divided
<1>9. p \intersect l = {} BY DEF Divided
<1> QED BY <1>3, <1>4, <1>5, <1>6, <1>7, <1>8, <1>9 DEF Divided

\* What a thread has left is lost.
LEMMA Loses ==
    ASSUME NEW U, NEW W, NEW L, NEW M, NEW p, NEW l, Divided(U, W, L, p, l),
           NEW t \in Threads, M[t] = {}, \A u \in Threads \ {t} : M[u] = L[u]
    PROVE  Divided(U, W, M, p, l \union L[t])
<1>1. All(L, Threads) = L[t] \union All(M, Threads) BY DEF All
<1>2. \A u, v \in Threads : u # v => M[u] \intersect M[v] = {} BY DEF Divided
<1>3. \A b \in W, u \in Threads : U[b] \intersect M[u] = {} BY DEF Divided
<1>4. \A u \in Threads : M[u] \intersect (p \union (l \union L[t])) = {} BY DEF Divided
<1>5. \A b \in W : U[b] \intersect (p \union (l \union L[t])) = {} BY DEF Divided
<1>6. p \intersect (l \union L[t]) = {} BY DEF Divided
<1>7. U[Root] = p \union (l \union L[t]) \union All(U, W)
                  \union All(M, Threads)
    BY <1>1, <1>2 DEF Divided
<1> QED BY <1>2, <1>3, <1>4, <1>5, <1>6, <1>7 DEF Divided

-----------------------------------------------------------------------------
(* The division under the steps of the program.                            *)

LEMMA AllSame ==
    ASSUME UNCHANGED maxDepth
    PROVE  AllUnder' = AllUnder
BY SameTree DEF AllUnder

\* A thread that stays where it is has as much left.
LEMMA LeftSame ==
    ASSUME HandsInv, UNCHANGED maxDepth, NEW u \in Threads,
           pc'[u] = pc[u], dir'[u] = dir[u], entry'[u] = entry[u]
    PROVE  AllLeft'[u] = AllLeft[u]
<1>1. Position(u)' = Position(u) /\ Position(u) \in Nat
    BY HandsHold DEF Position
<1>2. CASE pc[u] \in Reading
    <2>1. dir[u] \in Dirs BY <1>2, HandsHold
    <2>2. Rest(dir[u], Position(u))' = Rest(dir[u], Position(u))
        BY <1>1, <2>1, SameTree
    <2>3. Left(u)' = Left(u) BY <2>2 DEF Left
    <2> QED BY <2>3 DEF AllLeft
<1>3. CASE pc[u] \notin Reading
    BY <1>3 DEF AllLeft, Left
<1> QED BY <1>2, <1>3

\* What a thread that moves to l has left then.
LEMMA LeftThen ==
    ASSUME HandsInv, UNCHANGED maxDepth, NEW t \in Threads, pc'[t] \in Reading,
           NEW d \in Dirs, NEW i \in Nat, dir'[t] = d, entry'[t] = i
    PROVE  /\ pc'[t] = "query" => AllLeft'[t] = Rest(d, 0)
           /\ pc'[t] = "open" => AllLeft'[t] = Rest(d, 1)
           /\ pc'[t] \in {"call", "entry"} => AllLeft'[t] = Rest(d, i)
           /\ pc'[t] \in {"calling", "required", "create", "start", "undo"} =>
                 AllLeft'[t] = Rest(d, i + 1)
<1>1. /\ Position(t)' \in Nat
      /\ pc'[t] = "query" => Position(t)' = 0
      /\ pc'[t] = "open" => Position(t)' = 1
      /\ pc'[t] \in {"call", "entry"} => Position(t)' = i
      /\ pc'[t] \in {"calling", "required", "create", "start", "undo"} => Position(t)' = i + 1
    BY DEF Position
<1>2. \A j \in Nat : Position(t)' = j => Rest(dir[t], Position(t))' = Rest(d, j)
    BY SameTree
<1>3. \A j \in Nat : Position(t)' = j => AllLeft'[t] = Rest(d, j)
    BY <1>2 DEF Left, AllLeft
<1> QED BY <1>1, <1>3

LEMMA LeftNone ==
    ASSUME NEW t \in Threads, pc'[t] \notin Reading
    PROVE  AllLeft'[t] = {}
BY DEF AllLeft, Left

LEMMA LeftNow ==
    ASSUME HandsInv, NEW t \in Threads
    PROVE  /\ pc[t] \notin Reading => AllLeft[t] = {}
           /\ pc[t] \in Reading => AllLeft[t] = Rest(dir[t], Position(t))
           /\ pc[t] = "query" => Position(t) = 0
           /\ pc[t] = "open" => Position(t) = 1
           /\ pc[t] \in {"call", "entry"} => Position(t) = entry[t]
           /\ pc[t] \in {"calling", "required", "create", "start", "undo"} =>
                 Position(t) = entry[t] + 1
BY DEF AllLeft, Left, Position

LEMMA PartInitially == Init => PartInv
<1> SUFFICES ASSUME Init PROVE PartInv OBVIOUS
<1>1. Root \in Dirs /\ <<Root>> \in Seq(Dirs) BY TreeAssumption
<1>2. Waiting = {Root} /\ QueuedOnce
    <2>1. ToSet(<<Root>>) = {Root} /\ IsInjective(<<Root>>) BY DEF ToSet, IsInjective
    <2> QED BY <2>1, <1>1, Contents DEF Init, Waiting, QueuedOnce
<1>3. \A t \in Threads : AllLeft[t] = {}
    BY DEF Init, AllLeft, Left, Reading, None
<1>4. passed = {} /\ lost = {} BY DEF Init
<1>5. All(AllUnder, {Root}) = AllUnder[Root] /\ All(AllLeft, Threads) = {} BY <1>3 DEF All
<1>6. Divided(AllUnder, {Root}, AllLeft, {}, {})
    BY <1>3, <1>5 DEF Divided
<1> QED BY <1>2, <1>4, <1>6 DEF PartInv

\* What the invariant says of a step of t that leaves the others alone.
LEMMA PartHas ==
    ASSUME HandsInv, PartInv, NEW t \in Threads, UNCHANGED maxDepth, ~stopped,
           \A u \in Threads \ {t} : pc'[u] = pc[u] /\ dir'[u] = dir[u] /\ entry'[u] = entry[u]
    PROVE  /\ QueuedOnce /\ Divided(AllUnder, Waiting, AllLeft, passed, lost)
           /\ AllUnder' = AllUnder
           /\ \A u \in Threads \ {t} : AllLeft'[u] = AllLeft[u]
BY AllSame, LeftSame DEF PartInv

LEMMA PartKeeps ==
    ASSUME HandsInv, PartInv, UNCHANGED <<maxDepth, queues, passed, lost>>, stopped => stopped',
           \A u \in Threads : AllLeft'[u] = AllLeft[u]
    PROVE  PartInv'
<1>1. AllUnder' = AllUnder BY AllSame
<1>2. AllLeft' = AllLeft BY DEF AllLeft
<1>3. Waiting' = Waiting /\ QueuedOnce' = QueuedOnce BY DEF Waiting, QueuedOnce, queues
<1> QED BY <1>1, <1>2, <1>3 DEF PartInv

\* A thread stays at what it has left, or leaves a directory with nothing left.
LEMMA PartGoes ==
    ASSUME HandsInv, PartInv, NEW t \in Threads, NEW l, pc \in [Threads -> Labels],
           pc' = [pc EXCEPT ![t] = l],
           UNCHANGED <<maxDepth, queues, passed, lost>>, stopped => stopped',
           \A u \in Threads \ {t} : dir'[u] = dir[u] /\ entry'[u] = entry[u],
           AllLeft'[t] = AllLeft[t]
    PROVE  PartInv'
<1>1. \A u \in Threads \ {t} : pc'[u] = pc[u] /\ dir'[u] = dir[u] /\ entry'[u] = entry[u]
    OBVIOUS
<1>2. \A u \in Threads : AllLeft'[u] = AllLeft[u] BY <1>1, LeftSame
<1> QED BY <1>2, PartKeeps

LEMMA PartDenied ==
    ASSUME HandsInv, PartInv, NEW t \in Threads, pc \in [Threads -> Labels], NEW i \in Nat,
           Denied(t, i), UNCHANGED <<maxDepth, queues, passed, dir>>,
           \A u \in Threads \ {t} : entry'[u] = entry[u],
           AllLeft[t] = Rest(dir[t], i)
    PROVE  PartInv'
<1>1. /\ pc' = [pc EXCEPT ![t] = "end"] /\ UNCHANGED stopped
      /\ lost' = lost \union AllLeft[t]
    BY DEF Denied, Goto
<1>2. AllLeft'[t] = {} BY <1>1, LeftNone DEF Reading
<1> SUFFICES ASSUME ~stopped PROVE PartInv' BY <1>1 DEF PartInv
<1>3. /\ QueuedOnce /\ Divided(AllUnder, Waiting, AllLeft, passed, lost)
      /\ AllUnder' = AllUnder
      /\ \A u \in Threads \ {t} : AllLeft'[u] = AllLeft[u]
    BY <1>1, PartHas
<1>4. Divided(AllUnder, Waiting, AllLeft', passed, lost \union AllLeft[t])
    BY <1>2, <1>3, Loses
<1>5. Waiting' = Waiting /\ QueuedOnce' = QueuedOnce BY DEF Waiting, QueuedOnce, queues
<1> QED BY <1>1, <1>3, <1>4, <1>5 DEF PartInv

\* A thread takes a directory, or leaves the loop.
LEMMA PartNext ==
    ASSUME IInv, HandsInv, PartInv, NEW t \in Threads, NextDirectory(t)
    PROVE  PartInv'
<1>0. pc \in [Threads -> Labels] BY DEF IInv, PlacesInv
<1>1. /\ UNCHANGED <<maxDepth, SubDirectoryQueue, entry, passed, lost, stopped>>
      /\ AllLeft[t] = {}
    BY LeftNow DEF NextDirectory, logVars, options, Reading
<1>2. CASE Leave(t) /\ UNCHANGED <<DirectoryQueue, dir>>
    <2>1. PICK l \in {"wait", "release"} : pc' = [pc EXCEPT ![t] = l]
        BY <1>2 DEF Leave, Goto
    <2>2. AllLeft'[t] = {} BY <1>0, <2>1, LeftNone DEF Reading
    <2> QED BY <1>0, <1>1, <1>2, <2>1, <2>2, PartGoes DEF queues
<1>3. CASE /\ DirectoryQueue # <<>> /\ dir' = [dir EXCEPT ![t] = Head(DirectoryQueue)]
           /\ DirectoryQueue' = Tail(DirectoryQueue) /\ Goto(t, "query")
    <2> DEFINE a == Head(DirectoryQueue)
    <2> SUFFICES ASSUME ~stopped PROVE PartInv' BY <1>1 DEF PartInv
    <2>1. /\ a \in Dirs
          /\ ToSet(DirectoryQueue) = ToSet(DirectoryQueue') \union {a}
          /\ IsInjective(DirectoryQueue) =>
                IsInjective(DirectoryQueue') /\ a \notin ToSet(DirectoryQueue')
        BY <1>3, HandsHold, TakenOff
    <2>2. /\ \A u \in Threads \ {t} : pc'[u] = pc[u] /\ dir'[u] = dir[u] /\ entry'[u] = entry[u]
          /\ pc'[t] = "query" /\ dir'[t] = a /\ entry'[t] \in Nat
        BY <1>0, <1>1, <1>3, HandsHold DEF Goto
    <2> HIDE DEF a
    <2>3. /\ QueuedOnce /\ Divided(AllUnder, Waiting, AllLeft, passed, lost)
          /\ AllUnder' = AllUnder
          /\ \A u \in Threads \ {t} : AllLeft'[u] = AllLeft[u]
        BY <1>1, <2>2, PartHas
    <2>4. AllLeft'[t] = Rest(a, 0) BY <1>1, <2>1, <2>2, LeftThen DEF Reading
    <2>5. AllLeft'[t] = AllUnder[a] BY <2>1, <2>4, RestAll DEF AllUnder
    <2>6. a \in Waiting /\ Waiting' = Waiting \ {a} /\ QueuedOnce'
        BY <1>1, <2>1, <2>3 DEF Waiting, QueuedOnce
    <2>7. Divided(AllUnder, Waiting \ {a}, AllLeft', passed, lost)
        BY <1>1, <2>3, <2>5, <2>6, Takes
    <2> QED BY <1>1, <2>3, <2>6, <2>7 DEF PartInv
<1> QED BY <1>2, <1>3 DEF NextDirectory

LEMMA PartEnd ==
    ASSUME IInv, HandsInv, PartInv, NEW t \in Threads, EndDirectory(t)
    PROVE  PartInv'
<1>0. pc \in [Threads -> Labels] BY DEF IInv, PlacesInv
<1>1. /\ UNCHANGED <<maxDepth, entry, passed, lost, stopped>> /\ AllLeft[t] = {}
      /\ DirectoryQueue' = SubDirectoryQueue \o DirectoryQueue /\ SubDirectoryQueue' = <<>>
      /\ dir' = [dir EXCEPT ![t] = None]
    BY LeftNow DEF EndDirectory, logVars, options, Reading
<1>2. PICK l \in {"wait", "release", "next"} : pc' = [pc EXCEPT ![t] = l]
    BY DEF EndDirectory, Leave, Goto
<1> SUFFICES ASSUME ~stopped PROVE PartInv' BY <1>1 DEF PartInv
<1>3. /\ \A u \in Threads \ {t} : pc'[u] = pc[u] /\ dir'[u] = dir[u] /\ entry'[u] = entry[u]
      /\ pc'[t] = l
    BY <1>0, <1>1, <1>2, HandsHold
<1>4. /\ QueuedOnce /\ Divided(AllUnder, Waiting, AllLeft, passed, lost)
      /\ AllUnder' = AllUnder
      /\ \A u \in Threads \ {t} : AllLeft'[u] = AllLeft[u]
    BY <1>1, <1>3, PartHas
<1>5. AllLeft'[t] = {} BY <1>2, <1>3, LeftNone DEF Reading
<1>6. AllLeft' = AllLeft BY <1>1, <1>4, <1>5 DEF AllLeft
<1>7. ToSet(DirectoryQueue') = ToSet(SubDirectoryQueue) \union ToSet(DirectoryQueue)
    BY <1>1, HandsHold, Joined
<1>8. IsInjective(DirectoryQueue') BY <1>1, <1>4, HandsHold, Joined DEF QueuedOnce
<1>9. Waiting' = Waiting /\ QueuedOnce'
    BY <1>1, <1>7, <1>8, Contents, HandsHold DEF Waiting, QueuedOnce
<1> QED BY <1>1, <1>4, <1>6, <1>9 DEF PartInv

\* An item is passed.
LEMMA PartCall ==
    ASSUME IInv, HandsInv, LookedAt, PartInv, NEW t \in Threads, BeginCall(t)
    PROVE  PartInv'
<1>0. pc \in [Threads -> Labels] BY DEF IInv, PlacesInv
<1>1. /\ UNCHANGED <<maxDepth, queues, dir, entry, lost, stopped>> /\ pc[t] = "call"
      /\ pc[t] \in Reading
    BY DEF BeginCall, options, Reading
<1> SUFFICES ASSUME ~stopped PROVE PartInv' BY <1>1 DEF PartInv
<1>2. ~Abort BY <1>1, Flagged DEF Looping
<1> DEFINE d == dir[t]  i == entry[t]
<1>3. pc' = [pc EXCEPT ![t] = "calling"] /\ passed' = passed \union {<<d, i>>}
    BY <1>2 DEF BeginCall, Goto
<1>4. d \in Dirs /\ i \in Nat /\ (i = 0 \/ (i \in DOMAIN Entries[d] /\ ~Queued(d, i)))
    BY <1>1, HandsHold
<1>5. pc'[t] = "calling" /\ dir'[t] = d /\ entry'[t] = i BY <1>0, <1>1, <1>3
<1>6. AllLeft[t] = Rest(d, i) BY <1>1, LeftNow
<1> HIDE DEF d, i
<1>7. AllLeft'[t] = Rest(d, i + 1) BY <1>1, <1>4, <1>5, LeftThen DEF Reading
<1>8. /\ QueuedOnce /\ Divided(AllUnder, Waiting, AllLeft, passed, lost)
      /\ AllUnder' = AllUnder
      /\ \A u \in Threads \ {t} : AllLeft'[u] = AllLeft[u]
    BY <1>0, <1>1, <1>3, PartHas
<1>9. AllLeft[t] = {<<d, i>>} \union AllLeft'[t] /\ <<d, i>> \notin AllLeft'[t]
    BY <1>4, <1>6, <1>7, RestItem
<1>10. Divided(AllUnder, Waiting, AllLeft', passed \union {<<d, i>>}, lost)
    BY <1>8, <1>9, Passes
<1>11. Waiting' = Waiting /\ QueuedOnce' = QueuedOnce
    BY <1>1 DEF Waiting, QueuedOnce, queues
<1> QED BY <1>1, <1>3, <1>8, <1>10, <1>11 DEF PartInv

\* A directory is put on a queue.
LEMMA PartQueues ==
    ASSUME IInv, HandsInv, PartInv, NEW t \in Threads, Entry(t), Queued(dir[t], entry[t])
    PROVE  PartInv'
<1>0. pc \in [Threads -> Labels] BY DEF IInv, PlacesInv
<1>1. /\ UNCHANGED <<maxDepth, dir, passed, lost, stopped>> /\ pc[t] = "entry"
      /\ pc[t] \in Reading /\ entry[t] \in DOMAIN Entries[dir[t]]
    BY DEF Entry, options, logVars, Reading
<1> SUFFICES ASSUME ~stopped PROVE PartInv' BY <1>1 DEF PartInv
<1> DEFINE d == dir[t]  i == entry[t]  c == Entries[d][i]
<1>2. d \in Dirs /\ i \in QueuedIn(d) BY <1>1, HandsHold DEF QueuedIn
<1>3. c \in Dirs /\ i \in Nat BY <1>2, QueuedEntry, HandsHold
<1>4. /\ \/ /\ DirectoryQueue' = Append(DirectoryQueue, c) /\ SubDirectoryQueue' = SubDirectoryQueue
            /\ pc' = [pc EXCEPT ![t] = "required"] /\ entry' = entry
         \/ /\ SubDirectoryQueue' = Append(SubDirectoryQueue, c) /\ DirectoryQueue' = DirectoryQueue
            /\ pc' = [pc EXCEPT ![t] = "entry"] /\ entry' = [entry EXCEPT ![t] = i + 1]
    BY DEF Entry, ToEntry, Goto
<1>5. AllLeft[t] = Rest(d, i) BY <1>1, LeftNow
<1> HIDE DEF d, i, c
<1>6. AllLeft'[t] = Rest(d, i + 1)
    <2>1. CASE pc' = [pc EXCEPT ![t] = "required"] /\ entry' = entry
        <3>1. pc'[t] = "required" /\ dir'[t] = d /\ entry'[t] = i BY <1>0, <1>1, <2>1 DEF d, i
        <3> QED BY <1>1, <1>2, <1>3, <3>1, LeftThen DEF Reading
    <2>2. CASE pc' = [pc EXCEPT ![t] = "entry"] /\ entry' = [entry EXCEPT ![t] = i + 1]
        <3>1. pc'[t] = "entry" /\ dir'[t] = d /\ entry'[t] = i + 1
            BY <1>0, <1>1, <2>2, HandsHold DEF d
        <3>2. i + 1 \in Nat BY <1>3
        <3> QED BY <1>1, <1>2, <3>1, <3>2, LeftThen DEF Reading
    <2> QED BY <1>4, <2>1, <2>2
<1>7. \A u \in Threads \ {t} : pc'[u] = pc[u] /\ dir'[u] = dir[u] /\ entry'[u] = entry[u]
    BY <1>0, <1>1, <1>4, HandsHold
<1>8. /\ QueuedOnce /\ Divided(AllUnder, Waiting, AllLeft, passed, lost)
      /\ AllUnder' = AllUnder
      /\ \A u \in Threads \ {t} : AllLeft'[u] = AllLeft[u]
    BY <1>1, <1>7, PartHas
<1>9. /\ AllLeft[t] = AllUnder[c] \union AllLeft'[t] /\ AllUnder[c] \intersect AllLeft'[t] = {}
      /\ AllUnder[c] # {}
    <2>1. AllUnder[c] = Under(c) BY <1>3 DEF AllUnder
    <2>2. /\ Rest(d, i) = Under(c) \union Rest(d, i + 1)
          /\ Under(c) \intersect Rest(d, i + 1) = {}
        BY <1>2, RestQueued DEF c
    <2>3. Under(c) # {} BY <1>3, UnderHas
    <2> QED BY <1>5, <1>6, <2>1, <2>2, <2>3
<1>10. c \notin Waiting /\ Divided(AllUnder, Waiting \union {c}, AllLeft', passed, lost)
    <2> DEFINE L == AllLeft  M == AllLeft'  U == AllUnder
    <2>1. /\ Divided(U, Waiting, L, passed, lost) /\ L[t] = U[c] \union M[t]
          /\ U[c] \intersect M[t] = {} /\ U[c] # {} /\ \A u \in Threads \ {t} : M[u] = L[u]
        BY <1>8, <1>9
    <2> HIDE DEF L, M, U
    <2>2. Divided(U, Waiting \union {c}, M, passed, lost) BY <2>1, Queues
    <2>3. c \notin Waiting BY <2>1, QueuesNew
    <2> QED BY <2>2, <2>3 DEF L, M, U
<1>11. Waiting' = Waiting \union {c} /\ QueuedOnce'
    <2>1. c \notin ToSet(DirectoryQueue) /\ c \notin ToSet(SubDirectoryQueue)
        BY <1>10 DEF Waiting
    <2>2. CASE DirectoryQueue' = Append(DirectoryQueue, c) /\ SubDirectoryQueue' = SubDirectoryQueue
        <3>1. /\ ToSet(DirectoryQueue') = ToSet(DirectoryQueue) \union {c}
              /\ IsInjective(DirectoryQueue) => IsInjective(DirectoryQueue')
            BY <1>3, <2>1, <2>2, Appended, HandsHold
        <3> QED BY <1>8, <2>1, <2>2, <3>1 DEF Waiting, QueuedOnce
    <2>3. CASE SubDirectoryQueue' = Append(SubDirectoryQueue, c) /\ DirectoryQueue' = DirectoryQueue
        <3>1. /\ ToSet(SubDirectoryQueue') = ToSet(SubDirectoryQueue) \union {c}
              /\ IsInjective(SubDirectoryQueue) => IsInjective(SubDirectoryQueue')
            BY <1>3, <2>1, <2>3, Appended, HandsHold
        <3> QED BY <1>8, <2>1, <2>3, <3>1 DEF Waiting, QueuedOnce
    <2> QED BY <1>4, <2>2, <2>3
<1> QED BY <1>1, <1>8, <1>10, <1>11 DEF PartInv

\* The steps of a thread that keep what it has left, or lose it.
LEMMA PartSteps ==
    ASSUME IInv, HandsInv, LookedAt, PartInv, NEW t \in Threads,
           \/ QueryDirectory(t) \/ CallReturns(t) \/ OpenDirectory(t)
           \/ EntryFails(t) \/ NoMoreEntries(t) \/ WorkerRequired(t) \/ CreateWorker(t)
           \/ UndoWorker(t) \/ (Entry(t) /\ ~Queued(dir[t], entry[t]))
    PROVE  PartInv'
<1> DEFINE d == dir[t]  i == entry[t]
<1>0. pc \in [Threads -> Labels] /\ i \in Nat BY HandsHold DEF IInv, PlacesInv
<1>1. /\ pc[t] \in {"query", "calling", "open", "entry", "required", "create", "undo"}
      /\ pc[t] \in Reading /\ d \in Dirs
      /\ pc[t] = "entry" => i >= 1
      /\ UNCHANGED <<maxDepth, queues, dir, passed>>
      /\ stopped => stopped'
    <2>1. /\ pc[t] \in {"query", "calling", "open", "entry", "required", "create", "undo"}
          /\ UNCHANGED <<maxDepth, queues, dir, passed>>
          /\ stopped => stopped'
        BY DEF QueryDirectory, CallReturns, OpenDirectory, EntryFails, NoMoreEntries,
               WorkerRequired, CreateWorker, UndoWorker, Entry, Denied, Fails, options, logVars
    <2>2. pc[t] \in Reading BY <2>1 DEF Reading
    <2> QED BY <2>1, <2>2, HandsHold
<1>2. CASE Fails(t)
    <2>1. stopped' BY <1>2 DEF Fails
    <2> QED BY <2>1 DEF PartInv
<1>3. ASSUME Denied(t, 0), pc[t] = "query", UNCHANGED entry PROVE PartInv'
    <2>1. AllLeft[t] = Rest(dir[t], 0) BY <1>1, <1>3, LeftNow
    <2> QED BY <1>0, <1>1, <1>3, <2>1, PartDenied
<1>4. ASSUME Denied(t, 1), pc[t] = "open", UNCHANGED entry PROVE PartInv'
    <2>1. AllLeft[t] = Rest(dir[t], 1) BY <1>1, <1>4, LeftNow
    <2> QED BY <1>0, <1>1, <1>4, <2>1, PartDenied
<1>5. ASSUME Denied(t, i), pc[t] = "entry", UNCHANGED entry PROVE PartInv'
    <2>1. AllLeft[t] = Rest(dir[t], entry[t]) BY <1>1, <1>5, LeftNow
    <2> QED BY <1>0, <1>1, <1>5, <2>1, PartDenied
<1>6. ASSUME stopped' PROVE PartInv' BY <1>6 DEF PartInv
\* To an entry, or to the call for an entry.
<1>7. ASSUME NEW l \in {"entry", "call"}, NEW j \in Nat, UNCHANGED lost,
             pc' = [pc EXCEPT ![t] = l], entry' = [entry EXCEPT ![t] = j],
             AllLeft[t] = Rest(d, j)
      PROVE  PartInv'
    <2>1. pc'[t] = l /\ entry'[t] = j /\ dir'[t] = d /\ pc'[t] \in Reading
        BY <1>0, <1>1, <1>7, HandsHold DEF Reading
    <2>2. \A u \in Threads \ {t} : dir'[u] = dir[u] /\ entry'[u] = entry[u]
        BY <1>1, <1>7, HandsHold
    <2> HIDE DEF d, i
    <2>3. AllLeft'[t] = Rest(d, j) BY <1>1, <1>7, <2>1, LeftThen
    <2> QED BY <1>0, <1>1, <1>7, <2>2, <2>3, PartGoes
<1>8. ASSUME NEW l \in {"open", "create", "start", "call"}, UNCHANGED <<lost, entry>>,
             pc' = [pc EXCEPT ![t] = l],
             l = "open" => AllLeft[t] = Rest(d, 1),
             l = "call" => AllLeft[t] = Rest(d, i),
             l \in {"create", "start"} => AllLeft[t] = Rest(d, i + 1)
      PROVE  PartInv'
    <2>1. pc'[t] = l /\ entry'[t] = i /\ dir'[t] = d /\ pc'[t] \in Reading
        BY <1>0, <1>1, <1>8 DEF Reading
    <2> HIDE DEF d, i
    <2>2. AllLeft'[t] = AllLeft[t] BY <1>0, <1>1, <1>8, <2>1, LeftThen
    <2> QED BY <1>0, <1>1, <1>8, <2>2, PartGoes
<1>9. CASE QueryDirectory(t)
    <2>1. pc[t] = "query" BY <1>9 DEF QueryDirectory
    <2>2. AllLeft[t] = Rest(d, 0) BY <1>1, <2>1, LeftNow
    <2>3. CASE Goto(t, "call") /\ entry' = [entry EXCEPT ![t] = 0] /\ UNCHANGED lost
        BY <1>7, <2>2, <2>3 DEF Goto
    <2> QED BY <1>2, <1>3, <1>9, <2>1, <2>3 DEF QueryDirectory
<1>10. CASE CallReturns(t)
    <2>1. pc[t] = "calling" /\ UNCHANGED lost BY <1>10 DEF CallReturns
    <2>2. AllLeft[t] = Rest(d, i + 1) BY <1>1, <2>1, LeftNow
    <2>3. CASE AfterCall(t)
        <3>1. CASE i = 0
            <4>1. pc' = [pc EXCEPT ![t] = "open"] /\ UNCHANGED entry
                BY <2>3, <3>1 DEF AfterCall, Goto
            <4>2. AllLeft[t] = Rest(d, 1)
                <5>1. i + 1 = 1 BY <3>1
                <5> QED BY <2>2, <5>1
            <4> QED BY <1>8, <2>1, <4>1, <4>2
        <3>2. CASE i # 0
            <4>1. pc' = [pc EXCEPT ![t] = "entry"] /\ entry' = [entry EXCEPT ![t] = i + 1]
                BY <2>3, <3>2 DEF AfterCall, ToEntry, Goto
            <4>2. i + 1 \in Nat BY <1>0
            <4> QED BY <1>7, <2>1, <2>2, <4>1, <4>2
        <3> QED BY <3>1, <3>2
    <2> QED BY <1>6, <1>10, <2>3 DEF CallReturns
<1>11. CASE OpenDirectory(t)
    <2>1. pc[t] = "open" BY <1>11 DEF OpenDirectory
    <2>2. AllLeft[t] = Rest(d, 1) BY <1>1, <2>1, LeftNow
    <2>3. CASE ToEntry(t, 1) /\ UNCHANGED lost
        BY <1>7, <2>2, <2>3 DEF ToEntry, Goto
    <2> QED BY <1>2, <1>4, <1>11, <2>1, <2>3 DEF OpenDirectory
<1>12. CASE EntryFails(t)
    BY <1>2, <1>5, <1>12 DEF EntryFails
<1>13. CASE NoMoreEntries(t)
    <2>1. /\ pc[t] = "entry" /\ (Abort \/ i \notin DOMAIN Entries[d])
          /\ pc' = [pc EXCEPT ![t] = "end"] /\ UNCHANGED <<entry, lost, stopped>>
        BY <1>13 DEF NoMoreEntries, Goto, logVars
    <2>2. AllLeft'[t] = {} BY <1>0, <2>1, LeftNone DEF Reading
    <2>3. CASE stopped BY <1>6, <2>1, <2>3
    <2>4. CASE ~stopped
        <3>1. ~Abort BY <1>1, <2>4, Flagged DEF Looping
        <3>2. AllLeft[t] = Rest(d, i) BY <1>1, <2>1, LeftNow
        <3>3. Rest(d, i) = {} BY <1>0, <1>1, <2>1, <3>1, RestNone
        <3> QED BY <1>0, <1>1, <2>1, <2>2, <3>2, <3>3, PartGoes
    <2> QED BY <2>3, <2>4
<1>14. CASE WorkerRequired(t) \/ CreateWorker(t) \/ UndoWorker(t)
    <2>1. pc[t] \in {"required", "create", "undo"} /\ UNCHANGED lost
        BY <1>14 DEF WorkerRequired, CreateWorker, UndoWorker, logVars
    <2>2. AllLeft[t] = Rest(d, i + 1) BY <1>1, <2>1, LeftNow
    <2>3. CASE ToEntry(t, i + 1)
        <3>1. i + 1 \in Nat BY <1>0
        <3> QED BY <1>7, <2>1, <2>2, <2>3, <3>1 DEF ToEntry, Goto
    <2>4. CASE (Goto(t, "create") \/ Goto(t, "start")) /\ UNCHANGED entry
        BY <1>8, <2>1, <2>2, <2>4 DEF Goto
    <2> QED BY <1>14, <2>3, <2>4 DEF WorkerRequired, CreateWorker, UndoWorker
<1>15. CASE Entry(t) /\ ~Queued(d, i)
    <2>1. pc[t] = "entry" /\ UNCHANGED <<lost, entry>> /\ Goto(t, "call")
        BY <1>15 DEF Entry, logVars
    <2>2. AllLeft[t] = Rest(d, i) BY <1>1, <2>1, LeftNow
    <2> QED BY <1>8, <2>1, <2>2 DEF Goto
<1> QED BY <1>9, <1>10, <1>11, <1>12, <1>13, <1>14, <1>15

\* The workers come and go.
LEMMA PartWorkers ==
    ASSUME IInv, HandsInv, PartInv, NEW t \in Threads,
           StartWorker(t) \/ (t \in Workers /\ (ReleaseWorker(t) \/ UnlockWorker(t)))
    PROVE  PartInv'
<1>0. pc \in [Threads -> Labels] BY DEF IInv, PlacesInv
<1>1. UNCHANGED <<maxDepth, queues, dir, passed, lost, stopped>>
    BY DEF StartWorker, ReleaseWorker, UnlockWorker, options, logVars
<1>2. CASE StartWorker(t)
    <2> DEFINE d == dir[t]  i == entry[t]
    <2>1. pc[t] = "start" /\ d \in Dirs /\ i \in Nat
        BY <1>2, HandsHold DEF StartWorker, Reading
    <2>2. AllLeft[t] = Rest(d, i + 1) BY <2>1, LeftNow DEF Reading
    <2>3. CASE Goto(t, "undo") /\ UNCHANGED entry
        <3>1. pc'[t] = "undo" /\ dir'[t] = d /\ entry'[t] = i BY <1>0, <1>1, <2>3 DEF Goto
        <3> HIDE DEF d, i
        <3>2. AllLeft'[t] = AllLeft[t] BY <1>1, <2>1, <2>2, <3>1, LeftThen DEF Reading
        <3> QED BY <1>0, <1>1, <2>3, <3>2, PartGoes DEF Goto
    <2>4. ASSUME NEW w \in Workers, pc[w] = None, pc' = [pc EXCEPT ![w] = "next", ![t] = "entry"],
                 entry' = [entry EXCEPT ![t] = @ + 1]
          PROVE  PartInv'
        <3>1. w # t /\ w \in Threads BY <2>1, <2>4 DEF None, Threads
        <3>2. /\ \A u \in Threads \ {t, w} : pc'[u] = pc[u] /\ dir'[u] = dir[u] /\ entry'[u] = entry[u]
              /\ pc'[w] = "next" /\ pc'[t] = "entry" /\ dir'[t] = d /\ entry'[t] = i + 1
              /\ i + 1 \in Nat
            BY <1>0, <1>1, <2>1, <2>4, <3>1, HandsHold
        <3> HIDE DEF d, i
        <3>3. AllLeft'[t] = AllLeft[t] BY <1>1, <2>1, <2>2, <3>2, LeftThen DEF Reading
        <3>4. AllLeft'[w] = AllLeft[w]
            BY <2>4, <3>1, <3>2, LeftNone, LeftNow DEF Reading, None
        <3>5. \A u \in Threads : AllLeft'[u] = AllLeft[u] BY <1>1, <3>2, <3>3, <3>4, LeftSame
        <3> QED BY <1>1, <3>5, PartKeeps
    <2> QED BY <1>2, <2>3, <2>4 DEF StartWorker
<1>3. CASE t \in Workers /\ (ReleaseWorker(t) \/ UnlockWorker(t))
    <2>1. PICK l \in {"unlock", None} : pc' = [pc EXCEPT ![t] = l]
        BY <1>3 DEF ReleaseWorker, UnlockWorker, Goto
    <2>2. pc[t] \in {"release", "unlock"} /\ UNCHANGED entry
        BY <1>3 DEF ReleaseWorker, UnlockWorker
    <2>3. AllLeft'[t] = {} BY <1>0, <2>1, LeftNone DEF Reading, None
    <2>4. AllLeft[t] = {} BY <2>2, LeftNow DEF Reading
    <2> QED BY <1>0, <1>1, <2>1, <2>2, <2>3, <2>4, PartGoes
<1> QED BY <1>2, <1>3

\* When the calling thread cleans up, nothing waits that is not stopped.
LEMMA NothingWaits ==
    ASSUME IInv, HandsInv, LookedAt, pc[Main] \in {"cleanup", "returned"}, ~stopped
    PROVE  /\ DirectoryQueue = <<>> /\ SubDirectoryQueue = <<>> /\ Waiting = {}
           /\ \A t \in Threads : AllLeft[t] = {}
<1>0. Main \in Threads BY ThreadsFinite
<1>1. \A t \in Threads : pc[t] \notin Looping \union {"fail"} BY Alone
<1>2. DirectoryQueue = <<>> BY <1>1 DEF LookedAt
<1>3. SubDirectoryQueue = <<>> BY <1>0, HandsSub DEF Reading, None
<1>4. \A t \in Threads : AllLeft[t] = {} BY <1>1, LeftNow DEF Looping
<1>5. ToSet(<<>>) = {} BY DEF ToSet
<1>6. Waiting = {} BY <1>2, <1>3, <1>5 DEF Waiting
<1> QED BY <1>2, <1>3, <1>4, <1>6

LEMMA PartMain ==
    ASSUME IInv, HandsInv, LookedAt, PartInv, WaitForWorkers \/ Cleanup
    PROVE  PartInv'
<1>0. pc \in [Threads -> Labels] /\ Main \in Threads BY ThreadsFinite DEF IInv, PlacesInv
<1>1. PICK l \in {"cleanup", "next", "returned"} : pc' = [pc EXCEPT ![Main] = l]
    BY DEF WaitForWorkers, Cleanup, Goto
<1>2. /\ UNCHANGED <<maxDepth, dir, entry, passed, lost, stopped>>
      /\ pc[Main] \in {"wait", "cleanup"}
    BY DEF WaitForWorkers, Cleanup, options, logVars
<1> SUFFICES ASSUME ~stopped PROVE PartInv' BY <1>2 DEF PartInv
<1>3. UNCHANGED queues
    <2>1. CASE WaitForWorkers BY <2>1 DEF WaitForWorkers
    <2>2. CASE Cleanup BY <2>2, NothingWaits DEF Cleanup, queues
    <2> QED BY <2>1, <2>2
<1>4. AllLeft'[Main] = {} BY <1>0, <1>1, LeftNone DEF Reading
<1>5. AllLeft[Main] = {} BY <1>0, <1>2, LeftNow DEF Reading
<1> QED BY <1>0, <1>1, <1>2, <1>3, <1>4, <1>5, PartGoes

-----------------------------------------------------------------------------
TreeInv == HandsInv /\ LookedAt /\ PartInv

LEMMA TreeInductive == IInv /\ TreeInv /\ [Next]_vars => TreeInv'
<1> SUFFICES ASSUME IInv, HandsInv, LookedAt, PartInv, [Next]_vars
             PROVE  HandsInv' /\ LookedAt' /\ PartInv'
    BY DEF TreeInv
<1>1. ASSUME NEW t \in Threads, Step(t) PROVE HandsInv' /\ LookedAt' /\ PartInv'
    <2>1. HandsInv'
        BY <1>1, HandsQueues, HandsSteps, HandsAtEntry, HandsWorkers DEF Step
    <2>2. PartInv'
        <3>1. CASE NextDirectory(t) \/ EndDirectory(t) BY <3>1, PartNext, PartEnd
        <3>2. CASE BeginCall(t) BY <3>2, PartCall
        <3>3. CASE Entry(t) BY <3>3, PartQueues, PartSteps
        <3>4. CASE StartWorker(t) BY <3>4, PartWorkers
        <3>5. CASE \/ QueryDirectory(t) \/ CallReturns(t) \/ OpenDirectory(t)
                   \/ EntryFails(t) \/ NoMoreEntries(t) \/ WorkerRequired(t)
                   \/ CreateWorker(t) \/ UndoWorker(t)
            BY <3>5, PartSteps
        <3> QED BY <1>1, <3>1, <3>2, <3>3, <3>4, <3>5 DEF Step
    <2> QED BY <1>1, <2>1, <2>2, LooksSteps
<1>2. ASSUME NEW w \in Workers, ReleaseWorker(w) \/ UnlockWorker(w)
      PROVE  HandsInv' /\ LookedAt' /\ PartInv'
    <2>1. w \in Threads BY DEF Threads
    <2> QED BY <1>2, <2>1, HandsWorkers, LooksOutside, PartWorkers
<1>3. CASE WaitForWorkers \/ Cleanup
    <2>1. Main \in Threads BY ThreadsFinite
    <2> QED BY <1>3, <2>1, HandsMain, LooksOutside, PartMain
<1>4. CASE UNCHANGED vars
    <2>1. /\ UNCHANGED <<maxDepth, threaded, DirectoryQueue, SubDirectoryQueue, Abort, pc, dir,
                         entry, passed, lost, stopped>>
          /\ UNCHANGED queues
        BY <1>4 DEF vars, options, queues, logVars
    <2>2. \A d, i : Queued(d, i)' = Queued(d, i) BY <2>1 DEF Queued
    <2>3. HandsInv' BY <2>1, <2>2 DEF HandsInv
    <2>4. LookedAt' BY <2>1 DEF LookedAt
    <2>5. PartInv'
        <3>1. \A u \in Threads : AllLeft'[u] = AllLeft[u] BY <2>1, LeftSame
        <3> QED BY <2>1, <3>1, PartKeeps
    <2> QED BY <2>3, <2>4, <2>5
<1> QED BY <1>1, <1>2, <1>3, <1>4 DEF Next, MainStep, WorkerStep, Threads

\* Whatever fails and however the threads come and go, an enumeration that
\* nothing stopped has passed every item of the tree that can be read: no
\* directory is left on the queue, with a worker or with one that could not be
\* started.
THEOREM EverythingPassed == Spec => []Complete
<1>1. ASSUME IInv, TreeInv, pc[Main] = "returned", ~stopped
      PROVE  passed = Under(Root) \ lost
    <2>1. Waiting = {} /\ \A t \in Threads : AllLeft[t] = {}
        BY <1>1, NothingWaits DEF TreeInv
    <2>2. All(AllUnder, {}) = {} /\ All(AllLeft, Threads) = {} BY <2>1 DEF All
    <2>3. Divided(AllUnder, {}, AllLeft, passed, lost) BY <1>1, <2>1 DEF TreeInv, PartInv
    <2>4. AllUnder[Root] = passed \union lost /\ passed \intersect lost = {}
        BY <2>2, <2>3 DEF Divided
    <2>5. AllUnder[Root] = Under(Root) BY TreeAssumption DEF AllUnder
    <2> QED BY <2>4, <2>5
<1>2. IInv /\ TreeInv => Complete BY <1>1 DEF Complete
<1>3. Init => TreeInv BY HandsInitially, PartInitially DEF TreeInv
<1> QED BY <1>2, <1>3, Initially, Inductive, TreeInductive, PTL DEF Spec

-----------------------------------------------------------------------------
(* The order of the tree.                                                  *)

\* What is passed before the entries of a directory that are queued.
LEMMA BeforeEntry ==
    ASSUME NEW d \in Dirs, NEW i \in QueuedIn(d), NEW o \in Before(Entries[d][i])
    PROVE  \/ o \in Own(d) \union Before(d)
           \/ \E j \in QueuedIn(d) : j < i /\ o \in Under(Entries[d][j])
<1> DEFINE c == Entries[d][i]
<1>0. c \in Dirs \ {Root} /\ i \in DOMAIN Entries[d] BY QueuedEntry
<1>1. PICK a \in Dirs \ {Root} : c \in Subtree(a) /\ o \in BeforeIn(a) BY DEF Before
<1>2. CASE a = c
    <2>1. PICK p \in Dirs : \E k \in DOMAIN Entries[p] :
              /\ Entries[p][k] = c
              /\ \A q \in Dirs : \A j \in DOMAIN Entries[q] : Entries[q][j] = c => q = p /\ j = k
        BY <1>0, TreeAssumption
    <2>2. \A q \in Dirs : \A j \in DOMAIN Entries[q] : Entries[q][j] = c => q = d /\ j = i
        BY <1>0, <2>1
    <2> HIDE DEF c
    <2>3. Parent(c) = d
        <3>1. \E r \in Dirs : \E k \in DOMAIN Entries[r] : Entries[r][k] = c BY <1>0 DEF c
        <3> QED BY <2>2, <3>1 DEF Parent
    <2>4. Index(c) = i
        <3>1. \E k \in DOMAIN Entries[d] : Entries[d][k] = c BY <1>0 DEF c
        <3> QED BY <2>2, <2>3, <3>1 DEF Index
    <2> QED BY <1>1, <1>2, <2>3, <2>4 DEF BeforeIn
<1>3. CASE a # c
    <2>1. PICK p \in Subtree(a) : \E j \in QueuedIn(p) : Entries[p][j] = c BY <1>1, <1>3, Above
    <2>2. p = d BY <2>1, SubtreeClosed, OneParent
    <2> QED BY <1>1, <2>1, <2>2 DEF Before
<1> QED BY <1>2, <1>3

LEMMA BeforeRoot == Before(Root) = {}
<1>1. ASSUME NEW a \in Dirs \ {Root}, Root \in Subtree(a) PROVE FALSE
    <2>1. PICK p \in Subtree(a) : \E j \in QueuedIn(p) : Entries[p][j] = Root BY <1>1, Above
    <2>2. p \in Dirs BY SubtreeClosed
    <2> QED BY <2>1, <2>2, QueuedEntry
<1> QED BY <1>1 DEF Before

\* All that is under the directories before place k of a queue.
Ahead(q, k) == UNION {Under(q[j]) : j \in {n \in DOMAIN q : n < k}}

\* Of a single thread that has R left: before a directory that it found comes
\* what its own directory holds, and before one that waits all it has found.
Ordered(S, R, sub, q, own) ==
    /\ \A k \in DOMAIN sub : Before(sub[k]) \subseteq S \union own \union Ahead(sub, k)
    /\ \A k \in DOMAIN q :
          Before(q[k]) \subseteq S \union R \union Ahead(sub, Len(sub) + 1) \union Ahead(q, k)

\* It is in directory d, at entry i.
AtWork(S, R, sub, d, i) ==
    /\ Before(d) \subseteq S
    /\ Own(d) \subseteq S \union R
    /\ \A j \in QueuedIn(d) : j < i => Entries[d][j] \in ToSet(sub)

OrderInv ==
    ~threaded /\ ~stopped =>
        /\ Ordered(passed \union lost, AllLeft[Main], SubDirectoryQueue, DirectoryQueue,
                   Own(dir[Main]))
        /\ pc[Main] \in Reading =>
              AtWork(passed \union lost, AllLeft[Main], SubDirectoryQueue, dir[Main], Position(Main))
        /\ pc[Main] = "end" => Own(dir[Main]) \subseteq passed \union lost

\* A single thread that a failure stops does not go on.
FailedInv ==
    ~threaded /\ stopped /\ ~Abort => pc[Main] \in {"fail", "wait", "cleanup", "returned"}

LEMMA OrderedGrows ==
    ASSUME NEW S, NEW R, NEW sub, NEW q, NEW own, Ordered(S, R, sub, q, own),
           NEW S2, NEW R2, NEW own2, S \subseteq S2, S \union R \subseteq S2 \union R2,
           own2 = own \/ sub = <<>>
    PROVE  Ordered(S2, R2, sub, q, own2)
BY DEF Ordered

\* The first directory that waits is taken: U is all that is under it.
LEMMA OrderedTakes ==
    ASSUME NEW S, NEW q \in Seq(Dirs), q # <<>>, NEW own, Ordered(S, {}, <<>>, q, own), NEW own2
    PROVE  /\ Before(Head(q)) \subseteq S
           /\ Ordered(S, Under(Head(q)), <<>>, Tail(q), own2)
<1> DEFINE h == Head(q)  t == Tail(q)
<1>1. /\ DOMAIN q = 1..Len(q) /\ DOMAIN t = 1..Len(q) - 1 /\ Len(q) \in Nat \ {0} /\ h = q[1]
      /\ \A k \in DOMAIN t : t[k] = q[k + 1] /\ k + 1 \in DOMAIN q
    OBVIOUS
<1>2. Ahead(<<>>, Len(<<>>) + 1) = {} BY DEF Ahead
<1> HIDE DEF h, t
<1>3. Before(h) \subseteq S
    <2>1. 1 \in DOMAIN q BY <1>1
    <2>2. Ahead(q, 1) = {}
        <3>1. {n \in DOMAIN q : n < 1} = {} BY <1>1
        <3> QED BY <3>1 DEF Ahead
    <2> QED BY <1>1, <1>2, <2>1, <2>2 DEF Ordered
<1>4. ASSUME NEW k \in DOMAIN t PROVE Ahead(q, k + 1) \subseteq Under(h) \union Ahead(t, k)
    <2>1. k \in Nat BY <1>1
    <2>2. SUFFICES ASSUME NEW j \in DOMAIN q, j < k + 1
                   PROVE  Under(q[j]) \subseteq Under(h) \union Ahead(t, k)
        BY DEF Ahead
    <2>3. CASE j = 1 BY <1>1, <2>3
    <2>4. CASE j # 1
        <3>1. j - 1 \in DOMAIN t /\ j - 1 < k /\ t[j - 1] = q[j] BY <1>1, <2>1, <2>2, <2>4
        <3>2. Under(t[j - 1]) \subseteq Ahead(t, k) BY <3>1 DEF Ahead
        <3> QED BY <3>1, <3>2
    <2> QED BY <2>3, <2>4
<1>5. \A k \in DOMAIN t : Before(t[k]) \subseteq S \union Ahead(q, k + 1)
    BY <1>1, <1>2 DEF Ordered
<1>6. Ordered(S, Under(h), <<>>, t, own2)
    <2>1. \A k \in DOMAIN t : Before(t[k]) \subseteq S \union Under(h)
              \union Ahead(<<>>, Len(<<>>) + 1) \union Ahead(t, k)
        BY <1>4, <1>5
    <2>2. DOMAIN <<>> = {} OBVIOUS
    <2> QED BY <2>1, <2>2 DEF Ordered
<1> QED BY <1>3, <1>6 DEF h, t

\* A directory is done, and what was found in it goes in front.
LEMMA OrderedEnds ==
    ASSUME NEW S, NEW sub \in Seq(Dirs), NEW q \in Seq(Dirs), NEW own,
           Ordered(S, {}, sub, q, own), own \subseteq S \/ sub = <<>>, NEW own2
    PROVE  Ordered(S, {}, <<>>, sub \o q, own2)
<1> DEFINE u == sub \o q
<1>1. /\ DOMAIN u = 1..Len(sub) + Len(q) /\ DOMAIN sub = 1..Len(sub) /\ DOMAIN q = 1..Len(q)
      /\ Len(sub) \in Nat /\ Len(q) \in Nat
      /\ \A k \in DOMAIN sub : u[k] = sub[k] /\ k \in DOMAIN u
      /\ \A k \in DOMAIN q : u[Len(sub) + k] = q[k] /\ Len(sub) + k \in DOMAIN u
    OBVIOUS
<1> HIDE DEF u
<1>2. ASSUME NEW k \in DOMAIN u PROVE Before(u[k]) \subseteq S \union Ahead(u, k)
    <2>1. CASE k \in DOMAIN sub
        <3>1. Before(sub[k]) \subseteq S \union Ahead(sub, k)
            <4>1. sub # <<>> BY <2>1
            <4> QED BY <2>1, <4>1 DEF Ordered
        <3>2. Ahead(sub, k) \subseteq Ahead(u, k)
            BY <1>1 DEF Ahead
        <3> QED BY <1>1, <2>1, <3>1, <3>2
    <2>2. CASE k \notin DOMAIN sub
        <3> DEFINE j == k - Len(sub)
        <3>1. j \in DOMAIN q /\ k = Len(sub) + j BY <1>1, <2>2
        <3> HIDE DEF j
        <3>2. Before(q[j]) \subseteq S \union Ahead(sub, Len(sub) + 1) \union Ahead(q, j)
            BY <3>1 DEF Ordered
        <3>3. Ahead(sub, Len(sub) + 1) \subseteq Ahead(u, k)
            <4>1. \A n \in DOMAIN sub : n \in DOMAIN u /\ n < k /\ u[n] = sub[n] BY <1>1, <3>1
            <4> QED BY <4>1 DEF Ahead
        <3>4. Ahead(q, j) \subseteq Ahead(u, k)
            <4>1. \A n \in DOMAIN q : n < j =>
                      Len(sub) + n \in DOMAIN u /\ Len(sub) + n < k /\ u[Len(sub) + n] = q[n]
                BY <1>1, <3>1
            <4>2. ASSUME NEW n \in DOMAIN q, n < j PROVE Under(q[n]) \subseteq Ahead(u, k)
                BY <4>1, <4>2 DEF Ahead
            <4> QED BY <4>2 DEF Ahead
        <3> QED BY <1>1, <3>1, <3>2, <3>3, <3>4
    <2> QED BY <2>1, <2>2
<1>3. DOMAIN <<>> = {} OBVIOUS
<1>4. Ordered(S, {}, <<>>, u, own2) BY <1>2, <1>3 DEF Ordered
<1> QED BY <1>4 DEF u

\* A directory is found.
LEMMA OrderedQueues ==
    ASSUME NEW S, NEW R, NEW sub \in Seq(Dirs), NEW q, NEW d \in Dirs, NEW i \in QueuedIn(d),
           Ordered(S, R, sub, q, Own(d)), AtWork(S, R, sub, d, i),
           NEW R2, R = Under(Entries[d][i]) \union R2
    PROVE  /\ Ordered(S, R2, Append(sub, Entries[d][i]), q, Own(d))
           /\ AtWork(S, R2, Append(sub, Entries[d][i]), d, i + 1)
<1> DEFINE c == Entries[d][i]  s == Append(sub, c)
<1>0. c \in Dirs /\ i \in Nat BY QueuedEntry
<1>1. /\ s \in Seq(Dirs) /\ DOMAIN sub = 1..Len(sub) /\ DOMAIN s = 1..Len(sub) + 1
      /\ Len(sub) \in Nat /\ Len(s) = Len(sub) + 1
      /\ \A k \in DOMAIN sub : s[k] = sub[k]
      /\ s[Len(sub) + 1] = c
    BY <1>0
<1>2. ToSet(s) = ToSet(sub) \union {c} BY <1>0, Appended
<1>3. Own(d) \intersect Under(c) = {}
    <2>1. ASSUME NEW o \in Own(d), o \in Under(c) PROVE FALSE
        <3>1. o[1] = d BY DEF Own
        <3>2. o[1] \in Subtree(c) BY <1>0, <2>1, UnderFirst
        <3> QED BY <3>1, <3>2, EntriesApart
    <2> QED BY <2>1
<1> HIDE DEF s
<1>4. \A k \in 1..Len(sub) + 1 : Ahead(s, k) = Ahead(sub, k)
    <2>1. ASSUME NEW k \in 1..Len(sub) + 1
          PROVE  {n \in DOMAIN s : n < k} = {n \in DOMAIN sub : n < k}
        BY <1>1
    <2> QED BY <1>1, <2>1 DEF Ahead
<1>5. Ahead(s, Len(s) + 1) = Ahead(sub, Len(sub) + 1) \union Under(c)
    <2>1. {n \in DOMAIN s : n < Len(s) + 1} = {n \in DOMAIN sub : n < Len(sub) + 1} \union {Len(sub) + 1}
        BY <1>1
    <2>2. \A n \in {n \in DOMAIN sub : n < Len(sub) + 1} : s[n] = sub[n] BY <1>1
    <2> QED BY <1>1, <2>1, <2>2 DEF Ahead
<1>6. Before(c) \subseteq S \union Own(d) \union Ahead(sub, Len(sub) + 1)
    <2>1. ASSUME NEW j \in QueuedIn(d), j < i
          PROVE  Under(Entries[d][j]) \subseteq Ahead(sub, Len(sub) + 1)
        <3>1. Entries[d][j] \in ToSet(sub) BY <2>1 DEF AtWork
        <3>2. PICK n \in DOMAIN sub : sub[n] = Entries[d][j] BY <3>1 DEF ToSet
        <3>3. n < Len(sub) + 1 BY <1>1
        <3> QED BY <3>2, <3>3 DEF Ahead
    <2>2. Before(d) \subseteq S BY DEF AtWork
    <2> QED BY <2>1, <2>2, BeforeEntry
<1>7. Ordered(S, R2, s, q, Own(d))
    <2>1. ASSUME NEW k \in DOMAIN s
          PROVE  Before(s[k]) \subseteq S \union Own(d) \union Ahead(s, k)
        <3>1. CASE k \in DOMAIN sub
            <4>1. Before(sub[k]) \subseteq S \union Own(d) \union Ahead(sub, k)
                BY <3>1 DEF Ordered
            <4> QED BY <1>1, <1>4, <3>1, <4>1
        <3>2. CASE k \notin DOMAIN sub
            <4>1. k = Len(sub) + 1 BY <1>1, <3>2
            <4> QED BY <1>1, <1>4, <1>6, <4>1
        <3> QED BY <3>1, <3>2
    <2>2. ASSUME NEW k \in DOMAIN q
          PROVE  Before(q[k]) \subseteq S \union R2 \union Ahead(s, Len(s) + 1) \union Ahead(q, k)
        BY <1>5 DEF Ordered
    <2> QED BY <2>1, <2>2 DEF Ordered
<1>8. AtWork(S, R2, s, d, i + 1)
    <2>1. Before(d) \subseteq S /\ Own(d) \subseteq S \union R2 BY <1>3 DEF AtWork
    <2>2. ASSUME NEW j \in QueuedIn(d), j < i + 1 PROVE Entries[d][j] \in ToSet(s)
        <3>1. j \in Nat BY QueuedEntry
        <3>2. j < i \/ j = i BY <1>0, <2>2, <3>1
        <3> QED BY <1>2, <3>2 DEF AtWork
    <2> QED BY <2>1, <2>2 DEF AtWork
<1> QED BY <1>7, <1>8 DEF s

\* What these say is about the tree, which does not change.
LEMMA OrderSame ==
    ASSUME UNCHANGED maxDepth
    PROVE  /\ \A S, R, sub, q, own : Ordered(S, R, sub, q, own)' <=> Ordered(S, R, sub, q, own)
           /\ \A S, R, sub, d, i : AtWork(S, R, sub, d, i)' <=> AtWork(S, R, sub, d, i)
<1>1. \A q, k : Ahead(q, k)' = Ahead(q, k) BY SameTree DEF Ahead
<1>2. \A S, R, sub, q, own : Ordered(S, R, sub, q, own)' <=> Ordered(S, R, sub, q, own)
    BY <1>1, SameTree DEF Ordered
<1>3. \A S, R, sub, d, i : AtWork(S, R, sub, d, i)' <=> AtWork(S, R, sub, d, i)
    BY SameTree DEF AtWork
<1> QED BY <1>2, <1>3

LEMMA OrderInitially == Init => OrderInv /\ FailedInv
<1> SUFFICES ASSUME Init PROVE OrderInv /\ FailedInv OBVIOUS
<1>1. pc[Main] = "next" /\ DirectoryQueue = <<Root>> /\ SubDirectoryQueue = <<>> /\ ~stopped
    BY ThreadsFinite DEF Init
<1>2. DOMAIN <<Root>> = {1} /\ <<Root>>[1] = Root /\ DOMAIN <<>> = {} OBVIOUS
<1>3. Ordered(passed \union lost, AllLeft[Main], SubDirectoryQueue, DirectoryQueue,
              Own(dir[Main]))
    BY <1>1, <1>2, BeforeRoot DEF Ordered
<1> QED BY <1>1, <1>3 DEF OrderInv, FailedInv, Reading

\* A single thread is the calling one.
LEMMA Single ==
    ASSUME IInv, ~threaded
    PROVE  /\ \A t \in Threads \ {Main} : pc[t] = None
           /\ pc[Main] \notin {"required", "create", "start", "undo"}
           /\ pc \in [Threads -> Labels] /\ Main \in Threads
BY ThreadsFinite DEF IInv, PlacesInv, Threads

\* The steps that leave the queues as they are.
LEMMA OrderGoes ==
    ASSUME IInv, HandsInv, HandsInv', PartInv, PartInv', OrderInv, NEW l,
           ~threaded, ~stopped', pc' = [pc EXCEPT ![Main] = l],
           UNCHANGED <<options, queues>>, stopped => stopped',
           \A t \in Threads \ {Main} : AllLeft'[t] = {},
           passed \subseteq passed', lost \subseteq lost',
           SubDirectoryQueue = <<>> \/ pc[Main] \in Reading,
           l \in Reading \union {"end"} =>
               pc[Main] \in Reading /\ dir'[Main] = dir[Main],
           pc[Main] \in Reading => dir'[Main] = dir[Main],
           l \in Reading => \A j \in QueuedIn(dir[Main]) : j < Position(Main)' => j < Position(Main)
    PROVE  OrderInv'
<1> DEFINE S == passed \union lost  R == AllLeft[Main]  S2 == S'  R2 == R'
           sub == SubDirectoryQueue  q == DirectoryQueue  d == dir[Main]
<1>0. /\ UNCHANGED <<threaded, maxDepth, SubDirectoryQueue, DirectoryQueue>>
      /\ ~stopped /\ pc'[Main] = l
    BY Single DEF options, queues
<1>1. Ordered(S, R, sub, q, Own(d)) BY <1>0 DEF OrderInv
<1>2. S \subseteq S2 OBVIOUS
<1>3. S \union R = S2 \union R2
    <2>1. Divided(AllUnder, Waiting, AllLeft, passed, lost) BY <1>0 DEF PartInv
    <2>2. Divided(AllUnder', Waiting', AllLeft', passed', lost') BY <1>0 DEF PartInv
    <2>3. AllUnder' = AllUnder /\ Waiting' = Waiting BY <1>0, AllSame DEF Waiting
    <2>4. All(AllLeft, Threads) = R
        <3>1. \A t \in Threads \ {Main} : AllLeft[t] = {} BY Single, LeftNow DEF Reading, None
        <3> QED BY <3>1, Single DEF All
    <2>5. All(AllLeft', Threads) = R2 BY Single DEF All
    <2> DEFINE W == All(AllUnder, Waiting)  U == AllUnder[Root]
    <2>6. U = S \union W \union R /\ W \intersect (S \union R) = {}
        <3>1. U = S \union W \union R BY <2>1, <2>4 DEF Divided
        <3>2. \A a \in Waiting : AllUnder[a] \intersect (S \union R) = {}
            BY <2>1, Single DEF Divided
        <3> QED BY <3>1, <3>2 DEF All
    <2>7. U = S2 \union W \union R2 /\ W \intersect (S2 \union R2) = {}
        <3>1. U = S2 \union W \union R2 BY <2>2, <2>3, <2>5 DEF Divided
        <3>2. \A a \in Waiting : AllUnder[a] \intersect (S2 \union R2) = {}
            BY <2>2, <2>3, Single DEF Divided
        <3> QED BY <3>1, <3>2 DEF All
    <2> HIDE DEF S, R, S2, R2, W, U
    <2> QED BY <2>6, <2>7
<1>4. sub \in Seq(Dirs) /\ q \in Seq(Dirs) BY DEF HandsInv
<1>5. (pc[Main] \in Reading => d \in Dirs) BY Single, HandsHold
<1>6. Ordered(S2, R2, sub, q, Own(d)')
    <2>1. Own(d)' = Own(d) \/ sub = <<>>
        <3>1. CASE pc[Main] \in Reading
            <4>1. Own(d)' = Own(d) BY <1>0, <1>5, <3>1, SameTree
            <4> QED BY <4>1
        <3> QED BY <3>1
    <2> HIDE DEF S, R, S2, R2, sub, q
    <2> QED BY <1>1, <1>2, <1>3, <2>1, OrderedGrows
<1>7. Ordered(S, R, sub, q, Own(d))'
    <2>1. sub' = sub /\ q' = q BY <1>0
    <2>2. Ordered(S', R', sub', q', Own(d)') BY <1>6, <2>1
    <2>3. UNCHANGED maxDepth BY <1>0
    <2> HIDE DEF S, R, S2, R2, sub, q, d
    <2>4. sub' \in Seq(Dirs) /\ q' \in Seq(Dirs) BY <1>4, <2>1
    <2> QED BY <2>2, <2>3, <2>4, OrderSame
<1>8. ASSUME l \in Reading PROVE AtWork(S, R, sub, d, Position(Main))'
    <2>1. AtWork(S, R, sub, d, Position(Main)) BY <1>0, <1>8 DEF OrderInv
    <2>2. AtWork(S2, R2, sub, d, Position(Main)') BY <1>2, <1>3, <1>8, <2>1 DEF AtWork
    <2>3. d' = d /\ d \in Dirs /\ sub' = sub /\ UNCHANGED maxDepth BY <1>0, <1>5, <1>8
    <2> HIDE DEF S, R, sub, d
    <2>4. AtWork(S', R', sub', d', Position(Main)') /\ d' \in Dirs BY <2>2, <2>3 DEF S2, R2
    <2> QED BY <2>3, <2>4, OrderSame
<1>9. ASSUME l = "end" PROVE (Own(d) \subseteq S)'
    <2>1. AtWork(S, R, sub, d, Position(Main)) BY <1>0, <1>9 DEF OrderInv
    <2>2. R2 = {} BY <1>0, <1>9, LeftNone, Single DEF Reading
    <2>3. Own(d) \subseteq S2 BY <1>3, <2>1, <2>2 DEF AtWork
    <2> QED BY <1>0, <1>5, <1>9, <2>3, SameTree
<1> QED BY <1>0, <1>7, <1>8, <1>9 DEF OrderInv

\* What a step of the calling thread that goes on to l leaves as it is.
LEMMA OrderStays ==
    ASSUME IInv, HandsInv, HandsInv', LookedAt, PartInv, PartInv', OrderInv, ~threaded,
           \/ QueryDirectory(Main) \/ BeginCall(Main) \/ CallReturns(Main)
           \/ OpenDirectory(Main) \/ EntryFails(Main) \/ NoMoreEntries(Main)
           \/ (Entry(Main) /\ ~Queued(dir[Main], entry[Main]))
    PROVE  OrderInv'
<1> DEFINE d == dir[Main]  i == entry[Main]
<1>0. /\ pc \in [Threads -> Labels] /\ Main \in Threads /\ i \in Nat
    BY Single, HandsHold
<1>1. /\ pc[Main] \in {"query", "call", "calling", "open", "entry"}
      /\ UNCHANGED <<options, queues, dir>>
      /\ stopped => stopped'
      /\ passed \subseteq passed' /\ lost \subseteq lost'
    BY DEF QueryDirectory, BeginCall, CallReturns, OpenDirectory, EntryFails, NoMoreEntries, Entry,
           Denied, Fails, logVars
<1>2. pc[Main] \in Reading /\ d \in Dirs
    <2>1. pc[Main] \in Reading BY <1>1 DEF Reading
    <2> QED BY <1>0, <2>1, HandsHold
<1> SUFFICES ASSUME ~stopped' PROVE OrderInv' BY DEF OrderInv
<1>3. PICK l \in {"end", "call", "calling", "open", "entry"} :
          /\ pc' = [pc EXCEPT ![Main] = l]
          /\ l \in Reading => \A j \in QueuedIn(d) : j < Position(Main)' => j < Position(Main)
    <2> SUFFICES \E l \in {"end", "call", "calling", "open", "entry"} :
                     /\ pc' = [pc EXCEPT ![Main] = l]
                     /\ l # "end" =>
                           \A j \in QueuedIn(d) : j < Position(Main)' => j < Position(Main)
        BY DEF Reading
    <2>0. \A j \in QueuedIn(d) : j \in Nat /\ j >= 1 BY <1>2, QueuedEntry
    <2>1. ASSUME NEW l, pc' = [pc EXCEPT ![Main] = l] PROVE pc'[Main] = l BY <1>0, <2>1
    <2>2. CASE pc' = [pc EXCEPT ![Main] = "end"] BY <2>2
    <2>3. CASE QueryDirectory(Main) /\ Goto(Main, "call") /\ entry' = [entry EXCEPT ![Main] = 0]
        <3>1. pc' = [pc EXCEPT ![Main] = "call"] /\ entry'[Main] = 0
            BY <1>0, <2>3, HandsHold DEF Goto
        <3>2. Position(Main)' = 0 BY <2>1, <3>1 DEF Position
        <3> QED BY <2>0, <3>1, <3>2
    <2>4. CASE BeginCall(Main) /\ Goto(Main, "calling")
        <3>1. pc' = [pc EXCEPT ![Main] = "calling"] /\ entry' = entry /\ pc[Main] = "call"
            BY <2>4 DEF BeginCall, Goto
        <3>2. Position(Main)' = i + 1 /\ Position(Main) = i BY <2>1, <3>1 DEF Position
        <3>3. i \notin QueuedIn(d)
            <4>1. i = 0 \/ ~Queued(d, i) BY <1>0, <3>1, HandsHold
            <4> QED BY <2>0, <4>1 DEF QueuedIn
        <3>4. \A j \in QueuedIn(d) : j < i + 1 => j < i
            <4>1. \A j \in QueuedIn(d) : j # i BY <3>3
            <4> QED BY <1>0, <2>0, <4>1
        <3> QED BY <3>1, <3>2, <3>4
    <2>5. CASE CallReturns(Main) /\ AfterCall(Main)
        <3>1. pc[Main] = "calling" /\ Position(Main) = i + 1
            BY <2>5 DEF CallReturns, Position
        <3>2. CASE i = 0
            <4>1. pc' = [pc EXCEPT ![Main] = "open"] BY <2>5, <3>2 DEF AfterCall, Goto
            <4>2. Position(Main)' = 1 BY <2>1, <4>1 DEF Position
            <4> QED BY <3>1, <3>2, <4>1, <4>2
        <3>3. CASE i # 0
            <4>1. pc' = [pc EXCEPT ![Main] = "entry"] /\ entry'[Main] = i + 1
                BY <1>0, <2>5, <3>3, HandsHold DEF AfterCall, ToEntry, Goto
            <4>2. Position(Main)' = i + 1 BY <2>1, <4>1 DEF Position
            <4> QED BY <3>1, <4>1, <4>2
        <3> QED BY <3>2, <3>3
    <2>6. CASE OpenDirectory(Main) /\ ToEntry(Main, 1)
        <3>1. pc' = [pc EXCEPT ![Main] = "entry"] /\ entry'[Main] = 1 /\ pc[Main] = "open"
            BY <1>0, <2>6, HandsHold DEF OpenDirectory, ToEntry, Goto
        <3>2. Position(Main)' = 1 /\ Position(Main) = 1 BY <2>1, <3>1 DEF Position
        <3> QED BY <3>1, <3>2
    <2>7. CASE Entry(Main) /\ ~Queued(d, i)
        <3>1. pc' = [pc EXCEPT ![Main] = "call"] /\ entry' = entry /\ pc[Main] = "entry"
            BY <2>7 DEF Entry, Goto
        <3>2. Position(Main)' = i /\ Position(Main) = i BY <2>1, <3>1 DEF Position
        <3> QED BY <3>1, <3>2
    <2>8. \A n : Denied(Main, n) => pc' = [pc EXCEPT ![Main] = "end"] BY DEF Denied, Goto
    <2>9. ~Fails(Main) BY DEF Fails
    <2>10. CASE QueryDirectory(Main) BY <2>2, <2>3, <2>8, <2>9, <2>10 DEF QueryDirectory
    <2>11. CASE BeginCall(Main) BY <2>2, <2>4, <2>11 DEF BeginCall, Goto
    <2>12. CASE CallReturns(Main) BY <2>2, <2>5, <2>12 DEF CallReturns, Goto
    <2>13. CASE OpenDirectory(Main) BY <2>2, <2>6, <2>8, <2>9, <2>13 DEF OpenDirectory
    <2>14. CASE EntryFails(Main) BY <2>2, <2>8, <2>9, <2>14 DEF EntryFails
    <2>15. CASE NoMoreEntries(Main) BY <2>2, <2>15 DEF NoMoreEntries, Goto
    <2> QED BY <2>7, <2>10, <2>11, <2>12, <2>13, <2>14, <2>15
<1>4. \A t \in Threads \ {Main} : AllLeft'[t] = {}
    <2>1. \A t \in Threads \ {Main} : pc'[t] = None BY <1>0, <1>3, Single
    <2> QED BY <2>1, LeftNone DEF Reading, None
<1> QED BY <1>1, <1>2, <1>3, <1>4, OrderGoes

LEMMA OrderLeaves ==
    ASSUME IInv, HandsInv, HandsInv', LookedAt, PartInv, PartInv', OrderInv, ~threaded,
           (NextDirectory(Main) /\ Leave(Main) /\ UNCHANGED DirectoryQueue)
               \/ WaitForWorkers \/ Cleanup
    PROVE  OrderInv'
<1>0. pc \in [Threads -> Labels] /\ Main \in Threads BY Single
<1>1. PICK l \in {"wait", "cleanup", "returned"} : pc' = [pc EXCEPT ![Main] = l]
    BY DEF Leave, WaitForWorkers, Cleanup, Goto
<1>2. /\ pc[Main] \in {"next", "wait", "cleanup"}
      /\ UNCHANGED <<options, passed, lost, stopped>>
    BY DEF NextDirectory, WaitForWorkers, Cleanup, logVars
<1>3. SubDirectoryQueue = <<>> BY <1>0, <1>2, HandsSub DEF Reading, None
<1> SUFFICES ASSUME ~stopped' PROVE OrderInv' BY DEF OrderInv
<1>4. UNCHANGED queues
    <2>1. CASE NextDirectory(Main) /\ UNCHANGED DirectoryQueue
        BY <2>1 DEF NextDirectory, queues
    <2>2. CASE WaitForWorkers BY <2>2 DEF WaitForWorkers
    <2>3. CASE Cleanup BY <1>2, <2>3, NothingWaits DEF Cleanup, queues
    <2> QED BY <2>1, <2>2, <2>3
<1>5. \A t \in Threads \ {Main} : AllLeft'[t] = {}
    <2>1. \A t \in Threads \ {Main} : pc'[t] = None BY <1>0, <1>1, Single
    <2> QED BY <2>1, LeftNone DEF Reading, None
<1>6. l \notin Reading \union {"end"} /\ pc[Main] \notin Reading BY <1>1, <1>2 DEF Reading
<1> QED BY <1>1, <1>2, <1>3, <1>4, <1>5, <1>6, OrderGoes

LEMMA OrderTakes ==
    ASSUME IInv, HandsInv, HandsInv', OrderInv, ~threaded,
           NextDirectory(Main), DirectoryQueue # <<>>,
           dir' = [dir EXCEPT ![Main] = Head(DirectoryQueue)],
           DirectoryQueue' = Tail(DirectoryQueue), Goto(Main, "query")
    PROVE  OrderInv'
<1> DEFINE S == passed \union lost  q == DirectoryQueue  h == Head(DirectoryQueue)
<1>0. pc \in [Threads -> Labels] /\ Main \in Threads /\ entry[Main] \in Nat BY Single, HandsHold
<1>1. /\ UNCHANGED <<maxDepth, threaded, SubDirectoryQueue, entry, passed, lost, stopped>>
      /\ pc[Main] = "next"
    BY DEF NextDirectory, options, logVars
<1> SUFFICES ASSUME ~stopped PROVE OrderInv' BY <1>1 DEF OrderInv
<1>2. SubDirectoryQueue = <<>> /\ AllLeft[Main] = {}
    BY <1>0, <1>1, HandsSub, LeftNow DEF Reading, None
<1>3. q \in Seq(Dirs) /\ h \in Dirs /\ Tail(q) \in Seq(Dirs) /\ <<>> \in Seq(Dirs)
    BY <1>0, HandsHold, TakenOff
<1>4. Ordered(S, {}, <<>>, q, Own(dir[Main])) BY <1>1, <1>2 DEF OrderInv
<1>5. pc'[Main] = "query" /\ dir'[Main] = h /\ Position(Main)' = 0
    <2>1. pc'[Main] = "query" /\ dir'[Main] = h BY <1>0, HandsHold DEF Goto
    <2> QED BY <2>1 DEF Position
<1> HIDE DEF h
<1>6. AllLeft'[Main] = Under(h)
    <2>1. AllLeft'[Main] = Rest(h, 0) BY <1>0, <1>1, <1>3, <1>5, LeftThen DEF Reading
    <2> QED BY <1>3, <2>1, RestAll
<1>7. Before(h) \subseteq S /\ Ordered(S, Under(h), <<>>, Tail(q), Own(dir[Main])')
    BY <1>3, <1>4, OrderedTakes DEF h
<1>8. AtWork(S, Under(h), <<>>, h, 0)
    <2>1. Own(h) \subseteq Under(h) BY <1>3, SubtreeClosed DEF Under
    <2>2. \A j \in QueuedIn(h) : ~(j < 0) BY <1>3, QueuedEntry
    <2> QED BY <1>7, <2>1, <2>2 DEF AtWork
<1>9. S' = S /\ SubDirectoryQueue' = <<>> /\ DirectoryQueue' = Tail(q) BY <1>1, <1>2
<1> HIDE DEF S, q
<1>10. Ordered(S, AllLeft[Main], SubDirectoryQueue, DirectoryQueue, Own(dir[Main]))'
    <2>1. Ordered(S', AllLeft'[Main], SubDirectoryQueue', DirectoryQueue', Own(dir[Main])')
        BY <1>6, <1>7, <1>9
    <2>2. SubDirectoryQueue' \in Seq(Dirs) /\ DirectoryQueue' \in Seq(Dirs) BY <1>3, <1>9
    <2> QED BY <1>1, <2>1, <2>2, OrderSame
<1>11. AtWork(S, AllLeft[Main], SubDirectoryQueue, dir[Main], Position(Main))'
    <2>1. AtWork(S', AllLeft'[Main], SubDirectoryQueue', dir'[Main], Position(Main)')
        BY <1>5, <1>6, <1>8, <1>9
    <2>2. dir'[Main] \in Dirs BY <1>3, <1>5
    <2> QED BY <1>1, <2>1, <2>2, OrderSame
<1> QED BY <1>5, <1>10, <1>11 DEF OrderInv, S

LEMMA OrderEnds ==
    ASSUME IInv, HandsInv, HandsInv', LookedAt, OrderInv, ~threaded, EndDirectory(Main)
    PROVE  OrderInv'
<1> DEFINE S == passed \union lost  q == DirectoryQueue  sub == SubDirectoryQueue
<1>0. pc \in [Threads -> Labels] /\ Main \in Threads BY Single
<1>1. /\ UNCHANGED <<maxDepth, threaded, passed, lost, stopped>>
      /\ DirectoryQueue' = sub \o q /\ SubDirectoryQueue' = <<>>
      /\ pc[Main] \in {"end", "fail"}
    BY DEF EndDirectory, options, logVars
<1> SUFFICES ASSUME ~stopped PROVE OrderInv' BY <1>1 DEF OrderInv
<1>2. pc[Main] = "end" BY <1>0, <1>1, Flagged
<1>3. pc'[Main] = "next" BY <1>0, <1>2 DEF EndDirectory, Goto
<1>4. AllLeft[Main] = {} /\ AllLeft'[Main] = {} BY <1>0, <1>2, <1>3, LeftNow, LeftNone DEF Reading
<1>5. /\ Ordered(S, {}, sub, q, Own(dir[Main])) /\ Own(dir[Main]) \subseteq S
      /\ sub \in Seq(Dirs) /\ q \in Seq(Dirs) /\ sub \o q \in Seq(Dirs) /\ <<>> \in Seq(Dirs)
    BY <1>0, <1>1, <1>2, <1>4, HandsHold DEF OrderInv
<1>6. S' = S BY <1>1
<1> HIDE DEF S, q, sub
<1>7. Ordered(S, {}, <<>>, sub \o q, Own(dir[Main])') BY <1>5, OrderedEnds
<1>8. Ordered(S, AllLeft[Main], SubDirectoryQueue, DirectoryQueue, Own(dir[Main]))'
    <2>1. Ordered(S', AllLeft'[Main], SubDirectoryQueue', DirectoryQueue', Own(dir[Main])')
        BY <1>1, <1>4, <1>6, <1>7
    <2>2. SubDirectoryQueue' \in Seq(Dirs) /\ DirectoryQueue' \in Seq(Dirs) BY <1>1, <1>5
    <2> QED BY <1>1, <2>1, <2>2, OrderSame
<1> QED BY <1>3, <1>8 DEF OrderInv, S, Reading

LEMMA OrderQueues ==
    ASSUME IInv, HandsInv, HandsInv', OrderInv, ~threaded, Entry(Main),
           Queued(dir[Main], entry[Main])
    PROVE  OrderInv'
<1> DEFINE S == passed \union lost  q == DirectoryQueue  sub == SubDirectoryQueue
           d == dir[Main]  i == entry[Main]  c == Entries[d][i]
<1>0. pc \in [Threads -> Labels] /\ Main \in Threads BY Single
<1>1. /\ UNCHANGED <<maxDepth, threaded, passed, lost, stopped, dir, DirectoryQueue>>
      /\ SubDirectoryQueue' = Append(sub, c) /\ pc[Main] = "entry" /\ i \in DOMAIN Entries[d]
      /\ pc' = [pc EXCEPT ![Main] = "entry"] /\ entry' = [entry EXCEPT ![Main] = i + 1]
    BY DEF Entry, ToEntry, Goto, options, logVars
<1> SUFFICES ASSUME ~stopped PROVE OrderInv' BY <1>1 DEF OrderInv
<1>2. d \in Dirs /\ i \in QueuedIn(d) BY <1>0, <1>1, HandsHold DEF QueuedIn, Reading
<1>3. c \in Dirs /\ i \in Nat /\ i + 1 \in Nat BY <1>2, QueuedEntry
<1>4. pc'[Main] = "entry" /\ dir'[Main] = d /\ entry'[Main] = i + 1
    BY <1>0, <1>1, HandsHold
<1>5. Position(Main) = i /\ Position(Main)' = i + 1 BY <1>1, <1>4 DEF Position
<1>6. Ordered(S, AllLeft[Main], sub, q, Own(d)) /\ AtWork(S, AllLeft[Main], sub, d, i)
    BY <1>1, <1>5 DEF OrderInv, Reading
<1>7. sub \in Seq(Dirs) /\ q \in Seq(Dirs) /\ Append(sub, c) \in Seq(Dirs)
    BY <1>0, <1>3, HandsHold
<1> HIDE DEF c, d, i
<1>8. AllLeft[Main] = Under(Entries[d][i]) \union AllLeft'[Main]
    <2>1. AllLeft[Main] = Rest(d, i) BY <1>0, <1>1, LeftNow DEF d, i, Reading
    <2>2. AllLeft'[Main] = Rest(d, i + 1)
        BY <1>0, <1>1, <1>2, <1>3, <1>4, LeftThen DEF Reading
    <2> QED BY <1>2, <2>1, <2>2, RestQueued
<1>9. S' = S BY <1>1
<1> HIDE DEF S, q, sub
<1>10. /\ Ordered(S, AllLeft'[Main], Append(sub, Entries[d][i]), q, Own(d))
       /\ AtWork(S, AllLeft'[Main], Append(sub, Entries[d][i]), d, i + 1)
    BY <1>2, <1>6, <1>7, <1>8, OrderedQueues
<1>11. Own(dir[Main])' = Own(d) BY <1>1, <1>2, <1>4, SameTree
<1>12. Ordered(S, AllLeft[Main], SubDirectoryQueue, DirectoryQueue, Own(dir[Main]))'
    <2>1. Ordered(S', AllLeft'[Main], SubDirectoryQueue', DirectoryQueue', Own(dir[Main])')
        BY <1>1, <1>9, <1>10, <1>11 DEF c, q
    <2>2. SubDirectoryQueue' \in Seq(Dirs) /\ DirectoryQueue' \in Seq(Dirs)
        BY <1>1, <1>7 DEF q
    <2> QED BY <1>1, <2>1, <2>2, OrderSame
<1>13. AtWork(S, AllLeft[Main], SubDirectoryQueue, dir[Main], Position(Main))'
    <2>1. AtWork(S', AllLeft'[Main], SubDirectoryQueue', dir'[Main], Position(Main)')
        BY <1>1, <1>4, <1>5, <1>9, <1>10 DEF c
    <2>2. dir'[Main] \in Dirs BY <1>2, <1>4
    <2> QED BY <1>1, <2>1, <2>2, OrderSame
<1> QED BY <1>4, <1>12, <1>13 DEF OrderInv, S, Reading

\* With a single thread only the calling one takes steps.
LEMMA SingleSteps ==
    ASSUME IInv, ~threaded, Next
    PROVE  \/ NextDirectory(Main) \/ EndDirectory(Main) \/ QueryDirectory(Main)
           \/ BeginCall(Main) \/ CallReturns(Main) \/ OpenDirectory(Main) \/ Entry(Main)
           \/ EntryFails(Main) \/ NoMoreEntries(Main) \/ WaitForWorkers \/ Cleanup
<1>1. ASSUME NEW t \in Threads, Step(t) PROVE t = Main
    <2>1. pc[t] # None
        BY <1>1 DEF Step, NextDirectory, EndDirectory, QueryDirectory, BeginCall, CallReturns,
                    OpenDirectory, Entry, EntryFails, NoMoreEntries, WorkerRequired, CreateWorker,
                    StartWorker, UndoWorker, None
    <2> QED BY <2>1, Single
<1>2. ASSUME NEW w \in Workers, ReleaseWorker(w) \/ UnlockWorker(w) PROVE FALSE
    BY <1>2, Single, ThreadsFinite DEF ReleaseWorker, UnlockWorker, None, Threads
<1>3. Step(Main) \/ WaitForWorkers \/ Cleanup
    BY <1>1, <1>2, ThreadsFinite DEF Next, MainStep, WorkerStep, Threads
<1>4. ~WorkerRequired(Main) /\ ~CreateWorker(Main) /\ ~StartWorker(Main) /\ ~UndoWorker(Main)
    BY Single DEF WorkerRequired, CreateWorker, StartWorker, UndoWorker
<1> QED BY <1>3, <1>4 DEF Step

LEMMA OrderInductive ==
    IInv /\ TreeInv /\ TreeInv' /\ OrderInv /\ FailedInv /\ Next => OrderInv' /\ FailedInv'
<1> SUFFICES ASSUME IInv, HandsInv, LookedAt, PartInv, HandsInv', PartInv', OrderInv, FailedInv,
                    Next
             PROVE  OrderInv' /\ FailedInv'
    BY DEF TreeInv
<1>0. UNCHANGED threaded
    BY DEF Next, MainStep, WorkerStep, Step, NextDirectory, EndDirectory, QueryDirectory, BeginCall,
           CallReturns, OpenDirectory, Entry, EntryFails, NoMoreEntries, WorkerRequired,
           CreateWorker, StartWorker, UndoWorker, ReleaseWorker, UnlockWorker, WaitForWorkers,
           Cleanup, options
<1>1. CASE threaded BY <1>0, <1>1 DEF OrderInv, FailedInv
<1>2. CASE ~threaded
    <2>0. pc \in [Threads -> Labels] /\ Main \in Threads BY <1>2, Single
    <2>1. OrderInv'
        <3>1. CASE NextDirectory(Main)
            BY <1>2, <3>1, OrderTakes, OrderLeaves DEF NextDirectory
        <3>2. CASE EndDirectory(Main) BY <1>2, <3>2, OrderEnds
        <3>3. CASE Entry(Main) BY <1>2, <3>3, OrderQueues, OrderStays
        <3>4. CASE \/ QueryDirectory(Main) \/ BeginCall(Main) \/ CallReturns(Main)
                   \/ OpenDirectory(Main) \/ EntryFails(Main) \/ NoMoreEntries(Main)
            BY <1>2, <3>4, OrderStays
        <3>5. CASE WaitForWorkers \/ Cleanup BY <1>2, <3>5, OrderLeaves
        <3> QED BY <1>2, <3>1, <3>2, <3>3, <3>4, <3>5, SingleSteps
    <2>2. FailedInv'
        <3> SUFFICES ASSUME stopped', ~Abort'
                     PROVE  pc'[Main] \in {"fail", "wait", "cleanup", "returned"}
            BY DEF FailedInv
        <3>1. CASE UNCHANGED <<stopped, Abort>>
            <4>1. pc[Main] \in {"fail", "wait", "cleanup", "returned"}
                BY <1>2, <3>1 DEF FailedInv
            <4>2. EndDirectory(Main) \/ WaitForWorkers \/ Cleanup
                BY <1>2, <4>1, SingleSteps
                DEF NextDirectory, QueryDirectory, BeginCall, CallReturns, OpenDirectory, Entry,
                    EntryFails, NoMoreEntries
            <4> QED BY <1>2, <2>0, <4>1, <4>2 DEF EndDirectory, WaitForWorkers, Cleanup, Leave, Goto
        <3>2. CASE QueryDirectory(Main) \/ OpenDirectory(Main) \/ EntryFails(Main)
            <4>1. UNCHANGED Abort BY <3>2 DEF QueryDirectory, OpenDirectory, EntryFails
            <4>2. UNCHANGED stopped \/ Goto(Main, "fail")
                BY <3>2 DEF QueryDirectory, OpenDirectory, EntryFails, Denied, Fails
            <4> QED BY <2>0, <3>1, <4>1, <4>2 DEF Goto
        <3>3. CASE CallReturns(Main)
            BY <3>1, <3>3 DEF CallReturns
        <3>4. CASE WaitForWorkers BY <1>2, <2>0, <3>4 DEF WaitForWorkers, Goto
        <3>5. CASE \/ NextDirectory(Main) \/ EndDirectory(Main) \/ BeginCall(Main) \/ Entry(Main)
                   \/ NoMoreEntries(Main) \/ Cleanup
            BY <3>1, <3>5 DEF NextDirectory, EndDirectory, BeginCall, Entry, NoMoreEntries, Cleanup,
                              logVars
        <3> QED BY <1>2, <3>2, <3>3, <3>4, <3>5, SingleSteps
    <2> QED BY <2>1, <2>2
<1> QED BY <1>1, <1>2

\* Nothing changes while the program does not step.
LEMMA OrderStutters == OrderInv /\ FailedInv /\ HandsInv /\ UNCHANGED vars => OrderInv' /\ FailedInv'
<1> SUFFICES ASSUME OrderInv, FailedInv, HandsInv, UNCHANGED vars PROVE OrderInv' /\ FailedInv'
    OBVIOUS
<1>1. UNCHANGED <<threaded, maxDepth, SubDirectoryQueue, DirectoryQueue, Abort, pc, dir, entry,
                  passed, lost, stopped>>
    BY DEF vars, options, queues, logVars
<1>2. FailedInv' BY <1>1 DEF FailedInv
<1>3. AllLeft[Main]' = AllLeft[Main] BY <1>1, LeftSame, ThreadsFinite
<1>4. Position(Main)' = Position(Main) BY <1>1 DEF Position
<1>5. Own(dir[Main])' = Own(dir[Main]) BY <1>1, SameTree
<1>6. OrderInv' BY <1>1, <1>3, <1>4, <1>5, OrderSame DEF OrderInv
<1> QED BY <1>2, <1>6

\* In an enumeration without threads a directory is passed only after all that
\* its parent holds and all under the directories before it there, but for what
\* cannot be read: SubDirectoryQueue goes in front of DirectoryQueue.
THEOREM DirectoriesInOrder == Spec => TreeOrder
<1> DEFINE OInv == OrderInv /\ FailedInv
           InOrder == \A t \in Threads :
               ~threaded /\ pc[t] = "call" /\ pc'[t] = "calling" /\ entry[t] = 0 =>
                   Before(dir[t]) \subseteq passed \union lost
<1>1. ASSUME IInv, TreeInv, OInv, [Next]_vars PROVE [InOrder]_vars
    <2> SUFFICES ASSUME Next, NEW t \in Threads, ~threaded, pc[t] = "call", pc'[t] = "calling"
                 PROVE  Before(dir[t]) \subseteq passed \union lost
        BY <1>1
    <2>1. t = Main BY <1>1, Single DEF None
    <2>2. BeginCall(Main)
        BY <1>1, <2>1, SingleSteps
        DEF NextDirectory, EndDirectory, QueryDirectory, CallReturns, OpenDirectory, Entry,
            EntryFails, NoMoreEntries, WaitForWorkers, Cleanup
    <2>3. ~Abort
        <3>1. Abort => pc' = [pc EXCEPT ![Main] = "end"] BY <2>2 DEF BeginCall, Goto
        <3> QED BY <1>1, <2>1, <3>1, Single
    <2>4. ~stopped BY <1>1, <2>1, <2>3 DEF FailedInv
    <2> QED BY <1>1, <2>1, <2>4 DEF OrderInv, AtWork, Reading
<1>2. OInv /\ IInv /\ TreeInv /\ TreeInv' /\ [Next]_vars => OInv'
    BY OrderInductive, OrderStutters DEF TreeInv
<1>3. Init => OInv BY OrderInitially
<1>4. Init => TreeInv BY HandsInitially, PartInitially DEF TreeInv
<1>5. Spec => [](IInv /\ TreeInv) /\ [][Next]_vars
    BY <1>4, Initially, Inductive, TreeInductive, PTL DEF Spec
<1>6. Spec => []OInv
    <2> HIDE DEF OInv
    <2> QED BY <1>2, <1>3, <1>5, PTL DEF Spec
<1>7. Spec => [][InOrder]_vars
    <2> HIDE DEF OInv, InOrder
    <2> QED BY <1>1, <1>5, <1>6, PTL
<1> QED BY <1>7 DEF TreeOrder
=============================================================================
