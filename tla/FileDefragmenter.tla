-------------------------- MODULE FileDefragmenter --------------------------
(***************************************************************************)
(* The FileDefragmenter object of CoFrag.Dll/FileFrags.cpp.  Any thread    *)
(* may call DefragmentFile, Cancel or set the callback; the state of the   *)
(* object has a lock of its own, and an update sent to the callback is     *)
(* first written there.                                                    *)
(*                                                                         *)
(* The engine's FpDefragmentFile (module Engine) is seen from its caller:  *)
(* it moves the file to a free range cluster by cluster, reports, and      *)
(* returns.  The progress state and the percentage, which are written with *)
(* the result and decide nothing, are left out.                            *)
(***************************************************************************)
EXTENDS FileExtents

CONSTANTS
    Callers,            \* the threads that call DefragmentFile
    Layouts,            \* what the file may look like at first
    Targets             \* the starts of the ranges that are free

ASSUME FileAssumption == (\A f \in Layouts : IsFile(f)) /\ Targets \subseteq Nat

VARIABLES
    file,               \* the file
    _bAbort, _hResult, _pCallback,
    callAt,             \* callAt[c]: where a call is
    phase,              \* phase[c]: the state its update is about
    callback,           \* callback[c]: whether it has a callback
    hr,                 \* hr[c]: its result
    target,             \* target[c]: the range the engine moves to
    moved,              \* moved[c]: the clusters the engine has gone through
    hit                 \* hit[c]: "cancelled" by Cancel, "noticed" by an update

callVars == <<callAt, phase, callback, hr>>
engineVars == <<target, moved, file>>
defragVars == <<engineVars, _bAbort, _hResult, _pCallback, callVars, hit>>

DefragInit ==
    /\ file \in Layouts
    /\ _bAbort = FALSE /\ _hResult = "pending" /\ _pCallback = FALSE
    /\ callAt = [c \in Callers |-> "idle"] /\ phase = [c \in Callers |-> "inactive"]
    /\ callback = [c \in Callers |-> FALSE] /\ hr = [c \in Callers |-> "ok"]
    /\ target = [c \in Callers |-> 0] /\ moved = [c \in Callers |-> 0]
    /\ hit = [c \in Callers |-> "no"]

Goto(c, l) == callAt' = [callAt EXCEPT ![c] = l]
ToUpdate(c, p) == Goto(c, "update") /\ phase' = [phase EXCEPT ![c] = p]

\* DefragmentFile: the state of the object starts anew, for every caller.
DefragmentFile(c) ==
    /\ callAt[c] = "idle"
    /\ _bAbort' = FALSE
    /\ hit' = [d \in Callers |-> "no"] /\ Goto(c, "callback")
    /\ UNCHANGED <<engineVars, _hResult, _pCallback, phase, callback, hr>>

TakeCallback(c) ==
    /\ callAt[c] = "callback"
    /\ callback' = [callback EXCEPT ![c] = _pCallback]
    /\ ToUpdate(c, "initializing")
    /\ UNCHANGED <<engineVars, _bAbort, _hResult, _pCallback, hr, hit>>

Cancel ==
    /\ _bAbort' = TRUE /\ _hResult' = "cancelled"
    /\ hit' = [c \in Callers |-> IF callAt[c] = "idle" \/ hit[c] # "no" THEN hit[c] ELSE "cancelled"]
    /\ UNCHANGED <<engineVars, _pCallback, callVars>>

put_OnProgressUpdate ==
    /\ _pCallback' \in BOOLEAN
    /\ UNCHANGED <<engineVars, _bAbort, _hResult, callVars, hit>>

-----------------------------------------------------------------------------
(* _FireProgressUpdate.                                                    *)

\* What an update reports as the result.
Code(c) == CASE phase[c] = "initializing" -> "pending"
             [] phase[c] = "defragmenting" -> "ok"
             [] phase[c] = "completed" -> hr[c]

\* The update is done with result r: a failure ends the call or the engine, but
\* for the last update.
UpdateReturns(c, r) ==
    \/ /\ phase[c] = "initializing"
       /\ IF r = "ok" THEN Goto(c, "open") ELSE Goto(c, "return")
       /\ hr' = [hr EXCEPT ![c] = r] /\ UNCHANGED phase
    \/ /\ phase[c] = "defragmenting"
       /\ IF r = "ok" THEN Goto(c, "engine") /\ UNCHANGED <<phase, hr>>
          ELSE ToUpdate(c, "completed") /\ hr' = [hr EXCEPT ![c] = r]
    \/ /\ phase[c] = "completed" /\ Goto(c, "return") /\ UNCHANGED <<phase, hr>>

Noticed(c) ==
    IF hit[c] = "cancelled" /\ phase[c] # "completed" THEN [hit EXCEPT ![c] = "noticed"] ELSE hit

\* Mutant of FireProgressUpdate: the result is written before the test.
FireProgressUpdateFirst(c) ==
    /\ callAt[c] = "update"
    /\ _hResult' = Code(c) /\ hit' = Noticed(c)
    /\ IF _bAbort THEN UpdateReturns(c, "abort")
       ELSE IF callback[c] THEN Goto(c, "call") /\ UNCHANGED <<phase, hr>>
       ELSE UpdateReturns(c, "ok")
    /\ UNCHANGED <<engineVars, _bAbort, _pCallback, callback>>

\* In the lock: the result is stored, or that the call was cancelled.
FireProgressUpdate(c) ==
    /\ callAt[c] = "update"
    /\ _hResult' = (IF _bAbort THEN "abort" ELSE Code(c)) /\ hit' = Noticed(c)
    /\ IF _hResult' = "abort" THEN UpdateReturns(c, "abort")
       ELSE IF callback[c] THEN Goto(c, "call") /\ UNCHANGED <<phase, hr>>
       ELSE UpdateReturns(c, "ok")
    /\ UNCHANGED <<engineVars, _bAbort, _pCallback, callback>>

\* Without the lock: a cancel that came since then keeps the callback from being
\* called, and is left to the next update.
CallSink(c) ==
    /\ callAt[c] = "call"
    /\ IF _bAbort THEN UpdateReturns(c, "ok") ELSE Goto(c, "calling") /\ UNCHANGED <<phase, hr>>
    /\ UNCHANGED <<engineVars, _bAbort, _hResult, _pCallback, callback, hit>>

SinkReturns(c) ==
    /\ callAt[c] = "calling"
    /\ \/ UpdateReturns(c, "ok")
       \/ UpdateReturns(c, "failed")
       \/ Goto(c, "abort") /\ UNCHANGED <<phase, hr>>
    /\ UNCHANGED <<engineVars, _bAbort, _hResult, _pCallback, callback, hit>>

SinkCancels(c) ==
    /\ callAt[c] = "abort"
    /\ _bAbort' = TRUE /\ UpdateReturns(c, "abort")
    /\ UNCHANGED <<engineVars, _hResult, _pCallback, callback, hit>>

-----------------------------------------------------------------------------
(* _DefragmentFileWorker and the engine.                                   *)

FileClusters == {file[v] : v \in Physical(file)}
ClustersAt(t) == t .. t + Cardinality(DOMAIN file) - 1

\* The file cannot be opened; or it has one fragment; or the engine starts.
OpenContext(c) ==
    /\ callAt[c] = "open"
    /\ \/ /\ Goto(c, "return") /\ hr' = [hr EXCEPT ![c] = "failed"]
          /\ UNCHANGED <<phase, target, moved>>
       \/ /\ \E x \in ExtentLists(file) : Len(FpiCreateFragCtx(x, FALSE).fragments) <= 1
          /\ ToUpdate(c, "completed") /\ UNCHANGED <<hr, target, moved>>
       \/ /\ \E x \in ExtentLists(file) : Len(FpiCreateFragCtx(x, FALSE).fragments) > 1
          /\ \E t \in Targets : /\ ClustersAt(t) \intersect FileClusters = {}
                                /\ target' = [target EXCEPT ![c] = t]
          /\ moved' = [moved EXCEPT ![c] = 0]
          /\ ToUpdate(c, "defragmenting") /\ UNCHANGED hr
    /\ UNCHANGED <<file, _bAbort, _hResult, _pCallback, callback, hit>>

\* The next cluster is moved and, when one is due, a report made, which
\* _DefragmentFileRoutine passes on if the percentage has grown or a second
\* has gone by.
MoveCluster(c) ==
    /\ callAt[c] = "engine" /\ moved[c] \in DOMAIN file
    /\ LET v == moved[c]
           lcn == target[c] + Cardinality({u \in Physical(file) : u < v})
       IN  IF file[v] = Virtual THEN UNCHANGED file
           ELSE lcn \notin FileClusters /\ file' = [file EXCEPT ![v] = lcn]
    /\ moved' = [moved EXCEPT ![c] = @ + 1]
    /\ callAt' \in {callAt, [callAt EXCEPT ![c] = "update"]}
    /\ UNCHANGED <<target, _bAbort, _hResult, _pCallback, phase, callback, hr, hit>>

\* The engine returns: all is moved, or it failed.
EngineReturns(c) ==
    /\ callAt[c] = "engine"
    /\ ToUpdate(c, "completed")
    /\ \/ moved[c] \notin DOMAIN file /\ hr' = [hr EXCEPT ![c] = "ok"]
       \/ hr' = [hr EXCEPT ![c] = "failed"]
    /\ UNCHANGED <<engineVars, _bAbort, _hResult, _pCallback, callback, hit>>

DefragmentFileReturns(c) ==
    /\ callAt[c] = "return" /\ Goto(c, "idle")
    /\ hr' = [hr EXCEPT ![c] = "ok"] /\ phase' = [phase EXCEPT ![c] = "inactive"]
    /\ callback' = [callback EXCEPT ![c] = FALSE]
    /\ target' = [target EXCEPT ![c] = 0] /\ moved' = [moved EXCEPT ![c] = 0]
    /\ hit' = [hit EXCEPT ![c] = "no"]
    /\ UNCHANGED <<file, _bAbort, _hResult, _pCallback>>

DefragNext ==
    \/ Cancel \/ put_OnProgressUpdate
    \/ \E c \in Callers :
          \/ DefragmentFile(c) \/ TakeCallback(c) \/ FireProgressUpdate(c) \/ CallSink(c)
          \/ SinkReturns(c) \/ SinkCancels(c) \/ OpenContext(c) \/ MoveCluster(c)
          \/ EngineReturns(c) \/ DefragmentFileReturns(c)

-----------------------------------------------------------------------------
\* Once Cancel has been called within a DefragmentFile, and no other call has
\* started the state anew, the result code says so, whatever update was being
\* made; and if one was made since, before the last, DefragmentFile fails.
CancelAnswered ==
    \A c \in Callers :
        /\ hit[c] # "no" => _bAbort /\ _hResult \in {"cancelled", "abort"}
        /\ hit[c] = "noticed" /\ callAt[c] = "return" => hr[c] # "ok"
=============================================================================
