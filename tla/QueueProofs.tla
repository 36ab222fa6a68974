---------------------------- MODULE QueueProofs ----------------------------
(***************************************************************************)
(* The queue manager and the queue it works on.                            *)
(*                                                                         *)
(* TaskManager, for any number of files and directories: no wake-up is     *)
(* lost and a paused engine can be resumed; every record has one owner;    *)
(* and the dialog is told of each file in order, and of its end once.      *)
(*                                                                         *)
(* FragQue, for any number of processes and files, any hash, and any       *)
(* number of calls and failures: the contexts count their users, the queue *)
(* holds what was asked for last, a client is told of every record, and at *)
(* most once after it has unregistered.                                    *)
(***************************************************************************)
EXTENDS TaskManager, FragQue, TLAPS

-----------------------------------------------------------------------------
(* The task manager: wake-ups.                                             *)

\* Once the dialog has seen the defrag thread's end, that thread has ended.
JoinedExited == uiAt \in {"empty", "finish", "closed"} => dAt = "exited"

\* A flush runs inside the message of a defrag thread that waits for its answer,
\* in a window that is there.
FlushAnswers ==
    /\ uiAt \in {"flush", "flushing", "asleep"} => dAt = "sent"
    /\ ~window => uiAt \in {"terminate", "resume0", "setSuspend", "setDefrag",
                            "join", "empty", "finish", "closed"}

\* The switches these arguments rest on are Booleans.
Switches ==
    /\ bSuspend \in BOOLEAN /\ controls \in BOOLEAN
    /\ defragSignal \in BOOLEAN /\ enumSignal \in BOOLEAN /\ window \in BOOLEAN

Inv == Switches /\ JoinedExited /\ FlushAnswers /\ NoLostWakeup /\ PausedCanResume

LEMMA InitInv == Init => Inv
BY DEF Init, Inv, Switches, JoinedExited, FlushAnswers, NoLostWakeup, PausedCanResume

LEMMA DefragStep == ASSUME Inv, DefragThread PROVE Inv'
<1> USE DEF Inv, Switches, JoinedExited, FlushAnswers, NoLostWakeup, PausedCanResume,
            recordVars, signalVars, suspendVars, engineVars, dlgVars, eVars, dVars,
            DefragGoto, Terminating
<1>1. CASE DefragWake BY <1>1 DEF DefragWake
<1>2. CASE DefragDrain BY <1>2 DEF DefragDrain
<1>3. CASE Connect BY <1>3 DEF Connect
<1>4. CASE ConnectFails BY <1>4 DEF ConnectFails
<1>5. CASE DefragPop BY <1>5 DEF DefragPop
<1>6. CASE DefragPost BY <1>6 DEF DefragPost, WaitAndSend, SendUpdate
<1>7. CASE DefragResumed BY <1>7 DEF DefragResumed, SendUpdate
<1>8. CASE DefragSendLost BY <1>8 DEF DefragSendLost
<1>9. CASE Retry BY <1>9 DEF Retry, WaitAndSend, SendUpdate
<1>10. CASE Initialized BY <1>10 DEF Initialized, Abandon, PostCompleted
<1>11. CASE ServiceUpdates BY <1>11 DEF ServiceUpdates
<1>12. CASE Updated BY <1>12 DEF Updated
<1>13. CASE ServiceReturns BY <1>13 DEF ServiceReturns, Abandon, PostCompleted
<1>14. CASE RouteToEnum BY <1>14 DEF RouteToEnum
<1>15. CASE RouteDestroy BY <1>15 DEF RouteDestroy, AfterRecord
<1>16. CASE SignalEnum BY <1>16 DEF SignalEnum, AfterRecord
<1>17. CASE DefragPause BY <1>17 DEF DefragPause
<1>18. CASE DefragDelay BY <1>18 DEF DefragDelay
<1> QED BY <1>1, <1>2, <1>3, <1>4, <1>5, <1>6, <1>7, <1>8, <1>9, <1>10, <1>11,
           <1>12, <1>13, <1>14, <1>15, <1>16, <1>17, <1>18 DEF DefragThread

LEMMA EnumStep == ASSUME Inv, EnumThread PROVE Inv'
<1> USE DEF Inv, Switches, JoinedExited, FlushAnswers, NoLostWakeup, PausedCanResume,
            recordVars, signalVars, suspendVars, engineVars, dlgVars, eVars, dVars,
            EnumGoto, Running, Terminating
<1>1. CASE EnumWake BY <1>1 DEF EnumWake
<1>2. CASE EnumPop BY <1>2 DEF EnumPop
<1>3. CASE EnumFind BY <1>3 DEF EnumFind
<1>4. CASE EnumSignal BY <1>4 DEF EnumSignal
<1>5. CASE EnumSendLost BY <1>5 DEF EnumSendLost
<1>6. CASE EnumDone BY <1>6 DEF EnumDone
<1>7. CASE EnumPause BY <1>7 DEF EnumPause
<1>8. CASE EnumResumed BY <1>8 DEF EnumResumed
<1> QED BY <1>1, <1>2, <1>3, <1>4, <1>5, <1>6, <1>7, <1>8 DEF EnumThread

LEMMA UserStep == ASSUME Inv, User PROVE Inv'
<1> USE DEF Inv, Switches, JoinedExited, FlushAnswers, NoLostWakeup, PausedCanResume,
            recordVars, signalVars, suspendVars, engineVars, dlgVars, eVars, dVars,
            Terminating
<1>1. CASE Insert BY <1>1 DEF Insert
<1>2. CASE Pause BY <1>2 DEF Pause
<1>3. CASE ResumeClick BY <1>3 DEF ResumeClick
<1>4. CASE Cancel BY <1>4 DEF Cancel
<1>5. CASE CloseDialog BY <1>5 DEF CloseDialog
<1> QED BY <1>1, <1>2, <1>3, <1>4, <1>5 DEF User

LEMMA DialogStep == ASSUME Inv, Dialog PROVE Inv'
<1> USE DEF Inv, Switches, JoinedExited, FlushAnswers, NoLostWakeup, PausedCanResume,
            recordVars, signalVars, suspendVars, engineVars, dlgVars, eVars, dVars,
            Terminating, Answer, EnumGoto, CountInserted, DisableControls
<1>1. CASE InsertSignal BY <1>1 DEF InsertSignal
<1>2. CASE PauseReset BY <1>2 DEF PauseReset
<1>3. CASE ResumeSet BY <1>3 DEF ResumeSet
<1>4. CASE TakeInitializing BY <1>4 DEF TakeInitializing
<1>5. CASE TakeProgress BY <1>5 DEF TakeProgress
<1>6. CASE TakeCompleted BY <1>6 DEF TakeCompleted
<1>7. CASE TakeInserted BY <1>7 DEF TakeInserted
<1>8. CASE FlushInitializing BY <1>8 DEF FlushInitializing
<1>9. CASE FlushCompleted BY <1>9 DEF FlushCompleted
<1>10. CASE FlushEnd BY <1>10 DEF FlushEnd
<1>11. CASE Unhook BY <1>11 DEF Unhook
<1>12. CASE PeekUpdates BY <1>12 DEF PeekUpdates
<1>13. CASE DestroyDialog BY <1>13 DEF DestroyDialog
<1>14. CASE Terminate BY <1>14 DEF Terminate
<1>15. CASE TerminateResume BY <1>15 DEF TerminateResume
<1>16. CASE TerminateSetSuspend BY <1>16 DEF TerminateSetSuspend
<1>17. CASE TerminateSetDefrag BY <1>17 DEF TerminateSetDefrag
<1>18. CASE TerminateJoin BY <1>18 DEF TerminateJoin
<1>19. CASE TerminateFlush BY <1>19 DEF TerminateFlush
<1>20. CASE TerminateFinish BY <1>20 DEF TerminateFinish
<1> QED BY <1>1, <1>2, <1>3, <1>4, <1>5, <1>6, <1>7, <1>8, <1>9, <1>10, <1>11,
           <1>12, <1>13, <1>14, <1>15, <1>16, <1>17, <1>18, <1>19, <1>20 DEF Dialog

LEMMA StutterStep == ASSUME Inv, UNCHANGED vars PROVE Inv'
BY DEF Inv, Switches, JoinedExited, FlushAnswers, NoLostWakeup, PausedCanResume, vars, Terminating,
       recordVars, signalVars, suspendVars, engineVars, dlgVars, eVars, dVars

LEMMA InvInvariance == Spec => []Inv
<1>1. Inv /\ [Next]_vars => Inv'
    BY DefragStep, EnumStep, UserStep, DialogStep, StutterStep DEF Next
<1> QED BY <1>1, InitInv, PTL DEF Spec

\* A thread that waits beside work has been signaled or is about to be, for any
\* number of files and directories (the two handlers of TaskMgr.cpp).
THEOREM WakeupsArrive == Spec => []NoLostWakeup
<1>1. Inv => NoLostWakeup BY DEF Inv
<1> QED BY <1>1, InvInvariance, PTL

\* The button that resumes a paused engine is never disabled (TaskDlg2.cpp).
THEOREM ResumeStaysPossible == Spec => []PausedCanResume
<1>1. Inv => PausedCanResume BY DEF Inv
<1> QED BY <1>1, InvInvariance, PTL

-----------------------------------------------------------------------------
(* Queues of records.                                                      *)

\* A record put at the end of a queue that does not hold it.
LEMMA Appended ==
    ASSUME NEW S, NEW s \in Seq(S), NEW r \in S
    PROVE  /\ Append(s, r) \in Seq(S)
           /\ ToSet(Append(s, r)) = ToSet(s) \union {r}
           /\ IsInjective(s) /\ r \notin ToSet(s) => IsInjective(Append(s, r))
<1> DEFINE t == Append(s, r)
<1>1. /\ t \in Seq(S) /\ DOMAIN t = 1..Len(s) + 1 /\ DOMAIN s = 1..Len(s) /\ Len(s) \in Nat
      /\ \A i \in 1..Len(s) : t[i] = s[i]
      /\ t[Len(s) + 1] = r
    OBVIOUS
<1> HIDE DEF t
<1>2. ToSet(t) = ToSet(s) \union {r} BY <1>1 DEF ToSet
<1>3. IsInjective(s) /\ r \notin ToSet(s) => IsInjective(t)
    BY <1>1 DEF ToSet, IsInjective
<1> QED BY <1>1, <1>2, <1>3 DEF t

\* The record at the head of a queue taken off it.
LEMMA TakenOff ==
    ASSUME NEW S, NEW s \in Seq(S), s # <<>>
    PROVE  /\ Head(s) \in S /\ Tail(s) \in Seq(S)
           /\ ToSet(s) = ToSet(Tail(s)) \union {Head(s)}
           /\ IsInjective(s) => IsInjective(Tail(s)) /\ Head(s) \notin ToSet(Tail(s))
<1> DEFINE t == Tail(s)  h == Head(s)
<1>1. /\ h \in S /\ t \in Seq(S) /\ DOMAIN s = 1..Len(s) /\ DOMAIN t = 1..Len(s) - 1
      /\ Len(s) \in Nat \ {0} /\ h = s[1]
      /\ \A i \in 1..Len(s) - 1 : t[i] = s[i + 1]
    OBVIOUS
<1> HIDE DEF t, h
<1>2. ToSet(t) \union {h} \subseteq ToSet(s) BY <1>1 DEF ToSet
<1>3. ASSUME NEW x \in ToSet(s) PROVE x \in ToSet(t) \union {h}
    <2>1. PICK i \in 1..Len(s) : x = s[i] BY <1>1 DEF ToSet
    <2>2. CASE i = 1 BY <2>1, <2>2, <1>1
    <2>3. CASE i # 1
        <3>1. i - 1 \in 1..Len(s) - 1 /\ t[i - 1] = x BY <2>1, <2>3, <1>1
        <3> QED BY <3>1, <1>1 DEF ToSet
    <2> QED BY <2>2, <2>3
<1>4. \A i \in DOMAIN t : i + 1 \in DOMAIN s /\ t[i] = s[i + 1] /\ i + 1 # 1
    BY <1>1
<1>5. 1 \in DOMAIN s BY <1>1
<1>6. ASSUME IsInjective(s) PROVE h \notin ToSet(t)
    BY <1>1, <1>4, <1>5, <1>6 DEF ToSet, IsInjective
<1>7. ASSUME IsInjective(s) PROVE IsInjective(t)
    BY <1>1, <1>4, <1>7 DEF IsInjective
<1> QED BY <1>1, <1>2, <1>3, <1>6, <1>7 DEF t, h

\* Two queues one after the other.
LEMMA Joined ==
    ASSUME NEW S, NEW s \in Seq(S), NEW t \in Seq(S)
    PROVE  /\ s \o t \in Seq(S)
           /\ ToSet(s \o t) = ToSet(s) \union ToSet(t)
           /\ IsInjective(s) /\ IsInjective(t) /\ ToSet(s) \intersect ToSet(t) = {}
                  => IsInjective(s \o t)
<1> DEFINE u == s \o t
<1>1. /\ u \in Seq(S) /\ DOMAIN u = 1..Len(s) + Len(t)
      /\ DOMAIN s = 1..Len(s) /\ DOMAIN t = 1..Len(t) /\ Len(s) \in Nat /\ Len(t) \in Nat
      /\ \A i \in DOMAIN u : u[i] = IF i <= Len(s) THEN s[i] ELSE t[i - Len(s)]
    OBVIOUS
<1> HIDE DEF u
<1>2. ASSUME NEW i \in DOMAIN s PROVE i \in DOMAIN u /\ u[i] = s[i] BY <1>1
<1>3. ASSUME NEW i \in DOMAIN t PROVE i + Len(s) \in DOMAIN u /\ u[i + Len(s)] = t[i]
    BY <1>1
<1>4. ASSUME NEW i \in DOMAIN u, ~ i <= Len(s) PROVE i - Len(s) \in DOMAIN t /\ u[i] = t[i - Len(s)]
    BY <1>1, <1>4
<1>5. ToSet(s) \union ToSet(t) \subseteq ToSet(u) BY <1>2, <1>3 DEF ToSet
<1>6. ToSet(u) \subseteq ToSet(s) \union ToSet(t) BY <1>1, <1>4 DEF ToSet
<1>7. ASSUME IsInjective(s), IsInjective(t), ToSet(s) \intersect ToSet(t) = {}
      PROVE  IsInjective(u)
    <2> SUFFICES ASSUME NEW i \in DOMAIN u, NEW j \in DOMAIN u, u[i] = u[j] PROVE i = j
        BY DEF IsInjective
    <2>1. CASE i <= Len(s) /\ j <= Len(s)
        BY <2>1, <1>1, <1>7 DEF IsInjective
    <2>2. CASE ~ i <= Len(s) /\ ~ j <= Len(s)
        <3>1. i - Len(s) = j - Len(s) BY <2>2, <1>4, <1>7 DEF IsInjective
        <3> QED BY <3>1, <1>1
    <2>3. CASE i <= Len(s) /\ ~ j <= Len(s)
        <3>1. u[i] \in ToSet(s) /\ u[j] \in ToSet(t) BY <2>3, <1>1, <1>4 DEF ToSet
        <3> QED BY <3>1, <1>7
    <2>4. CASE ~ i <= Len(s) /\ j <= Len(s)
        <3>1. u[j] \in ToSet(s) /\ u[i] \in ToSet(t) BY <2>4, <1>1, <1>4 DEF ToSet
        <3> QED BY <3>1, <1>7
    <2> QED BY <2>1, <2>2, <2>3, <2>4
<1> QED BY <1>1, <1>5, <1>6, <1>7 DEF u
\* A queue holds what it is a queue of, and an empty one nothing.
LEMMA Contents ==
    ASSUME NEW S, NEW s \in Seq(S)
    PROVE  /\ ToSet(s) \subseteq S /\ <<>> \in Seq(S)
           /\ ToSet(<<>>) = {} /\ IsInjective(<<>>)
BY DEF ToSet, IsInjective

-----------------------------------------------------------------------------
(* Types, and which thread has a record when.                              *)

\* The other switches are Booleans too.
OtherSwitches ==
    /\ suspendEvent \in BOOLEAN /\ suspendRequested \in BOOLEAN
    /\ hooked \in BOOLEAN /\ shutdown \in BOOLEAN
    /\ bCancel \in BOOLEAN /\ bCancelAll \in BOOLEAN
    /\ dMultiple \in BOOLEAN /\ eMultiple \in BOOLEAN

\* Where the threads are and what they carry.
Places ==
    /\ dwState \in {"initialized", "terminating", "uninitialized"}
    /\ dAt \in DefragPCs /\ dCode \in Codes /\ dResult \in Results
    /\ eAt \in EnumPCs /\ uiAt \in DialogPCs

\* What the records' places hold.
RecordTypes ==
    /\ queue \in Seq(Records) /\ dirQueue \in Seq(Dirs) /\ flushing \in Seq(Records)
    /\ cur \in Records \union {NoRecord} /\ dirCur \in Dirs \union {NoRecord}
    /\ freed \subseteq Records
    /\ log \in [Records -> {"none"} \union Codes]

Using == {"post", "sleep", "sent", "answered", "service"}
Flushes == {"flush", "flushing", "asleep"}

\* A thread has a record exactly while it works on it, and a flush has records
\* only inside the dialog's message.
HeldWhileUsed ==
    /\ cur # NoRecord <=> dAt \in Using
    /\ dirCur # NoRecord <=> eAt \in {"enum", "signal", "sent"}
    /\ flushing # <<>> => uiAt \in Flushes
    /\ uiAt = "flushing" => flushing # <<>>

LEMMA Comparisons == (Len(queue) > 1) \in BOOLEAN /\ (Len(dirQueue) > 1) \in BOOLEAN
OBVIOUS

LEMMA Heads ==
    ASSUME RecordTypes
    PROVE  /\ queue # <<>> => Head(queue) \in Records
           /\ dirQueue # <<>> => Head(dirQueue) \in Dirs
           /\ flushing # <<>> => Head(flushing) \in Records
           /\ NoRecord \notin Records /\ Dirs \subseteq Records
BY TakenOff, RecordsAssumption DEF RecordTypes, Records

LEMMA SwitchesDefrag == ASSUME OtherSwitches, DefragThread PROVE OtherSwitches'
<1> USE DEF OtherSwitches, recordVars, signalVars, suspendVars, engineVars,
            dlgVars, dVars, eVars, DefragGoto, Terminating
<1>1. CASE DefragWake BY <1>1 DEF DefragWake
<1>2. CASE DefragDrain BY <1>2 DEF DefragDrain
<1>3. CASE Connect BY <1>3 DEF Connect
<1>4. CASE ConnectFails BY <1>4 DEF ConnectFails
<1>5. CASE DefragPop
    <2>1. dMultiple' = dMultiple \/ dMultiple' = (Len(queue) > 1)
        BY <1>5 DEF DefragPop
    <2> QED BY <2>1, <1>5, Comparisons, Zenon DEF DefragPop
<1>6. CASE DefragPost BY <1>6 DEF DefragPost, WaitAndSend, SendUpdate
<1>7. CASE DefragResumed BY <1>7 DEF DefragResumed, SendUpdate
<1>8. CASE DefragSendLost BY <1>8 DEF DefragSendLost
<1>9. CASE Retry BY <1>9 DEF Retry, WaitAndSend, SendUpdate
<1>10. CASE Initialized BY <1>10 DEF Initialized, Abandon, PostCompleted
<1>11. CASE ServiceUpdates BY <1>11 DEF ServiceUpdates
<1>12. CASE Updated BY <1>12 DEF Updated
<1>13. CASE ServiceReturns BY <1>13 DEF ServiceReturns, Abandon, PostCompleted
<1>14. CASE RouteToEnum BY <1>14 DEF RouteToEnum
<1>15. CASE RouteDestroy BY <1>15 DEF RouteDestroy, AfterRecord
<1>16. CASE SignalEnum BY <1>16 DEF SignalEnum, AfterRecord
<1>17. CASE DefragPause BY <1>17 DEF DefragPause
<1>18. CASE DefragDelay BY <1>18 DEF DefragDelay
<1> QED BY <1>1, <1>2, <1>3, <1>4, <1>5, <1>6, <1>7, <1>8, <1>9, <1>10, <1>11,
           <1>12, <1>13, <1>14, <1>15, <1>16, <1>17, <1>18 DEF DefragThread

LEMMA SwitchesEnum == ASSUME OtherSwitches, EnumThread PROVE OtherSwitches'
<1> USE DEF OtherSwitches, recordVars, signalVars, suspendVars, engineVars,
            dlgVars, dVars, eVars, EnumGoto, Running, Terminating
<1>1. CASE EnumWake BY <1>1 DEF EnumWake
<1>2. CASE EnumPop
    <2>1. eMultiple' = eMultiple \/ eMultiple' = (Len(dirQueue) > 1)
        BY <1>2 DEF EnumPop
    <2> QED BY <2>1, <1>2, Comparisons, Zenon DEF EnumPop
<1>3. CASE EnumFind BY <1>3 DEF EnumFind
<1>4. CASE EnumSignal BY <1>4 DEF EnumSignal
<1>5. CASE EnumSendLost BY <1>5 DEF EnumSendLost
<1>6. CASE EnumDone BY <1>6 DEF EnumDone
<1>7. CASE EnumPause BY <1>7 DEF EnumPause
<1>8. CASE EnumResumed BY <1>8 DEF EnumResumed
<1> QED BY <1>1, <1>2, <1>3, <1>4, <1>5, <1>6, <1>7, <1>8 DEF EnumThread

LEMMA SwitchesUser == ASSUME OtherSwitches, User PROVE OtherSwitches'
<1> USE DEF OtherSwitches, recordVars, signalVars, suspendVars, engineVars,
            dlgVars, dVars, eVars, Terminating
<1>1. CASE Insert BY <1>1 DEF Insert
<1>2. CASE Pause BY <1>2 DEF Pause
<1>3. CASE ResumeClick BY <1>3 DEF ResumeClick
<1>4. CASE Cancel BY <1>4 DEF Cancel
<1>5. CASE CloseDialog BY <1>5 DEF CloseDialog
<1> QED BY <1>1, <1>2, <1>3, <1>4, <1>5 DEF User

LEMMA SwitchesDialog == ASSUME OtherSwitches, Dialog PROVE OtherSwitches'
<1> USE DEF OtherSwitches, recordVars, signalVars, suspendVars, engineVars,
            dlgVars, dVars, eVars, EnumGoto, Terminating
<1>1. CASE InsertSignal BY <1>1 DEF InsertSignal, CountInserted, DisableControls
<1>2. CASE PauseReset BY <1>2 DEF PauseReset
<1>3. CASE ResumeSet BY <1>3 DEF ResumeSet
<1>4. CASE TakeInitializing BY <1>4 DEF TakeInitializing, Answer
<1>5. CASE TakeProgress BY <1>5 DEF TakeProgress, Answer
<1>6. CASE TakeCompleted BY <1>6 DEF TakeCompleted, Answer, DisableControls
<1>7. CASE TakeInserted BY <1>7 DEF TakeInserted, CountInserted, DisableControls
<1>8. CASE FlushInitializing BY <1>8 DEF FlushInitializing
<1>9. CASE FlushCompleted BY <1>9 DEF FlushCompleted, DisableControls
<1>10. CASE FlushEnd BY <1>10 DEF FlushEnd, Answer
<1>11. CASE Unhook BY <1>11 DEF Unhook
<1>12. CASE PeekUpdates BY <1>12 DEF PeekUpdates, Answer
<1>13. CASE DestroyDialog BY <1>13 DEF DestroyDialog
<1>14. CASE Terminate BY <1>14 DEF Terminate
<1>15. CASE TerminateResume BY <1>15 DEF TerminateResume
<1>16. CASE TerminateSetSuspend BY <1>16 DEF TerminateSetSuspend
<1>17. CASE TerminateSetDefrag BY <1>17 DEF TerminateSetDefrag
<1>18. CASE TerminateJoin BY <1>18 DEF TerminateJoin
<1>19. CASE TerminateFlush BY <1>19 DEF TerminateFlush
<1>20. CASE TerminateFinish BY <1>20 DEF TerminateFinish
<1> QED BY <1>1, <1>2, <1>3, <1>4, <1>5, <1>6, <1>7, <1>8, <1>9, <1>10, <1>11,
           <1>12, <1>13, <1>14, <1>15, <1>16, <1>17, <1>18, <1>19, <1>20 DEF
           Dialog
\* A step leaves the threads where they can be, with a record if they need one.
LEMMA PlacesDefrag == ASSUME RecordTypes, Places, HeldWhileUsed, FlushAnswers, DefragThread PROVE Places' /\ HeldWhileUsed'
<1> USE DEF Places, HeldWhileUsed, FlushAnswers, Using, Flushes, DefragPCs,
            EnumPCs, DialogPCs, Codes, Results, recordVars, signalVars,
            suspendVars, engineVars, dlgVars, dVars, eVars, DefragGoto,
            Terminating
<1>1. CASE DefragWake BY <1>1 DEF DefragWake
<1>2. CASE DefragDrain BY <1>2 DEF DefragDrain
<1>3. CASE Connect BY <1>3 DEF Connect
<1>4. CASE ConnectFails BY <1>4 DEF ConnectFails
<1>5. CASE DefragPop BY <1>5, Heads DEF DefragPop
<1>6. CASE DefragPost BY <1>6 DEF DefragPost, WaitAndSend, SendUpdate
<1>7. CASE DefragResumed BY <1>7 DEF DefragResumed, SendUpdate
<1>8. CASE DefragSendLost BY <1>8 DEF DefragSendLost
<1>9. CASE Retry BY <1>9 DEF Retry, WaitAndSend, SendUpdate
<1>10. CASE Initialized BY <1>10 DEF Initialized, Abandon, PostCompleted
<1>11. CASE ServiceUpdates BY <1>11 DEF ServiceUpdates
<1>12. CASE Updated BY <1>12 DEF Updated
<1>13. CASE ServiceReturns BY <1>13 DEF ServiceReturns, Abandon, PostCompleted
<1>14. CASE RouteToEnum BY <1>14 DEF RouteToEnum
<1>15. CASE RouteDestroy BY <1>15 DEF RouteDestroy, AfterRecord
<1>16. CASE SignalEnum BY <1>16 DEF SignalEnum, AfterRecord
<1>17. CASE DefragPause BY <1>17 DEF DefragPause
<1>18. CASE DefragDelay BY <1>18 DEF DefragDelay
<1> QED BY <1>1, <1>2, <1>3, <1>4, <1>5, <1>6, <1>7, <1>8, <1>9, <1>10, <1>11,
           <1>12, <1>13, <1>14, <1>15, <1>16, <1>17, <1>18 DEF DefragThread

LEMMA PlacesEnum == ASSUME RecordTypes, Places, HeldWhileUsed, FlushAnswers, EnumThread PROVE Places' /\ HeldWhileUsed'
<1> USE DEF Places, HeldWhileUsed, FlushAnswers, Using, Flushes, DefragPCs,
            EnumPCs, DialogPCs, Codes, Results, recordVars, signalVars,
            suspendVars, engineVars, dlgVars, dVars, eVars, EnumGoto, Running,
            Terminating
<1>1. CASE EnumWake BY <1>1 DEF EnumWake
<1>2. CASE EnumPop BY <1>2, Heads DEF EnumPop
<1>3. CASE EnumFind BY <1>3 DEF EnumFind
<1>4. CASE EnumSignal BY <1>4 DEF EnumSignal
<1>5. CASE EnumSendLost BY <1>5 DEF EnumSendLost
<1>6. CASE EnumDone BY <1>6 DEF EnumDone
<1>7. CASE EnumPause BY <1>7 DEF EnumPause
<1>8. CASE EnumResumed BY <1>8 DEF EnumResumed
<1> QED BY <1>1, <1>2, <1>3, <1>4, <1>5, <1>6, <1>7, <1>8 DEF EnumThread

LEMMA PlacesUser == ASSUME RecordTypes, Places, HeldWhileUsed, FlushAnswers, User PROVE Places' /\ HeldWhileUsed'
<1> USE DEF Places, HeldWhileUsed, FlushAnswers, Using, Flushes, DefragPCs,
            EnumPCs, DialogPCs, Codes, Results, recordVars, signalVars,
            suspendVars, engineVars, dlgVars, dVars, eVars, Terminating
<1>1. CASE Insert BY <1>1 DEF Insert
<1>2. CASE Pause BY <1>2 DEF Pause
<1>3. CASE ResumeClick BY <1>3 DEF ResumeClick
<1>4. CASE Cancel BY <1>4 DEF Cancel
<1>5. CASE CloseDialog BY <1>5 DEF CloseDialog
<1> QED BY <1>1, <1>2, <1>3, <1>4, <1>5 DEF User

LEMMA PlacesDialog == ASSUME RecordTypes, Places, HeldWhileUsed, FlushAnswers, Dialog PROVE Places' /\ HeldWhileUsed'
<1> USE DEF Places, HeldWhileUsed, FlushAnswers, Using, Flushes, DefragPCs,
            EnumPCs, DialogPCs, Codes, Results, recordVars, signalVars,
            suspendVars, engineVars, dlgVars, dVars, eVars, EnumGoto,
            Terminating
<1>1. CASE InsertSignal BY <1>1 DEF InsertSignal, CountInserted, DisableControls
<1>2. CASE PauseReset BY <1>2 DEF PauseReset
<1>3. CASE ResumeSet BY <1>3 DEF ResumeSet
<1>4. CASE TakeInitializing BY <1>4 DEF TakeInitializing, Answer
<1>5. CASE TakeProgress BY <1>5 DEF TakeProgress, Answer
<1>6. CASE TakeCompleted BY <1>6 DEF TakeCompleted, Answer, DisableControls
<1>7. CASE TakeInserted BY <1>7 DEF TakeInserted, CountInserted, DisableControls
<1>8. CASE FlushInitializing BY <1>8 DEF FlushInitializing
<1>9. CASE FlushCompleted BY <1>9 DEF FlushCompleted, DisableControls
<1>10. CASE FlushEnd BY <1>10 DEF FlushEnd, Answer
<1>11. CASE Unhook BY <1>11 DEF Unhook
<1>12. CASE PeekUpdates BY <1>12 DEF PeekUpdates, Answer
<1>13. CASE DestroyDialog BY <1>13 DEF DestroyDialog
<1>14. CASE Terminate BY <1>14 DEF Terminate
<1>15. CASE TerminateResume BY <1>15 DEF TerminateResume
<1>16. CASE TerminateSetSuspend BY <1>16 DEF TerminateSetSuspend
<1>17. CASE TerminateSetDefrag BY <1>17 DEF TerminateSetDefrag
<1>18. CASE TerminateJoin BY <1>18 DEF TerminateJoin
<1>19. CASE TerminateFlush BY <1>19 DEF TerminateFlush
<1>20. CASE TerminateFinish BY <1>20 DEF TerminateFinish
<1> QED BY <1>1, <1>2, <1>3, <1>4, <1>5, <1>6, <1>7, <1>8, <1>9, <1>10, <1>11,
           <1>12, <1>13, <1>14, <1>15, <1>16, <1>17, <1>18, <1>19, <1>20 DEF
           Dialog
LEMMA RecordsDefrag == ASSUME RecordTypes, Places, HeldWhileUsed, DefragThread PROVE RecordTypes'
<1> USE DEF RecordTypes, HeldWhileUsed, Using, Places, Codes, recordVars,
            signalVars, suspendVars, engineVars, dlgVars, dVars, eVars,
            DefragGoto, Terminating
<1>1. CASE DefragWake BY <1>1 DEF DefragWake
<1>2. CASE DefragDrain BY <1>2 DEF DefragDrain
<1>3. CASE Connect BY <1>3 DEF Connect
<1>4. CASE ConnectFails BY <1>4 DEF ConnectFails
<1>5. CASE DefragPop
    <2>1. CASE UNCHANGED <<queue, cur>> BY <1>5, <2>1 DEF DefragPop
    <2>2. CASE queue # <<>> /\ queue' = Tail(queue) /\ cur' = Head(queue)
        <3>1. queue' \in Seq(Records) /\ cur' \in Records BY <2>2, TakenOff
        <3> QED BY <1>5, <3>1 DEF DefragPop
    <2> QED BY <1>5, <2>1, <2>2 DEF DefragPop
<1>6. CASE DefragPost BY <1>6 DEF DefragPost, WaitAndSend, SendUpdate
<1>7. CASE DefragResumed BY <1>7 DEF DefragResumed, SendUpdate
<1>8. CASE DefragSendLost BY <1>8 DEF DefragSendLost
<1>9. CASE Retry BY <1>9 DEF Retry, WaitAndSend, SendUpdate
<1>10. CASE Initialized BY <1>10 DEF Initialized, Abandon, PostCompleted
<1>11. CASE ServiceUpdates BY <1>11 DEF ServiceUpdates
<1>12. CASE Updated BY <1>12 DEF Updated
<1>13. CASE ServiceReturns BY <1>13 DEF ServiceReturns, Abandon, PostCompleted
<1>14. CASE RouteToEnum BY <1>14, Heads, Appended DEF RouteToEnum
<1>15. CASE RouteDestroy BY <1>15 DEF RouteDestroy, AfterRecord
<1>16. CASE SignalEnum BY <1>16 DEF SignalEnum, AfterRecord
<1>17. CASE DefragPause BY <1>17 DEF DefragPause
<1>18. CASE DefragDelay BY <1>18 DEF DefragDelay
<1> QED BY <1>1, <1>2, <1>3, <1>4, <1>5, <1>6, <1>7, <1>8, <1>9, <1>10, <1>11,
           <1>12, <1>13, <1>14, <1>15, <1>16, <1>17, <1>18 DEF DefragThread

LEMMA RecordsEnum == ASSUME RecordTypes, Places, HeldWhileUsed, EnumThread PROVE RecordTypes'
<1> USE DEF RecordTypes, HeldWhileUsed, Using, Places, Codes, recordVars,
            signalVars, suspendVars, engineVars, dlgVars, dVars, eVars,
            EnumGoto, Running, Terminating
<1>1. CASE EnumWake BY <1>1 DEF EnumWake
<1>2. CASE EnumPop
    <2>1. CASE UNCHANGED <<dirQueue, dirCur>> BY <1>2, <2>1 DEF EnumPop
    <2>2. CASE dirQueue # <<>> /\ dirQueue' = Tail(dirQueue) /\ dirCur' = Head(dirQueue)
        <3>1. dirQueue' \in Seq(Dirs) /\ dirCur' \in Dirs BY <2>2, TakenOff
        <3> QED BY <1>2, <3>1 DEF EnumPop
    <2> QED BY <1>2, <2>1, <2>2 DEF EnumPop
<1>3. CASE EnumFind
    <2>1. PICK child \in Children \ Known : queue' = Append(queue, child)
        BY <1>3 DEF EnumFind
    <2>2. queue' \in Seq(Records) BY <2>1, Appended DEF Records
    <2> QED BY <1>3, <2>2 DEF EnumFind
<1>4. CASE EnumSignal BY <1>4 DEF EnumSignal
<1>5. CASE EnumSendLost BY <1>5 DEF EnumSendLost
<1>6. CASE EnumDone BY <1>6, Heads DEF EnumDone
<1>7. CASE EnumPause BY <1>7 DEF EnumPause
<1>8. CASE EnumResumed BY <1>8 DEF EnumResumed
<1> QED BY <1>1, <1>2, <1>3, <1>4, <1>5, <1>6, <1>7, <1>8 DEF EnumThread

LEMMA RecordsUser == ASSUME RecordTypes, Places, HeldWhileUsed, User PROVE RecordTypes'
<1> USE DEF RecordTypes, HeldWhileUsed, Using, Places, Codes, recordVars,
            signalVars, suspendVars, engineVars, dlgVars, dVars, eVars,
            Terminating
<1>1. CASE Insert
    <2>1. PICK r \in (Files \union Dirs) \ Known : queue' = Append(queue, r)
        BY <1>1 DEF Insert
    <2>2. queue' \in Seq(Records) BY <2>1, Appended DEF Records
    <2> QED BY <1>1, <2>2 DEF Insert
<1>2. CASE Pause BY <1>2 DEF Pause
<1>3. CASE ResumeClick BY <1>3 DEF ResumeClick
<1>4. CASE Cancel BY <1>4 DEF Cancel
<1>5. CASE CloseDialog BY <1>5 DEF CloseDialog
<1> QED BY <1>1, <1>2, <1>3, <1>4, <1>5 DEF User

LEMMA RecordsDialog == ASSUME RecordTypes, Places, HeldWhileUsed, Dialog PROVE RecordTypes'
<1> USE DEF RecordTypes, HeldWhileUsed, Using, Places, Codes, recordVars,
            signalVars, suspendVars, engineVars, dlgVars, dVars, eVars,
            EnumGoto, Terminating
<1>1. CASE InsertSignal BY <1>1 DEF InsertSignal, CountInserted, DisableControls
<1>2. CASE PauseReset BY <1>2 DEF PauseReset
<1>3. CASE ResumeSet BY <1>3 DEF ResumeSet
<1>4. CASE TakeInitializing BY <1>4 DEF TakeInitializing, Answer
<1>5. CASE TakeProgress BY <1>5 DEF TakeProgress, Answer
<1>6. CASE TakeCompleted
    <2>1. queue' \in Seq(Records) /\ flushing' \in Seq(Records)
        BY <1>6, Contents DEF TakeCompleted
    <2> QED BY <1>6, <2>1 DEF TakeCompleted, Answer, DisableControls
<1>7. CASE TakeInserted BY <1>7 DEF TakeInserted, CountInserted, DisableControls
<1>8. CASE FlushInitializing BY <1>8 DEF FlushInitializing
<1>9. CASE FlushCompleted
    BY <1>9, Heads, TakenOff DEF FlushCompleted, DisableControls
<1>10. CASE FlushEnd BY <1>10 DEF FlushEnd, Answer
<1>11. CASE Unhook BY <1>11 DEF Unhook
<1>12. CASE PeekUpdates BY <1>12 DEF PeekUpdates, Answer
<1>13. CASE DestroyDialog BY <1>13 DEF DestroyDialog
<1>14. CASE Terminate BY <1>14 DEF Terminate
<1>15. CASE TerminateResume BY <1>15 DEF TerminateResume
<1>16. CASE TerminateSetSuspend BY <1>16 DEF TerminateSetSuspend
<1>17. CASE TerminateSetDefrag BY <1>17 DEF TerminateSetDefrag
<1>18. CASE TerminateJoin BY <1>18 DEF TerminateJoin
<1>19. CASE TerminateFlush
    <2>1. queue' \in Seq(Records) /\ freed' \subseteq Records
        BY <1>19, Contents DEF TerminateFlush
    <2> QED BY <1>19, <2>1 DEF TerminateFlush
<1>20. CASE TerminateFinish BY <1>20 DEF TerminateFinish
<1> QED BY <1>1, <1>2, <1>3, <1>4, <1>5, <1>6, <1>7, <1>8, <1>9, <1>10, <1>11,
           <1>12, <1>13, <1>14, <1>15, <1>16, <1>17, <1>18, <1>19, <1>20 DEF
           Dialog
-----------------------------------------------------------------------------
(* One owner for each record.                                              *)

\* No queue has a record twice, and no record is in two places.
Apart ==
    /\ IsInjective(queue) /\ IsInjective(dirQueue) /\ IsInjective(flushing)
    /\ ToSet(queue) \intersect (ToSet(dirQueue) \union ToSet(flushing) \union freed) = {}
    /\ ToSet(dirQueue) \intersect (ToSet(flushing) \union freed) = {}
    /\ ToSet(flushing) \intersect freed = {}
    /\ {cur, dirCur} \intersect (ToSet(queue) \union ToSet(dirQueue)
                                    \union ToSet(flushing) \union freed) = {}
    /\ cur = dirCur => cur = NoRecord

LEMMA Nowhere ==
    ASSUME RecordTypes
    PROVE  NoRecord \notin ToSet(queue) \union ToSet(dirQueue) \union ToSet(flushing)
                               \union freed
<1>1. ToSet(queue) \subseteq Records /\ ToSet(flushing) \subseteq Records
    BY Contents DEF RecordTypes
<1>2. ToSet(dirQueue) \subseteq Records BY Contents DEF RecordTypes, Records
<1> QED BY <1>1, <1>2, RecordsAssumption DEF RecordTypes

\* The record the defrag thread has is destroyed.
LEMMA Destroyed ==
    ASSUME RecordTypes, Apart, cur # NoRecord, cur' = NoRecord, freed' = freed \union {cur},
           UNCHANGED <<queue, dirQueue, flushing, dirCur>>
    PROVE  Apart'
BY Nowhere DEF Apart

LEMMA ApartDefrag == ASSUME RecordTypes, HeldWhileUsed, Apart, DefragThread PROVE Apart'
<1> USE DEF HeldWhileUsed, Using, Flushes, Apart, recordVars, signalVars,
            suspendVars, engineVars, dlgVars, dVars, eVars, DefragGoto,
            Terminating
<1>1. CASE DefragWake BY <1>1 DEF DefragWake
<1>2. CASE DefragDrain BY <1>2 DEF DefragDrain
<1>3. CASE Connect BY <1>3 DEF Connect
<1>4. CASE ConnectFails BY <1>4 DEF ConnectFails
<1>5. CASE DefragPop
    <2>1. CASE UNCHANGED <<queue, cur>> BY <1>5, <2>1 DEF DefragPop
    <2>2. CASE queue # <<>> /\ queue' = Tail(queue) /\ cur' = Head(queue)
        <3>1. /\ ToSet(queue) = ToSet(queue') \union {cur'}
              /\ IsInjective(queue') /\ cur' \notin ToSet(queue')
            BY <2>2, TakenOff DEF RecordTypes
        <3> QED BY <1>5, <3>1, Nowhere DEF DefragPop
    <2> QED BY <1>5, <2>1, <2>2 DEF DefragPop
<1>6. CASE DefragPost BY <1>6 DEF DefragPost, WaitAndSend, SendUpdate
<1>7. CASE DefragResumed BY <1>7 DEF DefragResumed, SendUpdate
<1>8. CASE DefragSendLost BY <1>8 DEF DefragSendLost
<1>9. CASE Retry BY <1>9 DEF Retry, WaitAndSend, SendUpdate
<1>10. CASE Initialized
    <2>1. CASE UNCHANGED recordVars BY <2>1
    <2>2. CASE Abandon BY <1>10, <2>2, Destroyed DEF Abandon, Initialized
    <2> QED BY <1>10, <2>1, <2>2 DEF Initialized, PostCompleted
<1>11. CASE ServiceUpdates BY <1>11 DEF ServiceUpdates
<1>12. CASE Updated BY <1>12 DEF Updated
<1>13. CASE ServiceReturns
    <2>1. CASE UNCHANGED recordVars BY <2>1
    <2>2. CASE Abandon BY <1>13, <2>2, Destroyed DEF Abandon, ServiceReturns
    <2> QED BY <1>13, <2>1, <2>2 DEF ServiceReturns, PostCompleted
<1>14. CASE RouteToEnum
    <2>1. /\ ToSet(dirQueue') = ToSet(dirQueue) \union {cur}
          /\ IsInjective(dirQueue')
        BY <1>14, Appended DEF RouteToEnum, RecordTypes
    <2> QED BY <1>14, <2>1, Nowhere DEF RouteToEnum
<1>15. CASE RouteDestroy
    BY <1>15, Destroyed DEF RouteDestroy
<1>16. CASE SignalEnum BY <1>16 DEF SignalEnum, AfterRecord
<1>17. CASE DefragPause BY <1>17 DEF DefragPause
<1>18. CASE DefragDelay BY <1>18 DEF DefragDelay
<1> QED BY <1>1, <1>2, <1>3, <1>4, <1>5, <1>6, <1>7, <1>8, <1>9, <1>10, <1>11,
           <1>12, <1>13, <1>14, <1>15, <1>16, <1>17, <1>18 DEF DefragThread

LEMMA ApartEnum == ASSUME RecordTypes, HeldWhileUsed, Apart, EnumThread PROVE Apart'
<1> USE DEF HeldWhileUsed, Using, Flushes, Apart, recordVars, signalVars,
            suspendVars, engineVars, dlgVars, dVars, eVars, EnumGoto, Running,
            Terminating
<1>1. CASE EnumWake BY <1>1 DEF EnumWake
<1>2. CASE EnumPop
    <2>1. CASE UNCHANGED <<dirQueue, dirCur>> BY <1>2, <2>1 DEF EnumPop
    <2>2. CASE dirQueue # <<>> /\ dirQueue' = Tail(dirQueue) /\ dirCur' = Head(dirQueue)
        <3>1. /\ ToSet(dirQueue) = ToSet(dirQueue') \union {dirCur'}
              /\ IsInjective(dirQueue') /\ dirCur' \notin ToSet(dirQueue')
            BY <2>2, TakenOff DEF RecordTypes
        <3> QED BY <1>2, <3>1, Nowhere DEF EnumPop
    <2> QED BY <1>2, <2>1, <2>2 DEF EnumPop
<1>3. CASE EnumFind
    <2>1. PICK child \in Children \ Known : queue' = Append(queue, child)
        BY <1>3 DEF EnumFind
    <2>2. ToSet(queue') = ToSet(queue) \union {child} /\ IsInjective(queue')
        BY <2>1, Appended DEF RecordTypes, Records, Known
    <2> QED BY <1>3, <2>1, <2>2 DEF EnumFind, Known
<1>4. CASE EnumSignal BY <1>4 DEF EnumSignal
<1>5. CASE EnumSendLost BY <1>5 DEF EnumSendLost
<1>6. CASE EnumDone
    BY <1>6, Nowhere DEF EnumDone
<1>7. CASE EnumPause BY <1>7 DEF EnumPause
<1>8. CASE EnumResumed BY <1>8 DEF EnumResumed
<1> QED BY <1>1, <1>2, <1>3, <1>4, <1>5, <1>6, <1>7, <1>8 DEF EnumThread

LEMMA ApartUser == ASSUME RecordTypes, HeldWhileUsed, Apart, User PROVE Apart'
<1> USE DEF HeldWhileUsed, Using, Flushes, Apart, recordVars, signalVars,
            suspendVars, engineVars, dlgVars, dVars, eVars, Terminating
<1>1. CASE Insert
    <2>1. PICK r \in (Files \union Dirs) \ Known : queue' = Append(queue, r)
        BY <1>1 DEF Insert
    <2>2. ToSet(queue') = ToSet(queue) \union {r} /\ IsInjective(queue')
        BY <2>1, Appended DEF RecordTypes, Records, Known
    <2> QED BY <1>1, <2>1, <2>2 DEF Insert, Known
<1>2. CASE Pause BY <1>2 DEF Pause
<1>3. CASE ResumeClick BY <1>3 DEF ResumeClick
<1>4. CASE Cancel BY <1>4 DEF Cancel
<1>5. CASE CloseDialog BY <1>5 DEF CloseDialog
<1> QED BY <1>1, <1>2, <1>3, <1>4, <1>5 DEF User

LEMMA ApartDialog == ASSUME RecordTypes, HeldWhileUsed, Apart, Dialog PROVE Apart'
<1> USE DEF HeldWhileUsed, Using, Flushes, Apart, recordVars, signalVars,
            suspendVars, engineVars, dlgVars, dVars, eVars, EnumGoto,
            Terminating
<1>1. CASE InsertSignal BY <1>1 DEF InsertSignal, CountInserted, DisableControls
<1>2. CASE PauseReset BY <1>2 DEF PauseReset
<1>3. CASE ResumeSet BY <1>3 DEF ResumeSet
<1>4. CASE TakeInitializing BY <1>4 DEF TakeInitializing, Answer
<1>5. CASE TakeProgress BY <1>5 DEF TakeProgress, Answer
<1>6. CASE TakeCompleted
    <2>1. CASE UNCHANGED <<queue, flushing>> BY <1>6, <2>1 DEF TakeCompleted
    <2>2. CASE flushing' = queue /\ queue' = <<>>
        BY <1>6, <2>2, Contents DEF TakeCompleted
    <2> QED BY <1>6, <2>1, <2>2 DEF TakeCompleted
<1>7. CASE TakeInserted BY <1>7 DEF TakeInserted, CountInserted, DisableControls
<1>8. CASE FlushInitializing BY <1>8 DEF FlushInitializing
<1>9. CASE FlushCompleted
    <2>1. /\ ToSet(flushing) = ToSet(flushing') \union {Head(flushing)}
          /\ IsInjective(flushing') /\ Head(flushing) \notin ToSet(flushing')
        BY <1>9, TakenOff DEF RecordTypes, FlushCompleted
    <2> QED BY <1>9, <2>1 DEF FlushCompleted
<1>10. CASE FlushEnd BY <1>10 DEF FlushEnd, Answer
<1>11. CASE Unhook BY <1>11 DEF Unhook
<1>12. CASE PeekUpdates BY <1>12 DEF PeekUpdates, Answer
<1>13. CASE DestroyDialog BY <1>13 DEF DestroyDialog
<1>14. CASE Terminate BY <1>14 DEF Terminate
<1>15. CASE TerminateResume BY <1>15 DEF TerminateResume
<1>16. CASE TerminateSetSuspend BY <1>16 DEF TerminateSetSuspend
<1>17. CASE TerminateSetDefrag BY <1>17 DEF TerminateSetDefrag
<1>18. CASE TerminateJoin BY <1>18 DEF TerminateJoin
<1>19. CASE TerminateFlush
    <2>1. ToSet(queue') = {} /\ IsInjective(queue') BY <1>19, Contents DEF TerminateFlush, RecordTypes
    <2> QED BY <1>19, <2>1 DEF TerminateFlush
<1>20. CASE TerminateFinish BY <1>20 DEF TerminateFinish
<1> QED BY <1>1, <1>2, <1>3, <1>4, <1>5, <1>6, <1>7, <1>8, <1>9, <1>10, <1>11,
           <1>12, <1>13, <1>14, <1>15, <1>16, <1>17, <1>18, <1>19, <1>20 DEF
           Dialog
\* What a thread has taken, as a queue of at most one record.
LEMMA AtMostOne ==
    ASSUME NEW r \in Records \union {NoRecord}, NEW s, s = IF r = NoRecord THEN <<>> ELSE <<r>>
    PROVE  /\ s \in Seq(Records) /\ IsInjective(s)
           /\ ToSet(s) = {r} \ {NoRecord}
<1>1. CASE r = NoRecord
    <2>1. s = <<>> BY <1>1
    <2>2. <<>> \in Seq(Records) OBVIOUS
    <2> QED BY <1>1, <2>1, <2>2, Contents
<1>2. CASE r # NoRecord
    <2>1. s = <<r>> /\ r \in Records /\ DOMAIN s = {1} /\ s[1] = r BY <1>2
    <2> QED BY <2>1, <1>2 DEF ToSet, IsInjective
<1> QED BY <1>1, <1>2

LEMMA OwnedOnce == ASSUME RecordTypes, Apart PROVE RecordsOwnedOnce
<1> DEFINE Taken(r) == IF r = NoRecord THEN <<>> ELSE <<r>>
           s1 == queue \o dirQueue
           s2 == s1 \o flushing
           s3 == s2 \o Taken(cur)
           s4 == s3 \o Taken(dirCur)
           Held(s, S) == s \in Seq(Records) /\ IsInjective(s) /\ ToSet(s) = S
           C == {cur} \ {NoRecord}
           E == {dirCur} \ {NoRecord}
<1>0. /\ queue \in Seq(Records) /\ flushing \in Seq(Records) /\ dirQueue \in Seq(Dirs)
      /\ Dirs \subseteq Records
      /\ cur \in Records \union {NoRecord} /\ dirCur \in Records \union {NoRecord}
    BY DEF RecordTypes, Records
<1>1. dirQueue \in Seq(Records) BY <1>0
<1>2. Held(Taken(cur), C) /\ Held(Taken(dirCur), E) BY <1>0, AtMostOne
<1>3. /\ IsInjective(queue) /\ IsInjective(dirQueue) /\ IsInjective(flushing)
      /\ ToSet(queue) \intersect ToSet(dirQueue) = {}
      /\ (ToSet(queue) \union ToSet(dirQueue)) \intersect ToSet(flushing) = {}
      /\ (ToSet(queue) \union ToSet(dirQueue) \union ToSet(flushing)) \intersect C = {}
      /\ (ToSet(queue) \union ToSet(dirQueue) \union ToSet(flushing) \union C) \intersect E = {}
      /\ (ToSet(queue) \union ToSet(dirQueue) \union ToSet(flushing) \union C \union E)
            \intersect freed = {}
    BY DEF Apart
<1> HIDE DEF Taken, C, E
<1>4. Held(s1, ToSet(queue) \union ToSet(dirQueue)) BY <1>0, <1>1, <1>3, Joined
<1> HIDE DEF s1
<1>5. Held(s2, ToSet(queue) \union ToSet(dirQueue) \union ToSet(flushing))
    BY <1>0, <1>3, <1>4, Joined
<1> HIDE DEF s2
<1>6. Held(s3, ToSet(queue) \union ToSet(dirQueue) \union ToSet(flushing) \union C)
    BY <1>2, <1>3, <1>5, Joined
<1> HIDE DEF s3
<1>7. Held(s4, ToSet(queue) \union ToSet(dirQueue) \union ToSet(flushing) \union C \union E)
    BY <1>2, <1>3, <1>6, Joined
<1>8. IsInjective(s4) /\ ToSet(s4) \intersect freed = {} BY <1>3, <1>7
<1> QED BY <1>8 DEF RecordsOwnedOnce, s1, s2, s3, Taken

-----------------------------------------------------------------------------
(* What the dialog is told.                                                *)

\* Until the dialog shuts down its window and the callbacks are there and the
\* engine is up; an update it answers later than at once is a completion's.
OpenUntilShutdown ==
    /\ ~shutdown <=> uiAt \in Flushes \union {"loop", "insert", "suspend", "resume"}
    /\ ~shutdown => hooked /\ window /\ ~Terminating
    /\ uiAt \in Flushes => dAt = "sent" /\ dCode = "completed"

\* The records the dialog has been told nothing of: those to come and the queued.
Untold == {r \in Records : r \notin Known \/ r \in ToSet(queue)}

\* What the dialog has been told of a record follows from where the record is.
ToldSoFar ==
    ~shutdown =>
      /\ \A r \in Untold : log[r] = "none"
      /\ \A r \in ToSet(flushing) : log[r] =
             IF uiAt = "flushing" /\ r = Head(flushing) THEN "initializing" ELSE "none"
      /\ dAt \in {"post", "sleep", "sent"} =>
             \/ dCode = "initializing" /\ log[cur] = "none"
             \/ dCode # "initializing" /\ log[cur] \in {"initializing", "defragmenting"}
             \/ uiAt \in Flushes
      /\ dAt = "answered" /\ dCode = "initializing"
             => log[cur] = "initializing" /\ dResult = "ok"
      /\ dAt = "answered" /\ dResult = "retry" => dCode = "defragmenting"
      /\ dAt = "service" \/ (dAt = "answered" /\ dCode = "defragmenting")
             => log[cur] \in {"initializing", "defragmenting"}

LEMMA OpenDefrag == ASSUME Places, FlushAnswers, OpenUntilShutdown, DefragThread PROVE OpenUntilShutdown'
<1> USE DEF OpenUntilShutdown, FlushAnswers, Flushes, DialogPCs, recordVars,
            signalVars, suspendVars, engineVars, dlgVars, dVars, eVars,
            DefragGoto, Terminating
<1>1. CASE DefragWake BY <1>1 DEF DefragWake
<1>2. CASE DefragDrain BY <1>2 DEF DefragDrain
<1>3. CASE Connect BY <1>3 DEF Connect
<1>4. CASE ConnectFails BY <1>4 DEF ConnectFails
<1>5. CASE DefragPop BY <1>5 DEF DefragPop
<1>6. CASE DefragPost BY <1>6 DEF DefragPost, WaitAndSend, SendUpdate
<1>7. CASE DefragResumed BY <1>7 DEF DefragResumed, SendUpdate
<1>8. CASE DefragSendLost BY <1>8 DEF DefragSendLost
<1>9. CASE Retry BY <1>9 DEF Retry, WaitAndSend, SendUpdate
<1>10. CASE Initialized BY <1>10 DEF Initialized, Abandon, PostCompleted
<1>11. CASE ServiceUpdates BY <1>11 DEF ServiceUpdates
<1>12. CASE Updated BY <1>12 DEF Updated
<1>13. CASE ServiceReturns BY <1>13 DEF ServiceReturns, Abandon, PostCompleted
<1>14. CASE RouteToEnum BY <1>14 DEF RouteToEnum
<1>15. CASE RouteDestroy BY <1>15 DEF RouteDestroy, AfterRecord
<1>16. CASE SignalEnum BY <1>16 DEF SignalEnum, AfterRecord
<1>17. CASE DefragPause BY <1>17 DEF DefragPause
<1>18. CASE DefragDelay BY <1>18 DEF DefragDelay
<1> QED BY <1>1, <1>2, <1>3, <1>4, <1>5, <1>6, <1>7, <1>8, <1>9, <1>10, <1>11,
           <1>12, <1>13, <1>14, <1>15, <1>16, <1>17, <1>18 DEF DefragThread

LEMMA OpenEnum == ASSUME Places, FlushAnswers, OpenUntilShutdown, EnumThread PROVE OpenUntilShutdown'
<1> USE DEF OpenUntilShutdown, FlushAnswers, Flushes, DialogPCs, recordVars,
            signalVars, suspendVars, engineVars, dlgVars, dVars, eVars,
            EnumGoto, Running, Terminating
<1>1. CASE EnumWake BY <1>1 DEF EnumWake
<1>2. CASE EnumPop BY <1>2 DEF EnumPop
<1>3. CASE EnumFind BY <1>3 DEF EnumFind
<1>4. CASE EnumSignal BY <1>4 DEF EnumSignal
<1>5. CASE EnumSendLost BY <1>5 DEF EnumSendLost
<1>6. CASE EnumDone BY <1>6 DEF EnumDone
<1>7. CASE EnumPause BY <1>7 DEF EnumPause
<1>8. CASE EnumResumed BY <1>8 DEF EnumResumed
<1> QED BY <1>1, <1>2, <1>3, <1>4, <1>5, <1>6, <1>7, <1>8 DEF EnumThread

LEMMA OpenUser == ASSUME Places, FlushAnswers, OpenUntilShutdown, User PROVE OpenUntilShutdown'
<1> USE DEF OpenUntilShutdown, FlushAnswers, Flushes, DialogPCs, recordVars,
            signalVars, suspendVars, engineVars, dlgVars, dVars, eVars,
            Terminating
<1>1. CASE Insert BY <1>1 DEF Insert
<1>2. CASE Pause BY <1>2 DEF Pause
<1>3. CASE ResumeClick BY <1>3 DEF ResumeClick
<1>4. CASE Cancel BY <1>4 DEF Cancel
<1>5. CASE CloseDialog BY <1>5 DEF CloseDialog
<1> QED BY <1>1, <1>2, <1>3, <1>4, <1>5 DEF User

LEMMA OpenDialog == ASSUME Places, FlushAnswers, OpenUntilShutdown, Dialog PROVE OpenUntilShutdown'
<1> USE DEF OpenUntilShutdown, FlushAnswers, Flushes, DialogPCs, recordVars,
            signalVars, suspendVars, engineVars, dlgVars, dVars, eVars,
            EnumGoto, Terminating
<1>1. CASE InsertSignal BY <1>1 DEF InsertSignal, CountInserted, DisableControls
<1>2. CASE PauseReset BY <1>2 DEF PauseReset
<1>3. CASE ResumeSet BY <1>3 DEF ResumeSet
<1>4. CASE TakeInitializing BY <1>4 DEF TakeInitializing, Answer
<1>5. CASE TakeProgress BY <1>5 DEF TakeProgress, Answer
<1>6. CASE TakeCompleted BY <1>6 DEF TakeCompleted, Answer, DisableControls
<1>7. CASE TakeInserted BY <1>7 DEF TakeInserted, CountInserted, DisableControls
<1>8. CASE FlushInitializing BY <1>8 DEF FlushInitializing
<1>9. CASE FlushCompleted BY <1>9 DEF FlushCompleted, DisableControls
<1>10. CASE FlushEnd BY <1>10 DEF FlushEnd, Answer
<1>11. CASE Unhook BY <1>11 DEF Unhook
<1>12. CASE PeekUpdates BY <1>12 DEF PeekUpdates, Answer
<1>13. CASE DestroyDialog BY <1>13 DEF DestroyDialog
<1>14. CASE Terminate BY <1>14 DEF Terminate
<1>15. CASE TerminateResume BY <1>15 DEF TerminateResume
<1>16. CASE TerminateSetSuspend BY <1>16 DEF TerminateSetSuspend
<1>17. CASE TerminateSetDefrag BY <1>17 DEF TerminateSetDefrag
<1>18. CASE TerminateJoin BY <1>18 DEF TerminateJoin
<1>19. CASE TerminateFlush BY <1>19 DEF TerminateFlush
<1>20. CASE TerminateFinish BY <1>20 DEF TerminateFinish
<1> QED BY <1>1, <1>2, <1>3, <1>4, <1>5, <1>6, <1>7, <1>8, <1>9, <1>10, <1>11,
           <1>12, <1>13, <1>14, <1>15, <1>16, <1>17, <1>18, <1>19, <1>20 DEF
           Dialog
\* No step adds to the records the dialog knows nothing of.
LEMMA UntoldDefrag == ASSUME RecordTypes, HeldWhileUsed, DefragThread PROVE Untold' \subseteq Untold
<1> USE DEF Untold, Known, HeldWhileUsed, Using, Flushes, recordVars,
            signalVars, suspendVars, engineVars, dlgVars, dVars, eVars,
            DefragGoto, Terminating
<1>1. CASE DefragWake BY <1>1 DEF DefragWake
<1>2. CASE DefragDrain BY <1>2 DEF DefragDrain
<1>3. CASE Connect BY <1>3 DEF Connect
<1>4. CASE ConnectFails BY <1>4 DEF ConnectFails
<1>5. CASE DefragPop
    <2>1. CASE UNCHANGED <<queue, cur>> BY <1>5, <2>1 DEF DefragPop
    <2>2. CASE queue # <<>> /\ queue' = Tail(queue) /\ cur' = Head(queue)
        <3>1. ToSet(queue) = ToSet(queue') \union {cur'}
            BY <2>2, TakenOff DEF RecordTypes
        <3> QED BY <1>5, <3>1, RecordsAssumption DEF DefragPop
    <2> QED BY <1>5, <2>1, <2>2 DEF DefragPop
<1>6. CASE DefragPost BY <1>6 DEF DefragPost, WaitAndSend, SendUpdate
<1>7. CASE DefragResumed BY <1>7 DEF DefragResumed, SendUpdate
<1>8. CASE DefragSendLost BY <1>8 DEF DefragSendLost
<1>9. CASE Retry BY <1>9 DEF Retry, WaitAndSend, SendUpdate
<1>10. CASE Initialized
    BY <1>10, RecordsAssumption DEF Initialized, Abandon, PostCompleted
<1>11. CASE ServiceUpdates BY <1>11 DEF ServiceUpdates
<1>12. CASE Updated BY <1>12 DEF Updated
<1>13. CASE ServiceReturns
    BY <1>13, RecordsAssumption DEF ServiceReturns, Abandon, PostCompleted
<1>14. CASE RouteToEnum
    <2>1. ToSet(dirQueue') = ToSet(dirQueue) \union {cur}
        BY <1>14, Appended DEF RouteToEnum, RecordTypes
    <2> QED BY <1>14, <2>1 DEF RouteToEnum
<1>15. CASE RouteDestroy
    BY <1>15, RecordsAssumption DEF RouteDestroy, AfterRecord
<1>16. CASE SignalEnum BY <1>16 DEF SignalEnum, AfterRecord
<1>17. CASE DefragPause BY <1>17 DEF DefragPause
<1>18. CASE DefragDelay BY <1>18 DEF DefragDelay
<1> QED BY <1>1, <1>2, <1>3, <1>4, <1>5, <1>6, <1>7, <1>8, <1>9, <1>10, <1>11,
           <1>12, <1>13, <1>14, <1>15, <1>16, <1>17, <1>18 DEF DefragThread

LEMMA UntoldEnum == ASSUME RecordTypes, HeldWhileUsed, EnumThread PROVE Untold' \subseteq Untold
<1> USE DEF Untold, Known, HeldWhileUsed, Using, Flushes, recordVars,
            signalVars, suspendVars, engineVars, dlgVars, dVars, eVars,
            EnumGoto, Running, Terminating
<1>1. CASE EnumWake BY <1>1 DEF EnumWake
<1>2. CASE EnumPop
    <2>1. CASE UNCHANGED <<dirQueue, dirCur>> BY <1>2, <2>1 DEF EnumPop
    <2>2. CASE dirQueue # <<>> /\ dirQueue' = Tail(dirQueue) /\ dirCur' = Head(dirQueue)
        <3>1. ToSet(dirQueue) = ToSet(dirQueue') \union {dirCur'}
            BY <2>2, TakenOff DEF RecordTypes
        <3> QED BY <1>2, <3>1, RecordsAssumption DEF EnumPop
    <2> QED BY <1>2, <2>1, <2>2 DEF EnumPop
<1>3. CASE EnumFind
    <2>1. PICK child \in Children \ Known : queue' = Append(queue, child)
        BY <1>3 DEF EnumFind
    <2>2. ToSet(queue') = ToSet(queue) \union {child}
        BY <2>1, Appended DEF RecordTypes, Records
    <2> QED BY <1>3, <2>1, <2>2 DEF EnumFind
<1>4. CASE EnumSignal BY <1>4 DEF EnumSignal
<1>5. CASE EnumSendLost BY <1>5 DEF EnumSendLost
<1>6. CASE EnumDone BY <1>6, RecordsAssumption DEF EnumDone
<1>7. CASE EnumPause BY <1>7 DEF EnumPause
<1>8. CASE EnumResumed BY <1>8 DEF EnumResumed
<1> QED BY <1>1, <1>2, <1>3, <1>4, <1>5, <1>6, <1>7, <1>8 DEF EnumThread

LEMMA UntoldUser == ASSUME RecordTypes, HeldWhileUsed, User PROVE Untold' \subseteq Untold
<1> USE DEF Untold, Known, HeldWhileUsed, Using, Flushes, recordVars,
            signalVars, suspendVars, engineVars, dlgVars, dVars, eVars,
            Terminating
<1>1. CASE Insert
    <2>1. PICK r \in (Files \union Dirs) \ Known : queue' = Append(queue, r)
        BY <1>1 DEF Insert
    <2>2. ToSet(queue') = ToSet(queue) \union {r}
        BY <2>1, Appended DEF RecordTypes, Records
    <2> QED BY <1>1, <2>1, <2>2 DEF Insert
<1>2. CASE Pause BY <1>2 DEF Pause
<1>3. CASE ResumeClick BY <1>3 DEF ResumeClick
<1>4. CASE Cancel BY <1>4 DEF Cancel
<1>5. CASE CloseDialog BY <1>5 DEF CloseDialog
<1> QED BY <1>1, <1>2, <1>3, <1>4, <1>5 DEF User

LEMMA UntoldDialog == ASSUME RecordTypes, HeldWhileUsed, Dialog PROVE Untold' \subseteq Untold
<1> USE DEF Untold, Known, HeldWhileUsed, Using, Flushes, recordVars,
            signalVars, suspendVars, engineVars, dlgVars, dVars, eVars,
            EnumGoto, Terminating
<1>1. CASE InsertSignal BY <1>1 DEF InsertSignal, CountInserted, DisableControls
<1>2. CASE PauseReset BY <1>2 DEF PauseReset
<1>3. CASE ResumeSet BY <1>3 DEF ResumeSet
<1>4. CASE TakeInitializing BY <1>4 DEF TakeInitializing, Answer
<1>5. CASE TakeProgress BY <1>5 DEF TakeProgress, Answer
<1>6. CASE TakeCompleted
    <2>1. CASE UNCHANGED <<queue, flushing>> BY <1>6, <2>1 DEF TakeCompleted
    <2>2. CASE flushing' = queue /\ queue' = <<>>
        <3>1. ToSet(queue') = {} /\ flushing = <<>> /\ ToSet(flushing) = {}
            BY <1>6, <2>2, Contents DEF TakeCompleted, RecordTypes
        <3> QED BY <1>6, <2>2, <3>1 DEF TakeCompleted
    <2> QED BY <1>6, <2>1, <2>2 DEF TakeCompleted
<1>7. CASE TakeInserted BY <1>7 DEF TakeInserted, CountInserted, DisableControls
<1>8. CASE FlushInitializing BY <1>8 DEF FlushInitializing
<1>9. CASE FlushCompleted
    <2>1. ToSet(flushing) = ToSet(flushing') \union {Head(flushing)}
        BY <1>9, TakenOff DEF RecordTypes, FlushCompleted
    <2> QED BY <1>9, <2>1 DEF FlushCompleted
<1>10. CASE FlushEnd BY <1>10 DEF FlushEnd, Answer
<1>11. CASE Unhook BY <1>11 DEF Unhook
<1>12. CASE PeekUpdates BY <1>12 DEF PeekUpdates, Answer
<1>13. CASE DestroyDialog BY <1>13 DEF DestroyDialog
<1>14. CASE Terminate BY <1>14 DEF Terminate
<1>15. CASE TerminateResume BY <1>15 DEF TerminateResume
<1>16. CASE TerminateSetSuspend BY <1>16 DEF TerminateSetSuspend
<1>17. CASE TerminateSetDefrag BY <1>17 DEF TerminateSetDefrag
<1>18. CASE TerminateJoin BY <1>18 DEF TerminateJoin
<1>19. CASE TerminateFlush
    <2>1. ToSet(queue') = {} BY <1>19, Contents DEF TerminateFlush, RecordTypes
    <2> QED BY <1>19, <2>1 DEF TerminateFlush
<1>20. CASE TerminateFinish BY <1>20 DEF TerminateFinish
<1> QED BY <1>1, <1>2, <1>3, <1>4, <1>5, <1>6, <1>7, <1>8, <1>9, <1>10, <1>11,
           <1>12, <1>13, <1>14, <1>15, <1>16, <1>17, <1>18, <1>19, <1>20 DEF
           Dialog
LEMMA UntoldShrinks == ASSUME RecordTypes, HeldWhileUsed, Next PROVE Untold' \subseteq Untold
BY UntoldDefrag, UntoldEnum, UntoldUser, UntoldDialog DEF Next

\* A record that is being worked on is not one of those.
LEMMA Started ==
    ASSUME RecordTypes, Apart
    PROVE  /\ cur \notin Untold
           /\ \A r \in ToSet(flushing) : r \notin Untold
           /\ cur \notin ToSet(flushing)
BY RecordsAssumption DEF RecordTypes, Apart, Untold, Known

LEMMA ToldDefrag == ASSUME RecordTypes, Places, HeldWhileUsed, Apart, OpenUntilShutdown, ToldSoFar,
       Untold' \subseteq Untold, DefragThread PROVE ToldSoFar'
<1> USE DEF HeldWhileUsed, OpenUntilShutdown, ToldSoFar, Using, Flushes,
            recordVars, signalVars, suspendVars, engineVars, dlgVars, dVars,
            eVars, DefragGoto, Terminating
<1>1. CASE DefragWake BY <1>1 DEF DefragWake
<1>2. CASE DefragDrain BY <1>2 DEF DefragDrain
<1>3. CASE Connect BY <1>3 DEF Connect
<1>4. CASE ConnectFails BY <1>4 DEF ConnectFails
<1>5. CASE DefragPop
    <2>1. CASE UNCHANGED <<queue, cur>> BY <1>5, <2>1 DEF DefragPop
    <2>2. CASE queue # <<>> /\ queue' = Tail(queue) /\ cur' = Head(queue)
        <3>1. cur' \in Untold BY <2>2, TakenOff DEF RecordTypes, Untold
        <3> QED BY <1>5, <2>2, <3>1 DEF DefragPop
    <2> QED BY <1>5, <2>1, <2>2 DEF DefragPop
<1>6. CASE DefragPost BY <1>6 DEF DefragPost, WaitAndSend, SendUpdate
<1>7. CASE DefragResumed BY <1>7 DEF DefragResumed, SendUpdate
<1>8. CASE DefragSendLost BY <1>8 DEF DefragSendLost
<1>9. CASE Retry BY <1>9 DEF Retry, WaitAndSend, SendUpdate
<1>10. CASE Initialized BY <1>10 DEF Initialized, Abandon, PostCompleted
<1>11. CASE ServiceUpdates BY <1>11 DEF ServiceUpdates
<1>12. CASE Updated BY <1>12 DEF Updated
<1>13. CASE ServiceReturns BY <1>13 DEF ServiceReturns, Abandon, PostCompleted
<1>14. CASE RouteToEnum BY <1>14 DEF RouteToEnum
<1>15. CASE RouteDestroy BY <1>15 DEF RouteDestroy, AfterRecord
<1>16. CASE SignalEnum BY <1>16 DEF SignalEnum, AfterRecord
<1>17. CASE DefragPause BY <1>17 DEF DefragPause
<1>18. CASE DefragDelay BY <1>18 DEF DefragDelay
<1> QED BY <1>1, <1>2, <1>3, <1>4, <1>5, <1>6, <1>7, <1>8, <1>9, <1>10, <1>11,
           <1>12, <1>13, <1>14, <1>15, <1>16, <1>17, <1>18 DEF DefragThread

LEMMA ToldEnum == ASSUME RecordTypes, Places, HeldWhileUsed, Apart, OpenUntilShutdown, ToldSoFar,
       Untold' \subseteq Untold, EnumThread PROVE ToldSoFar'
<1> USE DEF HeldWhileUsed, OpenUntilShutdown, ToldSoFar, Using, Flushes,
            recordVars, signalVars, suspendVars, engineVars, dlgVars, dVars,
            eVars, EnumGoto, Running, Terminating
<1>1. CASE EnumWake BY <1>1 DEF EnumWake
<1>2. CASE EnumPop BY <1>2 DEF EnumPop
<1>3. CASE EnumFind BY <1>3 DEF EnumFind
<1>4. CASE EnumSignal BY <1>4 DEF EnumSignal
<1>5. CASE EnumSendLost BY <1>5 DEF EnumSendLost
<1>6. CASE EnumDone BY <1>6 DEF EnumDone
<1>7. CASE EnumPause BY <1>7 DEF EnumPause
<1>8. CASE EnumResumed BY <1>8 DEF EnumResumed
<1> QED BY <1>1, <1>2, <1>3, <1>4, <1>5, <1>6, <1>7, <1>8 DEF EnumThread

LEMMA ToldUser == ASSUME RecordTypes, Places, HeldWhileUsed, Apart, OpenUntilShutdown, ToldSoFar,
       Untold' \subseteq Untold, User PROVE ToldSoFar'
<1> USE DEF HeldWhileUsed, OpenUntilShutdown, ToldSoFar, Using, Flushes,
            recordVars, signalVars, suspendVars, engineVars, dlgVars, dVars,
            eVars, Terminating
<1>1. CASE Insert BY <1>1 DEF Insert
<1>2. CASE Pause BY <1>2 DEF Pause
<1>3. CASE ResumeClick BY <1>3 DEF ResumeClick
<1>4. CASE Cancel BY <1>4 DEF Cancel
<1>5. CASE CloseDialog BY <1>5 DEF CloseDialog
<1> QED BY <1>1, <1>2, <1>3, <1>4, <1>5 DEF User

LEMMA ToldDialog == ASSUME RecordTypes, Places, HeldWhileUsed, Apart, OpenUntilShutdown, ToldSoFar,
       Untold' \subseteq Untold, Dialog PROVE ToldSoFar'
<1> USE DEF HeldWhileUsed, OpenUntilShutdown, ToldSoFar, Using, Flushes,
            recordVars, signalVars, suspendVars, engineVars, dlgVars, dVars,
            eVars, EnumGoto, Terminating
<1>1. CASE InsertSignal BY <1>1 DEF InsertSignal, CountInserted, DisableControls
<1>2. CASE PauseReset BY <1>2 DEF PauseReset
<1>3. CASE ResumeSet BY <1>3 DEF ResumeSet
<1>4. CASE TakeInitializing
    <2>1. \A r \in Untold \union ToSet(flushing) : log'[r] = log[r]
        BY <1>4, Started, Contents DEF TakeInitializing, RecordTypes, Untold
    <2>2. log'[cur] = "initializing" BY <1>4 DEF TakeInitializing, RecordTypes
    <2> QED BY <1>4, <2>1, <2>2 DEF TakeInitializing, Answer
<1>5. CASE TakeProgress BY <1>5 DEF TakeProgress, Answer
<1>6. CASE TakeCompleted
    <2>1. \A r \in Untold : log'[r] = log[r]
        BY <1>6, Started DEF TakeCompleted, RecordTypes, Untold
    <2>2. CASE bCancelAll
        <3>1. ToSet(flushing') \subseteq Untold /\ uiAt' = "flush"
            BY <1>6, <2>2, Contents DEF TakeCompleted, RecordTypes, Untold
        <3> QED BY <1>6, <2>1, <2>2, <3>1 DEF TakeCompleted
    <2>3. CASE ~bCancelAll
        <3>1. \A r \in ToSet(flushing) : log'[r] = log[r]
            BY <1>6, Started, Contents DEF TakeCompleted, RecordTypes
        <3> QED BY <1>6, <2>1, <2>3, <3>1 DEF TakeCompleted, Answer
    <2> QED BY <2>2, <2>3
<1>7. CASE TakeInserted BY <1>7 DEF TakeInserted, CountInserted, DisableControls
<1>8. CASE FlushInitializing
    <2>1. /\ Head(flushing) \in ToSet(flushing) /\ Head(flushing) \in Records
          /\ Head(flushing) \notin Untold
        BY <1>8, Started, TakenOff DEF FlushInitializing, RecordTypes
    <2>2. \A r \in Records \ {Head(flushing)} : log'[r] = log[r]
        BY <1>8 DEF FlushInitializing, RecordTypes
    <2>3. \A r \in Untold' : log'[r] = "none"
        BY <1>8, <2>1, <2>2 DEF FlushInitializing, Untold
    <2>4. \A r \in ToSet(flushing') : log'[r] =
             IF uiAt' = "flushing" /\ r = Head(flushing') THEN "initializing" ELSE "none"
        BY <1>8, <2>1, <2>2, Contents DEF FlushInitializing, RecordTypes
    <2> QED BY <1>8, <2>3, <2>4 DEF FlushInitializing
<1>9. CASE FlushCompleted
    <2>1. /\ ToSet(flushing) = ToSet(flushing') \union {Head(flushing)}
          /\ Head(flushing) \notin ToSet(flushing') /\ Head(flushing) \in Records
          /\ Head(flushing) \notin Untold
        BY <1>9, Started, TakenOff DEF FlushCompleted, RecordTypes, Apart
    <2>2. \A r \in Records \ {Head(flushing)} : log'[r] = log[r]
        BY <1>9 DEF FlushCompleted, RecordTypes
    <2>3. \A r \in Untold' : log'[r] = "none"
        BY <1>9, <2>1, <2>2 DEF FlushCompleted, Untold
    <2>4. \A r \in ToSet(flushing') : log'[r] = "none"
        BY <1>9, <2>1, <2>2, Contents DEF FlushCompleted, RecordTypes
    <2> QED BY <1>9, <2>3, <2>4 DEF FlushCompleted
<1>10. CASE FlushEnd BY <1>10 DEF FlushEnd, Answer
<1>11. CASE Unhook BY <1>11 DEF Unhook
<1>12. CASE PeekUpdates BY <1>12 DEF PeekUpdates, Answer
<1>13. CASE DestroyDialog BY <1>13 DEF DestroyDialog
<1>14. CASE Terminate BY <1>14 DEF Terminate
<1>15. CASE TerminateResume BY <1>15 DEF TerminateResume
<1>16. CASE TerminateSetSuspend BY <1>16 DEF TerminateSetSuspend
<1>17. CASE TerminateSetDefrag BY <1>17 DEF TerminateSetDefrag
<1>18. CASE TerminateJoin BY <1>18 DEF TerminateJoin
<1>19. CASE TerminateFlush BY <1>19 DEF TerminateFlush
<1>20. CASE TerminateFinish BY <1>20 DEF TerminateFinish
<1> QED BY <1>1, <1>2, <1>3, <1>4, <1>5, <1>6, <1>7, <1>8, <1>9, <1>10, <1>11,
           <1>12, <1>13, <1>14, <1>15, <1>16, <1>17, <1>18, <1>19, <1>20 DEF
           Dialog
\* An update as the dialog may take it.
NextUpdate(r) ==
    \/ log[r] = "none" /\ log'[r] = "initializing"
    \/ log[r] = "initializing" /\ log'[r] = "defragmenting"
    \/ log[r] \in {"initializing", "defragmenting"} /\ log'[r] = "completed"

LEMMA OnlyTheDialogLogs ==
    ASSUME [Next]_vars
    PROVE  \/ UNCHANGED log
           \/ TakeInitializing \/ TakeProgress \/ TakeCompleted
           \/ FlushInitializing \/ FlushCompleted
<1> USE DEF recordVars, signalVars, suspendVars, engineVars, dlgVars, dVars, eVars
<1>1. CASE UNCHANGED vars BY <1>1 DEF vars
<1>2. CASE DefragThread
    BY <1>2 DEF DefragThread, DefragWake, DefragDrain, Connect, ConnectFails, DefragPop,
       DefragPost, DefragResumed, DefragSendLost, Retry, Initialized, ServiceUpdates,
       Updated, ServiceReturns, RouteToEnum, RouteDestroy, SignalEnum, DefragPause,
       DefragDelay
<1>3. CASE EnumThread
    BY <1>3 DEF EnumThread, EnumWake, EnumPop, EnumFind, EnumSignal, EnumSendLost,
       EnumDone, EnumPause, EnumResumed
<1>4. CASE User
    BY <1>4 DEF User, Insert, Pause, ResumeClick, Cancel, CloseDialog
<1>5. CASE Dialog
    BY <1>5 DEF Dialog, InsertSignal, PauseReset, ResumeSet, TakeInserted, FlushEnd,
       Unhook, PeekUpdates, DestroyDialog, Terminate, TerminateResume,
       TerminateSetSuspend, TerminateSetDefrag, TerminateJoin, TerminateFlush,
       TerminateFinish
<1> QED BY <1>1, <1>2, <1>3, <1>4, <1>5 DEF Next

LEMMA StepInOrder ==
    ASSUME RecordTypes, HeldWhileUsed, OpenUntilShutdown, ToldSoFar, [Next]_vars
    PROVE  \A r \in Records : log'[r] # log[r] => NextUpdate(r)
<1> USE DEF HeldWhileUsed, OpenUntilShutdown, ToldSoFar, Using, Flushes
<1>1. CASE UNCHANGED log BY <1>1
<1>2. CASE TakeInitializing
    <2>1. log[cur] = "none" BY <1>2 DEF TakeInitializing
    <2> QED BY <1>2, <2>1 DEF TakeInitializing, RecordTypes, NextUpdate
<1>3. CASE TakeProgress
    <2>1. log[cur] \in {"initializing", "defragmenting"} BY <1>3 DEF TakeProgress
    <2> QED BY <1>3, <2>1 DEF TakeProgress, RecordTypes, NextUpdate
<1>4. CASE TakeCompleted
    <2>1. log[cur] \in {"initializing", "defragmenting"} BY <1>4 DEF TakeCompleted
    <2> QED BY <1>4, <2>1 DEF TakeCompleted, RecordTypes, NextUpdate
<1>5. CASE FlushInitializing
    <2>1. Head(flushing) \in ToSet(flushing)
        BY <1>5, TakenOff DEF FlushInitializing, RecordTypes
    <2>2. log[Head(flushing)] = "none" BY <1>5, <2>1 DEF FlushInitializing
    <2> QED BY <1>5, <2>2 DEF FlushInitializing, RecordTypes, NextUpdate
<1>6. CASE FlushCompleted
    <2>1. Head(flushing) \in ToSet(flushing)
        BY <1>6, TakenOff DEF FlushCompleted, RecordTypes
    <2>2. log[Head(flushing)] = "initializing" BY <1>6, <2>1 DEF FlushCompleted
    <2> QED BY <1>6, <2>2 DEF FlushCompleted, RecordTypes, NextUpdate
<1> QED BY OnlyTheDialogLogs, <1>1, <1>2, <1>3, <1>4, <1>5, <1>6

-----------------------------------------------------------------------------
(* The invariant and what follows.                                         *)

IInv == /\ Inv /\ OtherSwitches /\ Places /\ HeldWhileUsed /\ RecordTypes /\ Apart
        /\ OpenUntilShutdown /\ ToldSoFar

LEMMA InitIInv == Init => IInv
<1> SUFFICES ASSUME Init PROVE IInv OBVIOUS
<1> USE DEF Init
<1>1. Inv BY InitInv
<1>2. OtherSwitches BY DEF OtherSwitches
<1>3. Places /\ HeldWhileUsed
    BY DEF Places, HeldWhileUsed, Using, Flushes, DefragPCs, EnumPCs, DialogPCs, Codes,
       Results
<1>4. RecordTypes BY DEF RecordTypes
<1>5. ToSet(<<>>) = {} /\ IsInjective(<<>>)
    <2>1. <<>> \in Seq(Records) OBVIOUS
    <2> QED BY <2>1, Contents
<1>6. Apart BY <1>5 DEF Apart
<1>7. OpenUntilShutdown /\ ToldSoFar
    BY <1>5 DEF OpenUntilShutdown, ToldSoFar, Flushes, Untold, Terminating
<1> QED BY <1>1, <1>2, <1>3, <1>4, <1>6, <1>7 DEF IInv

LEMMA NextIInv == ASSUME IInv, Next PROVE IInv'
<1> USE DEF IInv, Next
<1>1. Inv' BY DefragStep, EnumStep, UserStep, DialogStep
<1>2. OtherSwitches' BY SwitchesDefrag, SwitchesEnum, SwitchesUser, SwitchesDialog
<1>3. Places' /\ HeldWhileUsed'
    BY PlacesDefrag, PlacesEnum, PlacesUser, PlacesDialog DEF Inv
<1>4. RecordTypes' BY RecordsDefrag, RecordsEnum, RecordsUser, RecordsDialog
<1>5. Apart' BY ApartDefrag, ApartEnum, ApartUser, ApartDialog
<1>6. OpenUntilShutdown' BY OpenDefrag, OpenEnum, OpenUser, OpenDialog DEF Inv
<1>7. ToldSoFar'
    <2>1. Untold' \subseteq Untold BY UntoldShrinks
    <2> QED BY <2>1, ToldDefrag, ToldEnum, ToldUser, ToldDialog
<1> QED BY <1>1, <1>2, <1>3, <1>4, <1>5, <1>6, <1>7

LEMMA StutterIInv == ASSUME IInv, UNCHANGED vars PROVE IInv'
<1> USE DEF IInv, vars, recordVars, signalVars, suspendVars, engineVars, dlgVars, dVars,
            eVars
<1>1. Inv' BY StutterStep
<1>2. OtherSwitches' BY DEF OtherSwitches
<1>3. Places' /\ HeldWhileUsed' BY DEF Places, HeldWhileUsed
<1>4. RecordTypes' BY DEF RecordTypes
<1>5. Apart' BY DEF Apart
<1>6. OpenUntilShutdown' /\ ToldSoFar'
    BY DEF OpenUntilShutdown, ToldSoFar, Untold, Known, Terminating
<1> QED BY <1>1, <1>2, <1>3, <1>4, <1>5, <1>6

LEMMA Invariance == Spec => []IInv
<1>1. IInv /\ [Next]_vars => IInv' BY NextIInv, StutterIInv
<1> QED BY <1>1, InitIInv, PTL DEF Spec

\* Every variable has its type, and the defrag thread has a record whenever it
\* works on one (TaskMgr.cpp, _ProcessDefragQueue).
THEOREM TypeCorrect == Spec => []TypeOK
<1>1. IInv => TypeOK
    BY DEF IInv, Inv, Switches, OtherSwitches, Places, HeldWhileUsed, RecordTypes,
           TypeOK, Using
<1> QED BY <1>1, Invariance, PTL

\* Every QUEUEFILE has one owner and none once it is destroyed, whatever inserts,
\* flushes, directories and a shutdown do at the same time (TaskMgr.cpp).
THEOREM RecordsHaveOneOwner == Spec => []RecordsOwnedOnce
<1>1. IInv => RecordsOwnedOnce BY OwnedOnce DEF IInv
<1> QED BY <1>1, Invariance, PTL

\* The dialog sees each file's updates in order and its end once, wherever they
\* come from (TaskMgr.cpp, _PostDefragUpdate and _FlushDefragQueue).
THEOREM UpdatesInOrder == Spec => EventsInOrder
<1>1. IInv /\ [Next]_vars
          => [\A r \in Records : log'[r] # log[r] =>
                  \/ log[r] = "none" /\ log'[r] = "initializing"
                  \/ log[r] = "initializing" /\ log'[r] = "defragmenting"
                  \/ log[r] \in {"initializing", "defragmenting"} /\ log'[r] = "completed"]_vars
    BY StepInOrder DEF IInv, NextUpdate
<1> QED BY <1>1, Invariance, PTL DEF Spec, EventsInOrder

-----------------------------------------------------------------------------
(* The notification queue: the invariant.                                  *)

\* Who opens files, and where a worker has an item.
Users == Scanners \union {Worker(p) : p \in Processes}
Executing == {"open", "lock", "write", "close", "corrupt", "delete"}

\* The types: of the enumerations, the files, the worker threads, what is queued,
\* and the notifications.
Scans == [at : {"idle", "files", "lock", "read", "callback", "cancelled", "delete"},
          files : SUBSET Buckets, names : SUBSET Names, bucket : Buckets \union {None},
          since : Nat, name : Names \union {None}]

ScanTypes ==
    /\ scan \in [Scanners -> Scans]
    /\ \A s \in Scanners :
          /\ scan[s].at \in {"lock", "read", "callback", "cancelled", "delete"}
             => scan[s].bucket \in Buckets
          /\ scan[s].at = "callback" => scan[s].name \in Names

FileTypes ==
    /\ files \in [Buckets -> {"none", "present", "deleting"}]
    /\ LastModified \in [Names -> Nat] /\ corrupt \in SUBSET Buckets
    /\ handles \in [Buckets -> SUBSET Users]
    /\ clock \in Nat /\ failures \in Nat

ThreadTypes == WorkThreadInitialized \in [Processes -> {0, 1, 2}]

WorkTypes ==
    /\ client \in [Processes -> {"idle", "enter", "starting", "signal", "registering"}]
    /\ call \in [Processes -> WorkItems \union {None}]
    /\ worker \in [Processes -> {"none", "starting", "wait", "timeout", "next"} \union Executing]
    /\ item \in [Processes -> WorkItems \union {None}]
    /\ WorkQueue \in [Processes -> Seq(WorkItems)]
    /\ QueueRefs \in [Processes -> Int]
    /\ asked \in [Names -> {"WRITERECORD", "DELETERECORD"}]

NotifyTypes ==
    /\ notifier \in [Processes -> {"none", "starting", "scan", "scanning", "wait", "exit"}]
    /\ handle \in [Processes -> {"none", "held", "leaked", "released"}]
    /\ StartTime \in [Processes -> Nat] /\ NotifyRefs \in [Processes -> Int]
    /\ told \in [Processes -> [Names -> Nat]] /\ late \in [Processes -> Nat]

\* Every item on the way to its execution is one of the process it belongs to, and
\* a worker has an item exactly while it executes one.
ItemsOwned ==
    \A p \in Processes :
        /\ client[p] \in {"enter", "starting"} => call[p] # None /\ Owner[call[p].name] = p
        /\ WorkThreadInitialized[p] = 0 => worker[p] = "none"
        /\ item[p] # None <=> worker[p] \in Executing
        /\ item[p] # None => Owner[item[p].name] = p
        /\ \A i \in 1 .. Len(WorkQueue[p]) : Owner[WorkQueue[p][i].name] = p

\* Where the notification thread may be, by what the client has of it.
Registered ==
    \A p \in Processes :
        /\ notifier[p] = "scanning" <=> scan[Notifier(p)].at # "idle"
        /\ notifier[p] = "starting" => client[p] = "registering"
        /\ client[p] = "registering" => handle[p] = "none"
        /\ handle[p] = "none" /\ client[p] # "registering" => notifier[p] = "none"
        /\ handle[p] = "leaked" => notifier[p] = "none"

\* LateOnce as it is kept: between the check and the callback none has been late.
LateCallbacks ==
    \A p \in Processes :
        /\ handle[p] # "released" => late[p] = 0
        /\ handle[p] = "released" /\ scan[Notifier(p)].at = "callback" => late[p] = 0
        /\ late[p] <= 1

\* A file that is gone is open to nobody, and there are no records of it.
EmptyFiles ==
    \A b \in Buckets :
        files[b] = "none" => handles[b] = {} /\ \A n \in NamesIn(b) : LastModified[n] = 0

\* A worker has the file it works on open, so that nobody can remove it.
WorkerHolds ==
    \A p \in Processes :
        worker[p] \in {"lock", "write", "close", "corrupt"} => Worker(p) \in handles[Bucket(p)]

\* What the worker has done to the record of its item when it closes the file.
Executed ==
    \A p \in Processes, n \in Names :
        Name(p) = n =>
        /\ worker[p] = "close" => n \in lost \/ (Recorded(n) <=> item[p].type = "WRITERECORD")
        /\ worker[p] \in {"corrupt", "delete"} => n \in lost \/ item[p].type = "DELETERECORD"

\* No item for n behind the i-th.
NotAfter(p, i, n) == \A j \in i + 1 .. Len(WorkQueue[p]) : WorkQueue[p][j].name # n

\* The last item for a file, on the queue or being executed, is what was asked last.
LastAsked ==
    \A p \in Processes, n \in Names :
        /\ \A i \in 1 .. Len(WorkQueue[p]) :
              WorkQueue[p][i].name = n /\ NotAfter(p, i, n) => WorkQueue[p][i].type = asked[n]
        /\ item[p] # None /\ Name(p) = n /\ NotAfter(p, 0, n) => item[p].type = asked[n]

\* A thread that watches is to look again when a record is newer than its last scan.
Times ==
    /\ \A n \in Names : LastModified[n] <= clock
    /\ \A p \in Processes : StartTime[p] <= clock
    /\ failures = 0 => corrupt = {}
    /\ \A p \in Processes :
          /\ notifier[p] \in {"scan", "scanning", "wait"} => p \in watched
          /\ notifier[p] \in {"scanning", "wait"} =>
                \A n \in Names : LastModified[n] > StartTime[p] => p \in changed

\* The client knows the record of n; the scan under way is still to tell it.
Told(p, n) == told[p][n] >= LastModified[n]

ToCome(p, n) ==
    LET s == scan[Notifier(p)] IN
    \/ /\ LastModified[n] >= s.since
       /\ FqiCreateFileNameHash[n] \in s.files
    \/ /\ LastModified[n] >= s.since /\ s.at = "lock" /\ s.bucket = FqiCreateFileNameHash[n]
    \/ s.at \in {"read", "callback"} /\ n \in s.names
    \/ s.at = "callback" /\ n = s.name

\* Of every record the client knows, or it is newer than the scan, or still to come.
News ==
    failures = 0 => \A p \in Processes, n \in Names :
        handle[p] # "released" /\ Recorded(n) =>
        /\ notifier[p] \in {"starting", "scan"} => Told(p, n) \/ LastModified[n] >= StartTime[p]
        /\ notifier[p] = "scanning" => Told(p, n) \/ LastModified[n] > StartTime[p] \/ ToCome(p, n)
        /\ notifier[p] = "wait" => Told(p, n) \/ LastModified[n] > StartTime[p]

\* The threads of the processes are different.
LEMMA ThreadsApart ==
    ASSUME NEW p \in Processes, NEW q \in Processes
    PROVE  /\ Client(p) \in Scanners /\ Notifier(p) \in Scanners
           /\ Client(p) # Notifier(q) /\ Client(p) # Worker(q) /\ Notifier(p) # Worker(q)
           /\ Client(p) = Client(q) => p = q
           /\ Notifier(p) = Notifier(q) => p = q
           /\ Worker(p) = Worker(q) => p = q
BY DEF Client, Notifier, Worker, Scanners

LEMMA ThreadsOpen ==
    /\ \A p \in Processes : Worker(p) \in Users
    /\ Scanners \subseteq Users
    /\ \A p \in Processes : Worker(p) \notin Scanners
BY DEF Client, Notifier, Worker, Users, Scanners

\* A name has a bucket.
LEMMA BucketOf == \A n \in Names : FqiCreateFileNameHash[n] \in Buckets
BY DEF Buckets

\* What a step of a scan does: it changes the fields of s and of nobody else.
ScanIs(s, at, fs, ns, b, since, n) ==
    /\ scan' \in [Scanners -> Scans]
    /\ scan'[s].at = at /\ scan'[s].files = fs /\ scan'[s].names = ns /\ scan'[s].bucket = b
    /\ scan'[s].since = since /\ scan'[s].name = n
    /\ \A t \in Scanners \ {s} : scan'[t] = scan[t]

\* Step gives a scan the fields of r.
LEMMA StepTo ==
    ASSUME scan \in [Scanners -> Scans], NEW s \in Scanners, NEW r \in Scans, Step(s, r)
    PROVE  ScanIs(s, r.at, r.files, r.names, r.bucket, r.since, r.name)
BY DEF Step, ScanIs

\* The steps of a scan, each by the fields it leaves.
LEMMA ScanStarts ==
    ASSUME scan \in [Scanners -> Scans], NEW s \in Scanners, NEW since \in Nat, StartScan(s, since)
    PROVE  ScanIs(s, "files", {b \in Buckets : files[b] # "none"}, scan[s].names, scan[s].bucket,
                  since, scan[s].name)
<1> DEFINE r == scan[s]
           f == {b \in Buckets : files[b] # "none"}
           u == [r EXCEPT !.at = "files", !.since = since, !.files = f]
<1>1. r \in Scans /\ f \in SUBSET Buckets OBVIOUS
<1>2. Step(s, u) BY DEF StartScan
<1>3. /\ u \in Scans /\ u.at = "files" /\ u.files = f /\ u.names = r.names
      /\ u.bucket = r.bucket /\ u.since = since /\ u.name = r.name
  <2> HIDE DEF r, f
  <2> QED BY <1>1 DEF Scans
<1> HIDE DEF u
<1> QED BY <1>2, <1>3, StepTo

LEMMA ScanFails ==
    ASSUME scan \in [Scanners -> Scans], NEW s \in Scanners, Step(s, [scan[s] EXCEPT !.at = "files"])
    PROVE  ScanIs(s, "files", scan[s].files, scan[s].names, scan[s].bucket, scan[s].since, scan[s].name)
<1> DEFINE r == scan[s]
           u == [r EXCEPT !.at = "files"]
<1>1. r \in Scans OBVIOUS
<1>2. Step(s, u) OBVIOUS
<1>3. /\ u \in Scans /\ u.at = "files" /\ u.files = r.files /\ u.names = r.names
      /\ u.bucket = r.bucket /\ u.since = r.since /\ u.name = r.name
  <2> HIDE DEF r
  <2> QED BY <1>1 DEF Scans
<1> HIDE DEF u
<1> QED BY <1>2, <1>3, StepTo

LEMMA ScanStops ==
    ASSUME scan \in [Scanners -> Scans], NEW s \in Scanners, scan' = [scan EXCEPT ![s] = NoScan]
    PROVE  ScanIs(s, "idle", {}, {}, None, 0, None)
<1>1. NoScan \in Scans BY DEF NoScan, Scans
<1>2. Step(s, NoScan) BY DEF Step
<1>3. ScanIs(s, NoScan.at, NoScan.files, NoScan.names, NoScan.bucket, NoScan.since, NoScan.name)
  BY <1>1, <1>2, StepTo
<1> QED BY <1>3 DEF NoScan

LEMMA ScanOpenDoes ==
    ASSUME scan \in [Scanners -> Scans], NEW s \in Scanners, ScanOpen(s)
    PROVE  \E b \in Buckets :
              /\ scan[s].at = "files" /\ b \in scan[s].files
              /\ \/ /\ files[b] = "present" /\ OpenFile(s, b) /\ UNCHANGED failures
                    /\ ScanIs(s, "lock", scan[s].files \ {b}, scan[s].names, b, scan[s].since, scan[s].name)
                 \/ /\ (files[b] # "present" /\ UNCHANGED failures) \/ Fails
                    /\ UNCHANGED handles
                    /\ ScanIs(s, "files", scan[s].files \ {b}, scan[s].names, scan[s].bucket,
                              scan[s].since, scan[s].name)
<1> DEFINE r == scan[s]
<1>t. r \in Scans OBVIOUS
<1>1. PICK b \in r.files :
           \/ /\ files[b] = "present" /\ OpenFile(s, b) /\ UNCHANGED failures
              /\ Step(s, [r EXCEPT !.at = "lock", !.bucket = b, !.files = r.files \ {b}])
           \/ /\ (files[b] # "present" /\ UNCHANGED failures) \/ Fails
              /\ UNCHANGED handles /\ Step(s, [r EXCEPT !.files = r.files \ {b}])
  BY DEF ScanOpen
<1>2. b \in Buckets /\ r.files \ {b} \in SUBSET Buckets BY <1>t DEF Scans
<1>3. r.at = "files" BY DEF ScanOpen
<1> DEFINE f == r.files \ {b}
           u == [r EXCEPT !.at = "lock", !.bucket = b, !.files = f]
           v == [r EXCEPT !.files = f]
<1>4. /\ u \in Scans /\ u.at = "lock" /\ u.files = f /\ u.names = r.names
      /\ u.bucket = b /\ u.since = r.since /\ u.name = r.name
  <2>1. r \in Scans /\ f \in SUBSET Buckets BY <1>t, <1>2
  <2> HIDE DEF r, f
  <2> QED BY <1>2, <2>1 DEF Scans
<1>5. /\ v \in Scans /\ v.at = r.at /\ v.files = f /\ v.names = r.names
      /\ v.bucket = r.bucket /\ v.since = r.since /\ v.name = r.name
  <2>1. r \in Scans /\ f \in SUBSET Buckets BY <1>t, <1>2
  <2> HIDE DEF r, f
  <2> QED BY <2>1 DEF Scans
<1>6. CASE files[b] = "present" /\ OpenFile(s, b) /\ UNCHANGED failures /\ Step(s, u)
  <2> HIDE DEF u
  <2>1. ScanIs(s, "lock", f, r.names, b, r.since, r.name) BY <1>4, <1>6, StepTo
  <2> QED BY <1>2, <1>3, <1>6, <2>1
<1>7. CASE /\ (files[b] # "present" /\ UNCHANGED failures) \/ Fails
           /\ UNCHANGED handles /\ Step(s, v)
  <2> HIDE DEF v
  <2>1. ScanIs(s, "files", f, r.names, r.bucket, r.since, r.name) BY <1>3, <1>5, <1>7, StepTo
  <2> QED BY <1>2, <1>3, <1>7, <2>1
<1> QED BY <1>1, <1>6, <1>7

LEMMA ScanLockDoes ==
    ASSUME scan \in [Scanners -> Scans], NEW s \in Scanners, ScanLock(s)
    PROVE  \E names \in SUBSET Names :
              /\ scan[s].at = "lock"
              /\ Readable(scan[s].bucket) =>
                    \A n \in Names :
                       /\ LastModified[n] > 0 /\ LastModified[n] >= scan[s].since
                       /\ FqiCreateFileNameHash[n] = scan[s].bucket
                       => n \in names
              /\ ScanIs(s, "read", scan[s].files, names, scan[s].bucket, scan[s].since, scan[s].name)
<1> DEFINE r == scan[s]
           newer == {n \in NamesIn(r.bucket) : LastModified[n] > 0 /\ LastModified[n] >= r.since}
<1>1. PICK names \in IF Readable(r.bucket) THEN {newer} ELSE SUBSET newer :
         Step(s, [r EXCEPT !.at = "read", !.names = names])
  BY DEF ScanLock
<1>2. names \in SUBSET Names BY DEF NamesIn
<1>3. Readable(r.bucket) => names = newer OBVIOUS
<1> DEFINE u == [r EXCEPT !.at = "read", !.names = names]
<1>4. Step(s, u) BY <1>1
<1>5. r \in Scans OBVIOUS
<1>6. /\ u \in Scans /\ u.at = "read" /\ u.files = r.files /\ u.names = names
      /\ u.bucket = r.bucket /\ u.since = r.since /\ u.name = r.name
  <2> HIDE DEF r
  <2> QED BY <1>2, <1>5 DEF Scans
<1> HIDE DEF u
<1>7. ScanIs(s, "read", r.files, names, r.bucket, r.since, r.name) BY <1>4, <1>6, StepTo
<1>8. scan[s].at = "lock" BY DEF ScanLock
<1> QED BY <1>2, <1>3, <1>7, <1>8 DEF NamesIn

LEMMA ScanRecordDoes ==
    ASSUME scan \in [Scanners -> Scans], NEW s \in Scanners, ScanRecord(s, "callback")
    PROVE  \E n \in Names :
              /\ scan[s].at = "read" /\ n \in scan[s].names
              /\ ScanIs(s, "callback", scan[s].files, scan[s].names \ {n}, scan[s].bucket,
                        scan[s].since, n)
<1> DEFINE r == scan[s]
<1>1. PICK n \in r.names : Step(s, [r EXCEPT !.at = "callback", !.name = n, !.names = @ \ {n}])
  BY DEF ScanRecord
<1>2. r \in Scans /\ r.at = "read" BY DEF ScanRecord
<1>3. n \in Names BY <1>2 DEF Scans
<1> DEFINE f == r.names \ {n}
           u == [r EXCEPT !.at = "callback", !.name = n, !.names = f]
<1>4. Step(s, u) BY <1>1
<1>5. f \in SUBSET Names BY <1>2 DEF Scans
<1>6. /\ u \in Scans /\ u.at = "callback" /\ u.files = r.files /\ u.names = f
      /\ u.bucket = r.bucket /\ u.since = r.since /\ u.name = n
  <2> HIDE DEF r, f
  <2> QED BY <1>2, <1>3, <1>5 DEF Scans
<1> HIDE DEF u
<1>7. ScanIs(s, "callback", r.files, f, r.bucket, r.since, n) BY <1>4, <1>6, StepTo
<1> QED BY <1>2, <1>3, <1>7

LEMMA CallbackReturnsDoes ==
    ASSUME scan \in [Scanners -> Scans], NEW s \in Scanners, NEW continue \in BOOLEAN,
           CallbackReturns(s, continue)
    PROVE  IF continue
           THEN ScanIs(s, "read", scan[s].files, scan[s].names, scan[s].bucket, scan[s].since, None)
           ELSE ScanIs(s, "cancelled", scan[s].files, {}, scan[s].bucket, scan[s].since, None)
<1> DEFINE r == scan[s]
           u == [r EXCEPT !.at = "read", !.name = None]
           v == [r EXCEPT !.at = "cancelled", !.name = None, !.names = {}]
<1>1. r \in Scans OBVIOUS
<1>2. IF continue THEN Step(s, u) ELSE Step(s, v) BY DEF CallbackReturns
<1>3. /\ u \in Scans /\ u.at = "read" /\ u.files = r.files /\ u.names = r.names
      /\ u.bucket = r.bucket /\ u.since = r.since /\ u.name = None
  <2> HIDE DEF r
  <2> QED BY <1>1 DEF Scans
<1>4. /\ v \in Scans /\ v.at = "cancelled" /\ v.files = r.files /\ v.names = {}
      /\ v.bucket = r.bucket /\ v.since = r.since /\ v.name = None
  <2> HIDE DEF r
  <2> QED BY <1>1 DEF Scans
<1> HIDE DEF u, v
<1>5. CASE continue BY <1>2, <1>3, <1>5, StepTo
<1>6. CASE ~continue BY <1>2, <1>4, <1>6, StepTo
<1> QED BY <1>5, <1>6

LEMMA ScanCloseDoes ==
    ASSUME scan \in [Scanners -> Scans], NEW s \in Scanners, ScanClose(s)
    PROVE  /\ scan[s].at \in {"read", "cancelled"} /\ scan[s].names = {}
           /\ IF scan[s].at = "read" /\ ~Readable(scan[s].bucket)
              THEN ScanIs(s, "delete", scan[s].files, scan[s].names, scan[s].bucket,
                          scan[s].since, scan[s].name)
              ELSE ScanIs(s, "files", scan[s].files, scan[s].names, None, scan[s].since, scan[s].name)
<1> DEFINE r == scan[s]
           u == [r EXCEPT !.at = "delete"]
           v == [r EXCEPT !.at = "files", !.bucket = None]
<1>1. r \in Scans /\ r.at \in {"read", "cancelled"} /\ r.names = {} BY DEF ScanClose
<1>2. IF r.at = "read" /\ ~Readable(r.bucket) THEN Step(s, u) ELSE Step(s, v) BY DEF ScanClose
<1>3. /\ u \in Scans /\ u.at = "delete" /\ u.files = r.files /\ u.names = r.names
      /\ u.bucket = r.bucket /\ u.since = r.since /\ u.name = r.name
  <2> HIDE DEF r
  <2> QED BY <1>1 DEF Scans
<1>4. /\ v \in Scans /\ v.at = "files" /\ v.files = r.files /\ v.names = r.names
      /\ v.bucket = None /\ v.since = r.since /\ v.name = r.name
  <2> HIDE DEF r
  <2> QED BY <1>1 DEF Scans
<1> HIDE DEF u, v
<1>5. CASE r.at = "read" /\ ~Readable(r.bucket) BY <1>1, <1>2, <1>3, <1>5, StepTo
<1>6. CASE ~(r.at = "read" /\ ~Readable(r.bucket)) BY <1>1, <1>2, <1>4, <1>6, StepTo
<1> QED BY <1>1, <1>5, <1>6

LEMMA ScanDeleteDoes ==
    ASSUME scan \in [Scanners -> Scans], NEW s \in Scanners, ScanDelete(s)
    PROVE  /\ scan[s].at = "delete" /\ DeleteCorrupt(scan[s].bucket)
           /\ ScanIs(s, "files", scan[s].files, scan[s].names, None, scan[s].since, scan[s].name)
<1> DEFINE r == scan[s]
           v == [r EXCEPT !.at = "files", !.bucket = None]
<1>1. r \in Scans /\ r.at = "delete" /\ DeleteCorrupt(r.bucket) BY DEF ScanDelete
<1>2. Step(s, v) BY DEF ScanDelete
<1>3. /\ v \in Scans /\ v.at = "files" /\ v.files = r.files /\ v.names = r.names
      /\ v.bucket = None /\ v.since = r.since /\ v.name = r.name
  <2> HIDE DEF r
  <2> QED BY <1>1 DEF Scans
<1> HIDE DEF v
<1> QED BY <1>1, <1>2, <1>3, StepTo

LEMMA NotifierScansDoes ==
    ASSUME scan \in [Scanners -> Scans], NEW p \in Processes, NotifierScans(p),
           StartTime \in [Processes -> Nat], Slack \in Nat
    PROVE  LET s == Notifier(p) IN
           \/ \E since \in Nat :
                 /\ since <= StartTime[p] /\ UNCHANGED failures
                 /\ ScanIs(s, "files", {b \in Buckets : files[b] # "none"}, scan[s].names,
                           scan[s].bucket, since, scan[s].name)
           \/ /\ Fails
              /\ ScanIs(s, "files", scan[s].files, scan[s].names, scan[s].bucket, scan[s].since,
                        scan[s].name)
<1> DEFINE since == IF StartTime[p] > Slack THEN StartTime[p] - Slack ELSE 0
<1>1. since \in Nat /\ since <= StartTime[p] OBVIOUS
<1>2. Notifier(p) \in Scanners BY ThreadsApart
<1>3. CASE StartScan(Notifier(p), since) /\ UNCHANGED failures
  <2> HIDE DEF since
  <2> QED BY <1>1, <1>2, <1>3, ScanStarts
<1>4. CASE Fails /\ Step(Notifier(p), [scan[Notifier(p)] EXCEPT !.at = "files"])
  BY <1>2, <1>4, ScanFails
<1> QED BY <1>3, <1>4 DEF NotifierScans

LEMMA NotifierChecksDoes ==
    ASSUME scan \in [Scanners -> Scans], NEW p \in Processes, NotifierChecks(p)
    PROVE  LET s == Notifier(p) IN
           /\ scan[s].at = "read"
           /\ IF NotifyRefs[p] = 1
              THEN ScanIs(s, "cancelled", scan[s].files, {}, scan[s].bucket, scan[s].since, None)
              ELSE \E n \in Names :
                      /\ n \in scan[s].names
                      /\ ScanIs(s, "callback", scan[s].files, scan[s].names \ {n}, scan[s].bucket,
                                scan[s].since, n)
<1>1. Notifier(p) \in Scanners BY ThreadsApart
<1>2. CASE NotifyRefs[p] = 1
  <2>1. scan[Notifier(p)].at = "read" /\ CallbackReturns(Notifier(p), FALSE)
    BY <1>2 DEF NotifierChecks
  <2> QED BY <1>1, <1>2, <2>1, CallbackReturnsDoes
<1>3. CASE NotifyRefs[p] # 1
  <2>1. ScanRecord(Notifier(p), "callback") BY <1>3 DEF NotifierChecks
  <2> QED BY <1>1, <1>3, <2>1, ScanRecordDoes
<1> QED BY <1>2, <1>3

-----------------------------------------------------------------------------
\* The steps of the library one by one.
ScanStep(s) ==
    /\ ScanOpen(s) \/ ScanLock(s) \/ ScanClose(s) \/ ScanDelete(s)
    /\ UNCHANGED <<workVars, clientVars, QueueRefs, notifyVars>>

QueueStep(p) ==
    \/ FqInsertFile(p) /\ UNCHANGED notifyVars
    \/ EnterQueue(p) /\ UNCHANGED notifyVars
    \/ WorkerStarted(p) /\ UNCHANGED notifyVars
    \/ SignalWorker(p) /\ UNCHANGED notifyVars

EnumerateStep(p) ==
    FqEnumerateQueue(p) \/ EnumCallback(p) \/ EnumCallbackReturns(p) \/ EnumReturns(p)

RegisterStep(p) ==
    \/ FqRegisterQueueNotification(p) \/ RegisterReturns(p)
    \/ FqUnregisterQueueNotification(p) \/ FqUninitialize(p)

WorkerStep(p) == (Work(p) \/ WorkerTimesOut(p)) /\ UNCHANGED notifyVars

LEMMA QueueSteps ==
    ASSUME QueueNext
    PROVE  \E p \in Processes :
              \/ QueueStep(p) \/ EnumerateStep(p) \/ RegisterStep(p) \/ Notify(p) \/ WorkerStep(p)
              \/ ScanStep(Client(p)) \/ ScanStep(Notifier(p))
BY DEF QueueNext, CallClient, InCall, Queueing, ScanFiles, Scan, QueueStep, EnumerateStep, RegisterStep,
       WorkerStep, ScanStep

-----------------------------------------------------------------------------
\* Queueing, registering and working do not touch the enumerations.
LEMMA OthersKeepScans ==
    ASSUME NEW p \in Processes, QueueStep(p) \/ RegisterStep(p) \/ WorkerStep(p)
    PROVE  UNCHANGED scan
<1>1. CASE QueueStep(p)
  BY <1>1 DEF QueueStep, FqInsertFile, EnterQueue, WorkerStarted, SignalWorker
<1>2. CASE RegisterStep(p)
  BY <1>2 DEF RegisterStep, FqRegisterQueueNotification, RegisterReturns,
              FqUnregisterQueueNotification, FqUninitialize
<1>3. CASE WorkerStep(p)
  BY <1>3 DEF WorkerStep, Work, WorkerStarts, WorkerWaits, WorkerTimesOut, WorkerEnds, WorkerNext,
              WorkerOpens, WorkerLocks, WorkerWrites, WorkerCloses, WorkerDeletes, executeOther,
              workerOther
<1> QED BY <1>1, <1>2, <1>3

\* Type correctness, part by part.
QueueTypes == ScanTypes /\ FileTypes /\ ThreadTypes /\ WorkTypes /\ NotifyTypes

LEMMA ScanTypesStep == QueueTypes /\ [QueueNext]_queueVars => ScanTypes'
<1> SUFFICES ASSUME QueueTypes, [QueueNext]_queueVars PROVE ScanTypes' OBVIOUS
<1>0. ScanTypes BY DEF QueueTypes
<1>t. scan \in [Scanners -> Scans] BY <1>0 DEF ScanTypes
<1>s. ASSUME UNCHANGED scan PROVE ScanTypes' BY <1>0, <1>s DEF ScanTypes
<1>i. ASSUME NEW s \in Scanners, NEW at, NEW fs, NEW ns, NEW b, NEW since, NEW n,
             ScanIs(s, at, fs, ns, b, since, n),
             at \in {"lock", "read", "callback", "cancelled", "delete"} => b \in Buckets,
             at = "callback" => n \in Names
      PROVE  ScanTypes'
  BY <1>0, <1>i DEF ScanTypes, ScanIs
<1>b. \A s \in Scanners : scan[s].at \in {"lock", "read", "callback", "cancelled", "delete"}
                          => scan[s].bucket \in Buckets
  BY <1>0 DEF ScanTypes
<1>1. ASSUME NEW s \in Scanners, ScanStep(s) PROVE ScanTypes'
  <2>1. CASE ScanOpen(s) BY <1>t, <1>i, <2>1, ScanOpenDoes
  <2>2. CASE ScanLock(s) BY <1>t, <1>i, <1>b, <2>2, ScanLockDoes
  <2>3. CASE ScanClose(s) BY <1>t, <1>i, <1>b, <2>3, ScanCloseDoes
  <2>4. CASE ScanDelete(s) BY <1>t, <1>i, <2>4, ScanDeleteDoes
  <2> QED BY <1>1, <2>1, <2>2, <2>3, <2>4 DEF ScanStep
<1>2. ASSUME NEW p \in Processes, EnumerateStep(p) PROVE ScanTypes'
  <2>0. Client(p) \in Scanners BY ThreadsApart
  <2>1. CASE FqEnumerateQueue(p)
    <3>1. StartScan(Client(p), 0) BY <2>1 DEF FqEnumerateQueue
    <3>2. ScanIs(Client(p), "files", {b \in Buckets : files[b] # "none"}, scan[Client(p)].names,
                 scan[Client(p)].bucket, 0, scan[Client(p)].name)
      <4> DEFINE since == 0
      <4>1. since \in Nat /\ StartScan(Client(p), since) BY <3>1
      <4> HIDE DEF since
      <4>2. ScanIs(Client(p), "files", {b \in Buckets : files[b] # "none"}, scan[Client(p)].names,
                   scan[Client(p)].bucket, since, scan[Client(p)].name)
        BY <1>t, <2>0, <4>1, ScanStarts
      <4> QED BY <4>2 DEF since
    <3> QED BY <1>i, <2>0, <3>2
  <2>2. CASE EnumCallback(p)
    <3>1. ScanRecord(Client(p), "callback") BY <2>2 DEF EnumCallback
    <3> QED BY <1>t, <1>i, <1>b, <2>0, <3>1, ScanRecordDoes
  <2>3. CASE EnumCallbackReturns(p)
    <3>1. PICK c \in BOOLEAN : CallbackReturns(Client(p), c) BY <2>3 DEF EnumCallbackReturns
    <3>2. scan[Client(p)].at = "callback" BY <2>3 DEF EnumCallbackReturns
    <3> QED BY <1>t, <1>i, <1>b, <2>0, <3>1, <3>2, CallbackReturnsDoes
  <2>4. CASE EnumReturns(p)
    <3>1. scan' = [scan EXCEPT ![Client(p)] = NoScan] BY <2>4 DEF EnumReturns
    <3> QED BY <1>t, <1>i, <2>0, <3>1, ScanStops
  <2> QED BY <1>2, <2>1, <2>2, <2>3, <2>4 DEF EnumerateStep
<1>3. ASSUME NEW p \in Processes, Notify(p) PROVE ScanTypes'
  <2>0. Notifier(p) \in Scanners BY ThreadsApart
  <2>1. CASE NotifierStarts(p) BY <1>s, <2>1 DEF NotifierStarts
  <2>2. CASE NotifierScans(p)
    BY <1>t, <1>i, <2>0, <2>2, QueueAssumption, NotifierScansDoes DEF QueueTypes, NotifyTypes
  <2>3. CASE NotifierChecks(p)
    <3> DEFINE s == Notifier(p)
    <3>1. CASE NotifyRefs[p] = 1
      <4>1. /\ scan[s].at = "read"
            /\ ScanIs(s, "cancelled", scan[s].files, {}, scan[s].bucket, scan[s].since, None)
        BY <1>t, <2>3, <3>1, NotifierChecksDoes
      <4> QED BY <1>i, <1>b, <2>0, <4>1
    <3>2. CASE NotifyRefs[p] # 1
      <4>1. PICK n \in Names :
               /\ scan[s].at = "read"
               /\ ScanIs(s, "callback", scan[s].files, scan[s].names \ {n}, scan[s].bucket,
                         scan[s].since, n)
        BY <1>t, <2>3, <3>2, NotifierChecksDoes
      <4> QED BY <1>i, <1>b, <2>0, <4>1
    <3> QED BY <3>1, <3>2
  <2>4. CASE NotificationCallback(p)
    <3>1. CallbackReturns(Notifier(p), TRUE) /\ scan[Notifier(p)].at = "callback"
      BY <2>4 DEF NotificationCallback
    <3> DEFINE s == Notifier(p)
    <3>2. ScanIs(s, "read", scan[s].files, scan[s].names, scan[s].bucket, scan[s].since, None)
      BY <1>t, <2>0, <3>1, CallbackReturnsDoes
    <3> QED BY <1>i, <1>b, <2>0, <3>1, <3>2
  <2>5. CASE NotifierScanned(p)
    <3>1. scan' = [scan EXCEPT ![Notifier(p)] = NoScan] BY <2>5 DEF NotifierScanned
    <3> QED BY <1>t, <1>i, <2>0, <3>1, ScanStops
  <2>6. CASE NotifierWaits(p) BY <1>s, <2>6 DEF NotifierWaits
  <2>7. CASE NotifierExits(p) BY <1>s, <2>7 DEF NotifierExits
  <2> QED BY <1>3, <2>1, <2>2, <2>3, <2>4, <2>5, <2>6, <2>7 DEF Notify
<1>4. ASSUME NEW p \in Processes, QueueStep(p) \/ RegisterStep(p) \/ WorkerStep(p) PROVE ScanTypes'
  <2>1. UNCHANGED scan
    BY <1>4, OthersKeepScans
  <2> QED BY <1>s, <2>1
<1>5. CASE UNCHANGED queueVars BY <1>s, <1>5 DEF queueVars
<1> QED BY <1>1, <1>2, <1>3, <1>4, <1>5, QueueSteps, ThreadsApart

\* Closing and deleting a file keep the types.
LEMMA UnlockTypes ==
    ASSUME FileTypes, NEW th \in Users, NEW b \in Buckets, UnlockAndClose(th, b)
    PROVE  /\ files' \in [Buckets -> {"none", "present", "deleting"}]
           /\ LastModified' \in [Names -> Nat] /\ corrupt' \in SUBSET Buckets
           /\ handles' \in [Buckets -> SUBSET Users]
BY DEF FileTypes, UnlockAndClose, Gone

LEMMA DeleteTypes ==
    ASSUME FileTypes, NEW b \in Buckets, DeleteFile(b)
    PROVE  /\ files' \in [Buckets -> {"none", "present", "deleting"}]
           /\ LastModified' \in [Names -> Nat] /\ corrupt' \in SUBSET Buckets
BY DEF FileTypes, DeleteFile, Gone

\* The file of the item a worker executes.
LEMMA WorkersBucket ==
    ASSUME WorkTypes, ItemsOwned, NEW p \in Processes, worker[p] \in Executing
    PROVE  /\ item[p] \in WorkItems /\ Name(p) \in Names /\ Bucket(p) \in Buckets
           /\ Name(p) \in NamesIn(Bucket(p)) /\ Owner[Name(p)] = p
           /\ item[p].type \in {"WRITERECORD", "DELETERECORD"}
<1>1. item[p] \in WorkItems BY DEF WorkTypes, ItemsOwned
<1> QED BY <1>1 DEF WorkItems, Name, Bucket, Buckets, NamesIn, ItemsOwned

\* The types of the files, and of what is queued.
LEMMA FileTypesStep == QueueTypes /\ ItemsOwned /\ [QueueNext]_queueVars => FileTypes'
<1> SUFFICES ASSUME QueueTypes, ItemsOwned, [QueueNext]_queueVars PROVE FileTypes' OBVIOUS
<1>0. ScanTypes /\ FileTypes /\ WorkTypes BY DEF QueueTypes
<1>t. scan \in [Scanners -> Scans] BY <1>0 DEF ScanTypes
<1>s. ASSUME UNCHANGED <<files, LastModified, corrupt, handles>>, clock' \in Nat, failures' \in Nat
      PROVE  FileTypes'
  BY <1>0, <1>s DEF FileTypes
<1>n. clock \in Nat /\ failures \in Nat BY <1>0 DEF FileTypes
<1>b. \A s \in Scanners : scan[s].at \in {"lock", "read", "callback", "cancelled", "delete"}
                          => scan[s].bucket \in Buckets
  BY <1>0 DEF ScanTypes
<1>1. ASSUME NEW s \in Scanners, ScanStep(s) PROVE FileTypes'
  <2>u. s \in Users BY ThreadsOpen
  <2>1. CASE ScanOpen(s)
    <3>1. UNCHANGED <<files, LastModified, corrupt, clock>> BY <2>1 DEF ScanOpen
    <3>2. handles' \in [Buckets -> SUBSET Users] /\ failures' \in Nat
      <4>1. PICK b \in Buckets :
               \/ OpenFile(s, b) /\ UNCHANGED failures
               \/ UNCHANGED handles /\ (UNCHANGED failures \/ Fails)
        BY <1>t, <2>1, ScanOpenDoes
      <4> QED BY <1>0, <2>u, <4>1 DEF OpenFile, Fails, FileTypes
    <3> QED BY <1>0, <3>1, <3>2 DEF FileTypes
  <2>2. CASE ScanLock(s) BY <1>s, <1>n, <2>2 DEF ScanLock
  <2>3. CASE ScanClose(s)
    <3>1. scan[s].bucket \in Buckets BY <1>b, <2>3 DEF ScanClose
    <3>2. UnlockAndClose(s, scan[s].bucket) /\ UNCHANGED <<clock, failures>> BY <2>3 DEF ScanClose
    <3> QED BY <1>0, <1>n, <2>u, <3>1, <3>2, UnlockTypes DEF FileTypes
  <2>4. CASE ScanDelete(s)
    <3>1. scan[s].bucket \in Buckets BY <1>b, <2>4 DEF ScanDelete
    <3>2. DeleteFile(scan[s].bucket) /\ UNCHANGED <<clock, handles, failures>>
      BY <2>4 DEF ScanDelete, DeleteCorrupt
    <3> QED BY <1>0, <1>n, <3>1, <3>2, DeleteTypes DEF FileTypes
  <2> QED BY <1>1, <2>1, <2>2, <2>3, <2>4 DEF ScanStep
<1>2. ASSUME NEW p \in Processes, EnumerateStep(p) PROVE FileTypes'
  BY <1>s, <1>n, <1>2 DEF EnumerateStep, FqEnumerateQueue, EnumCallback, EnumCallbackReturns,
     EnumReturns, fileVars
<1>3. ASSUME NEW p \in Processes, Notify(p) PROVE FileTypes'
  <2>1. UNCHANGED <<files, LastModified, corrupt, handles>>
    BY <1>3 DEF Notify, NotifierStarts, NotifierScans, NotifierChecks, NotificationCallback,
       NotifierScanned, NotifierWaits, NotifierExits, fileVars
  <2>2. clock' = clock \/ clock' = clock + 1
    BY <1>3 DEF Notify, NotifierStarts, NotifierScans, NotifierChecks, NotificationCallback,
       NotifierScanned, NotifierWaits, NotifierExits, FqGetLastModifiedTime, fileVars
  <2>3. failures' = failures \/ failures' = failures + 1
    BY <1>3 DEF Notify, NotifierStarts, NotifierScans, NotifierChecks, NotificationCallback,
       NotifierScanned, NotifierWaits, NotifierExits, Fails
  <2> QED BY <1>s, <1>n, <2>1, <2>2, <2>3
<1>4. ASSUME NEW p \in Processes, QueueStep(p) PROVE FileTypes'
  BY <1>s, <1>n, <1>4 DEF QueueStep, FqInsertFile, EnterQueue, WorkerStarted, SignalWorker, Fails, fileVars
<1>5. ASSUME NEW p \in Processes, RegisterStep(p) PROVE FileTypes'
  BY <1>s, <1>n, <1>5 DEF RegisterStep, FqRegisterQueueNotification, RegisterReturns,
     FqUnregisterQueueNotification, FqUninitialize, Fails, FqGetLastModifiedTime, fileVars
<1>6. ASSUME NEW p \in Processes, WorkerStep(p) PROVE FileTypes'
  <2>u. Worker(p) \in Users BY ThreadsOpen
  <2>b. worker[p] \in Executing => Bucket(p) \in Buckets /\ Name(p) \in Names
    BY <1>0, WorkersBucket
  <2>1. CASE WorkerStarts(p) \/ WorkerWaits(p) \/ WorkerTimesOut(p) \/ WorkerEnds(p) \/ WorkerNext(p)
             \/ WorkerLocks(p)
    BY <1>s, <1>n, <2>1 DEF WorkerStarts, WorkerWaits, WorkerTimesOut, WorkerEnds, WorkerNext,
       WorkerLocks, LockFile, Fails, fileVars
  <2>2. CASE WorkerOpens(p)
    <3>1. worker[p] \in Executing /\ UNCHANGED <<LastModified, corrupt, clock>>
      BY <2>2 DEF WorkerOpens, Executing
    <3>2. /\ files' \in [Buckets -> {"none", "present", "deleting"}]
          /\ handles' \in [Buckets -> SUBSET Users] /\ failures' \in Nat
      BY <1>0, <2>u, <2>b, <2>2, <3>1 DEF WorkerOpens, OpenFile, Fails, FileTypes
    <3> QED BY <1>0, <3>1, <3>2 DEF FileTypes
  <2>3. CASE WorkerWrites(p)
    <3>1. worker[p] \in Executing /\ UNCHANGED handles BY <2>3 DEF WorkerWrites, Executing
    <3>2. CASE WriteRecord(p)
      BY <1>0, <2>b, <3>1, <3>2 DEF WriteRecord, FqGetLastModifiedTime, FileTypes
    <3>3. CASE DeleteRecord(p)
      BY <1>0, <2>b, <3>1, <3>3 DEF DeleteRecord, Fails, FileTypes
    <3>4. CASE ~(WriteRecord(p) \/ DeleteRecord(p))
      BY <1>s, <1>n, <2>3, <3>1, <3>4 DEF WorkerWrites, Fails
    <3> QED BY <3>2, <3>3, <3>4
  <2>4. CASE WorkerCloses(p)
    <3>1. /\ worker[p] \in Executing /\ UnlockAndClose(Worker(p), Bucket(p))
          /\ UNCHANGED <<clock, failures>>
      BY <2>4 DEF WorkerCloses, Executing
    <3> QED BY <1>0, <1>n, <2>u, <2>b, <3>1, UnlockTypes DEF FileTypes
  <2>5. CASE WorkerDeletes(p)
    <3>1. /\ worker[p] \in Executing /\ DeleteFile(Bucket(p)) /\ UNCHANGED <<clock, failures, handles>>
      BY <2>5 DEF WorkerDeletes, DeleteCorrupt, Executing
    <3> QED BY <1>0, <1>n, <2>b, <3>1, DeleteTypes DEF FileTypes
  <2> QED BY <1>6, <2>1, <2>2, <2>3, <2>4, <2>5 DEF WorkerStep, Work
<1>7. CASE UNCHANGED queueVars BY <1>s, <1>n, <1>7 DEF queueVars, fileVars
<1> QED BY <1>1, <1>2, <1>3, <1>4, <1>5, <1>6, <1>7, QueueSteps, ThreadsApart

-----------------------------------------------------------------------------
LEMMA WorkTypesStep == QueueTypes /\ ItemsOwned /\ [QueueNext]_queueVars => WorkTypes'
<1> SUFFICES ASSUME QueueTypes, ItemsOwned, [QueueNext]_queueVars PROVE WorkTypes' OBVIOUS
<1>0. WorkTypes BY DEF QueueTypes
<1> USE DEF WorkTypes, ClientAt, WorkerAt, AddRefs, workVars, clientVars, Executing
<1>r. ASSUME NEW p \in Processes, ReleaseNotify(p) PROVE QueueRefs' \in [Processes -> Int]
  <2>1. AddRefs(p, -1) \/ UNCHANGED QueueRefs BY <1>r DEF ReleaseNotify
  <2> QED BY <1>0, <2>1
<1>1. ASSUME NEW s \in Scanners, ScanStep(s) PROVE WorkTypes'
  BY <1>0, <1>1 DEF ScanStep
<1>2. ASSUME NEW p \in Processes, EnumerateStep(p) PROVE WorkTypes'
  BY <1>0, <1>2 DEF EnumerateStep, FqEnumerateQueue, EnumCallback, EnumCallbackReturns, EnumReturns
<1>3. ASSUME NEW p \in Processes, Notify(p) PROVE WorkTypes'
  <2> USE DEF notifierOther
  <2>1. CASE NotifierExits(p)
    BY <1>0, <2>1, <1>r DEF NotifierExits
  <2>2. CASE ~NotifierExits(p)
    <3>1. UNCHANGED <<workVars, clientVars, QueueRefs>>
      BY <1>3, <2>2 DEF Notify, NotifierStarts, NotifierScans, NotifierChecks, NotificationCallback,
         NotifierScanned, NotifierWaits
    <3> QED BY <1>0, <3>1
  <2> QED BY <2>1, <2>2
<1>4. ASSUME NEW p \in Processes, QueueStep(p) PROVE WorkTypes'
  <2>1. CASE FqInsertFile(p)
    <3>1. PICK type \in {"WRITERECORD", "DELETERECORD"}, n \in Names :
             call' = [call EXCEPT ![p] = [type |-> type, name |-> n]]
      BY <2>1 DEF FqInsertFile, FqiBuildWorkItem
    <3>2. [type |-> type, name |-> n] \in WorkItems BY DEF WorkItems
    <3> HIDE DEF workVars
    <3>3. UNCHANGED <<workVars, asked>> /\ AddRefs(p, 2) /\ ClientAt(p, "enter") BY <2>1 DEF FqInsertFile
    <3> QED BY <1>0, <3>1, <3>2, <3>3 DEF workVars
  <2>2. ASSUME InsertItem(p), client[p] \in {"enter", "starting"}
        PROVE  /\ WorkQueue' \in [Processes -> Seq(WorkItems)]
               /\ asked' \in [Names -> {"WRITERECORD", "DELETERECORD"}]
               /\ client' \in [Processes -> {"idle", "enter", "starting", "signal", "registering"}]
    <3>1. call[p] \in WorkItems BY <1>0, <2>2 DEF ItemsOwned
    <3>2. call[p].name \in Names /\ call[p].type \in {"WRITERECORD", "DELETERECORD"}
      BY <3>1 DEF WorkItems
    <3> QED BY <1>0, <2>2, <3>1, <3>2 DEF InsertItem
  <2>3. CASE EnterQueue(p)
    <3>1. client[p] = "enter" /\ UNCHANGED item BY <2>3 DEF EnterQueue
    <3>2. CASE InsertItem(p)
      <4>1. client' = [client EXCEPT ![p] = "signal"] BY <3>2 DEF InsertItem
      <4>2. client'[p] = "signal" BY <1>0, <4>1
      <4>3. UNCHANGED <<worker, call, QueueRefs>> BY <1>0, <2>3, <4>2 DEF EnterQueue
      <4> QED BY <1>0, <2>2, <3>1, <3>2, <4>3
    <3>3. CASE WorkerAt(p, "starting") /\ ClientAt(p, "starting") /\ UNCHANGED <<WorkQueue, call, asked, QueueRefs>>
      BY <1>0, <3>1, <3>3
    <3>4. CASE ClientAt(p, "idle") /\ call' = [call EXCEPT ![p] = None] /\ AddRefs(p, -2)
               /\ UNCHANGED <<WorkQueue, worker, asked>>
      BY <1>0, <3>1, <3>4
    <3> QED BY <2>3, <3>2, <3>3, <3>4 DEF EnterQueue
  <2>4. CASE WorkerStarted(p) BY <1>0, <2>2, <2>4 DEF WorkerStarted
  <2>5. CASE SignalWorker(p) BY <1>0, <2>5 DEF SignalWorker
  <2> QED BY <1>4, <2>1, <2>3, <2>4, <2>5 DEF QueueStep
<1>5. ASSUME NEW p \in Processes, RegisterStep(p) PROVE WorkTypes'
  <2>1. CASE FqRegisterQueueNotification(p) BY <1>0, <2>1 DEF FqRegisterQueueNotification
  <2>2. CASE RegisterReturns(p) BY <1>0, <2>2 DEF RegisterReturns
  <2>3. CASE FqUnregisterQueueNotification(p)
    BY <1>0, <2>3, <1>r DEF FqUnregisterQueueNotification
  <2>4. CASE FqUninitialize(p) BY <1>0, <2>4 DEF FqUninitialize
  <2> QED BY <1>5, <2>1, <2>2, <2>3, <2>4 DEF RegisterStep
<1>d. ASSUME NEW p \in Processes, FqiDestroyWorkItem(p)
      PROVE  /\ item' \in [Processes -> WorkItems \union {None}]
             /\ worker' \in [Processes -> {"none", "starting", "wait", "timeout", "next"} \union Executing]
             /\ QueueRefs' \in [Processes -> Int]
  BY <1>0, <1>d DEF FqiDestroyWorkItem
<1>6. ASSUME NEW p \in Processes, WorkerStep(p) PROVE WorkTypes'
  <2> USE DEF workerOther, executeOther
  <2>1. CASE WorkerStarts(p) BY <1>0, <2>1 DEF WorkerStarts
  <2>2. CASE WorkerWaits(p) BY <1>0, <2>2 DEF WorkerWaits
  <2>3. CASE WorkerTimesOut(p) BY <1>0, <2>3 DEF WorkerTimesOut
  <2>4. CASE WorkerEnds(p) BY <1>0, <2>4 DEF WorkerEnds
  <2>5. CASE WorkerNext(p)
    <3>1. CASE WorkQueue[p] = <<>> BY <1>0, <2>5, <3>1 DEF WorkerNext
    <3>2. CASE WorkQueue[p] # <<>>
      <4>1. Head(WorkQueue[p]) \in WorkItems /\ Tail(WorkQueue[p]) \in Seq(WorkItems) BY <1>0, <3>2
      <4> QED BY <1>0, <2>5, <3>2, <4>1 DEF WorkerNext
    <3> QED BY <3>1, <3>2
  <2>6. CASE WorkerOpens(p)
    <3>1. UNCHANGED <<WorkQueue, client, call, asked>> BY <2>6 DEF WorkerOpens
    <3>2. (WorkerAt(p, "lock") /\ UNCHANGED <<item, QueueRefs>>) \/ FqiDestroyWorkItem(p)
      BY <2>6 DEF WorkerOpens
    <3>3. CASE WorkerAt(p, "lock") /\ UNCHANGED <<item, QueueRefs>> BY <1>0, <3>1, <3>3
    <3>4. CASE FqiDestroyWorkItem(p) BY <1>0, <1>d, <3>1, <3>4
    <3> QED BY <3>2, <3>3, <3>4
  <2>7. CASE WorkerLocks(p) BY <1>0, <2>7 DEF WorkerLocks
  <2>8. CASE WorkerWrites(p) BY <1>0, <2>8 DEF WorkerWrites, WriteRecord, DeleteRecord
  <2>9. CASE WorkerCloses(p)
    <3>1. UNCHANGED <<WorkQueue, client, call, asked>> BY <2>9 DEF WorkerCloses
    <3>2. (WorkerAt(p, "delete") /\ UNCHANGED <<item, QueueRefs>>) \/ FqiDestroyWorkItem(p)
      BY <2>9 DEF WorkerCloses
    <3>3. CASE WorkerAt(p, "delete") /\ UNCHANGED <<item, QueueRefs>> BY <1>0, <3>1, <3>3
    <3>4. CASE FqiDestroyWorkItem(p) BY <1>0, <1>d, <3>1, <3>4
    <3> QED BY <3>2, <3>3, <3>4
  <2>10. CASE WorkerDeletes(p) BY <1>0, <1>d, <2>10 DEF WorkerDeletes
  <2> QED BY <1>6, <2>1, <2>2, <2>3, <2>4, <2>5, <2>6, <2>7, <2>8, <2>9, <2>10 DEF WorkerStep, Work
<1>7. CASE UNCHANGED queueVars BY <1>0, <1>7 DEF queueVars
<1> QED BY <1>1, <1>2, <1>3, <1>4, <1>5, <1>6, <1>7, QueueSteps, ThreadsApart

-----------------------------------------------------------------------------
\* The types of the notifications, and of the state of the worker threads.
LEMMA NotifyTypesStep == QueueTypes /\ [QueueNext]_queueVars => NotifyTypes'
<1> SUFFICES ASSUME QueueTypes, [QueueNext]_queueVars PROVE NotifyTypes' OBVIOUS
<1>0. NotifyTypes /\ ScanTypes /\ FileTypes BY DEF QueueTypes
<1>k. ASSUME UNCHANGED notifyVars PROVE NotifyTypes' BY <1>0, <1>k DEF NotifyTypes, notifyVars
<1>r. ASSUME NEW p \in Processes, ReleaseNotify(p) PROVE NotifyRefs' \in [Processes -> Int]
  BY <1>0, <1>r DEF ReleaseNotify, NotifyTypes
<1>c. clock \in Nat /\ clock + 1 \in Nat BY <1>0 DEF FileTypes
<1>1. ASSUME NEW s \in Scanners, ScanStep(s) PROVE NotifyTypes' BY <1>k, <1>1 DEF ScanStep
<1>2. ASSUME NEW p \in Processes, EnumerateStep(p) PROVE NotifyTypes'
  BY <1>k, <1>2 DEF EnumerateStep, FqEnumerateQueue, EnumCallback, EnumCallbackReturns, EnumReturns
<1>3. ASSUME NEW p \in Processes, Notify(p) PROVE NotifyTypes'
  <2> USE DEF NotifierAt, NotifyTypes, notifierOther
  <2>1. CASE NotifierStarts(p) BY <1>0, <2>1 DEF NotifierStarts
  <2>2. CASE NotifierScans(p)
    <3>1. /\ StartTime' = [StartTime EXCEPT ![p] = clock + 1] /\ NotifierAt(p, "scanning")
          /\ UNCHANGED <<handle, NotifyRefs, told, late>>
      BY <2>2 DEF NotifierScans, FqGetLastModifiedTime
    <3> QED BY <1>0, <1>c, <3>1
  <2>3. CASE NotifierChecks(p)
    BY <1>k, <2>3 DEF NotifierChecks, notifyVars
  <2>4. CASE NotificationCallback(p)
    <3> DEFINE n == scan[Notifier(p)].name
    <3>1. /\ n \in Names /\ told' = [told EXCEPT ![p][n] = LastModified[n]]
      BY <1>0, <2>4, ThreadsApart DEF NotificationCallback, ScanTypes
    <3>2. LastModified[n] \in Nat BY <1>0, <3>1 DEF FileTypes
    <3>3. told' \in [Processes -> [Names -> Nat]]
      <4> HIDE DEF n
      <4> QED BY <1>0, <3>1, <3>2
    <3>4. late' \in [Processes -> Nat]
      BY <1>0, <2>4 DEF NotificationCallback
    <3> QED BY <1>0, <2>4, <3>3, <3>4 DEF NotificationCallback
  <2>5. CASE NotifierScanned(p) BY <1>0, <2>5 DEF NotifierScanned
  <2>6. CASE NotifierWaits(p) BY <1>0, <2>6 DEF NotifierWaits
  <2>7. CASE NotifierExits(p) BY <1>0, <1>r, <2>7 DEF NotifierExits
  <2> QED BY <1>3, <2>1, <2>2, <2>3, <2>4, <2>5, <2>6, <2>7 DEF Notify
<1>4. ASSUME NEW p \in Processes, QueueStep(p) \/ WorkerStep(p) PROVE NotifyTypes'
  BY <1>k, <1>4 DEF QueueStep, WorkerStep, EnterQueue, WorkerStarted, SignalWorker
<1>5. ASSUME NEW p \in Processes, RegisterStep(p) PROVE NotifyTypes'
  <2> USE DEF NotifierAt, NotifyTypes, notifyVars
  <2>1. CASE FqRegisterQueueNotification(p)
    <3>1. CASE NotifyRefs' = [NotifyRefs EXCEPT ![p] = 2]
      <4>1. /\ NotifierAt(p, "starting") /\ UNCHANGED <<handle, late>>
            /\ \E now \in BOOLEAN :
                  /\ StartTime' = [StartTime EXCEPT ![p] = IF now THEN clock + 1 ELSE 0]
                  /\ told' = [told EXCEPT ![p] = [n \in Names |-> StartTime'[p]]]
        BY <1>0, <2>1, <3>1 DEF FqRegisterQueueNotification, FqGetLastModifiedTime
      <4>2. PICK i \in Nat : /\ StartTime' = [StartTime EXCEPT ![p] = i]
                             /\ told' = [told EXCEPT ![p] = [n \in Names |-> StartTime'[p]]]
        BY <1>c, <4>1
      <4>3. StartTime' \in [Processes -> Nat] /\ StartTime'[p] = i BY <1>0, <4>2
      <4>4. [n \in Names |-> StartTime'[p]] \in [Names -> Nat] BY <4>3
      <4>5. told' \in [Processes -> [Names -> Nat]] BY <1>0, <4>2, <4>4
      <4> QED BY <1>0, <3>1, <4>1, <4>3, <4>5
    <3>2. CASE NotifyRefs' = [NotifyRefs EXCEPT ![p] = 1]
      <4>1. /\ handle' = [handle EXCEPT ![p] = "leaked"]
            /\ UNCHANGED <<notifier, StartTime, told, late>>
        BY <1>0, <2>1, <3>2 DEF FqRegisterQueueNotification
      <4> QED BY <1>0, <3>2, <4>1
    <3> QED BY <2>1, <3>1, <3>2 DEF FqRegisterQueueNotification
  <2>2. CASE RegisterReturns(p) BY <1>0, <2>2 DEF RegisterReturns
  <2>3. CASE FqUnregisterQueueNotification(p) BY <1>0, <1>r, <2>3 DEF FqUnregisterQueueNotification
  <2>4. CASE FqUninitialize(p) BY <1>k, <2>4 DEF FqUninitialize
  <2> QED BY <1>5, <2>1, <2>2, <2>3, <2>4 DEF RegisterStep
<1>6. CASE UNCHANGED queueVars BY <1>k, <1>6 DEF queueVars
<1> QED BY <1>1, <1>2, <1>3, <1>4, <1>5, <1>6, QueueSteps, ThreadsApart

-----------------------------------------------------------------------------
LEMMA ThreadTypesStep == QueueTypes /\ [QueueNext]_queueVars => ThreadTypes'
<1> SUFFICES ASSUME QueueTypes, [QueueNext]_queueVars PROVE ThreadTypes' OBVIOUS
<1>0. ThreadTypes BY DEF QueueTypes
<1>k. ASSUME UNCHANGED WorkThreadInitialized PROVE ThreadTypes' BY <1>0, <1>k DEF ThreadTypes
<1>e. ASSUME NEW p \in Processes, NEW i \in {0, 1, 2},
             WorkThreadInitialized' = [WorkThreadInitialized EXCEPT ![p] = i]
      PROVE  ThreadTypes'
  BY <1>0, <1>e DEF ThreadTypes
<1>1. ASSUME NEW s \in Scanners, ScanStep(s) PROVE ThreadTypes' BY <1>k, <1>1 DEF ScanStep, workVars
<1>2. ASSUME NEW p \in Processes, EnumerateStep(p) \/ RegisterStep(p) \/ Notify(p) PROVE ThreadTypes'
  <2>1. UNCHANGED workVars
    BY <1>2 DEF EnumerateStep, FqEnumerateQueue, EnumCallback, EnumCallbackReturns, EnumReturns,
       RegisterStep, FqRegisterQueueNotification, RegisterReturns, FqUnregisterQueueNotification,
       FqUninitialize, Notify, NotifierStarts, NotifierScans, NotifierChecks, NotificationCallback,
       NotifierScanned, NotifierWaits, NotifierExits, notifierOther
  <2> QED BY <1>k, <2>1 DEF workVars
<1>3. ASSUME NEW p \in Processes, QueueStep(p) PROVE ThreadTypes'
  BY <1>k, <1>e, <1>3 DEF QueueStep, FqInsertFile, EnterQueue, WorkerStarted, SignalWorker, workVars
<1>4. ASSUME NEW p \in Processes, WorkerStep(p) PROVE ThreadTypes'
  BY <1>k, <1>e, <1>4 DEF WorkerStep, Work, WorkerStarts, WorkerWaits, WorkerTimesOut, WorkerEnds,
     WorkerNext, WorkerOpens, WorkerLocks, WorkerWrites, WorkerCloses, WorkerDeletes, executeOther
<1>5. CASE UNCHANGED queueVars BY <1>k, <1>5 DEF queueVars, workVars
<1> QED BY <1>1, <1>2, <1>3, <1>4, <1>5, QueueSteps, ThreadsApart

-----------------------------------------------------------------------------
\* An item is built for the own process and moves through its queue to its worker.
LEMMA ItemsOwnedStep == QueueTypes /\ ItemsOwned /\ [QueueNext]_queueVars => ItemsOwned'
<1> SUFFICES ASSUME QueueTypes, ItemsOwned, [QueueNext]_queueVars PROVE ItemsOwned' OBVIOUS
<1>0. WorkTypes /\ ThreadTypes BY DEF QueueTypes
<1>k. ASSUME UNCHANGED <<WorkThreadInitialized, call, item, worker, WorkQueue>>,
             \A p \in Processes : client'[p] \in {"enter", "starting"} => client[p] \in {"enter", "starting"}
      PROVE  ItemsOwned'
  BY <1>k DEF ItemsOwned
<1> USE DEF ClientAt, WorkerAt
<1>1. ASSUME NEW s \in Scanners, ScanStep(s) PROVE ItemsOwned'
  BY <1>k, <1>1 DEF ScanStep, workVars, clientVars
<1>2. ASSUME NEW p \in Processes, EnumerateStep(p) PROVE ItemsOwned'
  BY <1>k, <1>2 DEF EnumerateStep, FqEnumerateQueue, EnumCallback, EnumCallbackReturns, EnumReturns,
     workVars, clientVars
<1>3. ASSUME NEW p \in Processes, Notify(p) PROVE ItemsOwned'
  <2>1. UNCHANGED <<workVars, clientVars>>
    BY <1>3 DEF Notify, NotifierStarts, NotifierScans, NotifierChecks, NotificationCallback,
       NotifierScanned, NotifierWaits, NotifierExits, notifierOther
  <2> QED BY <1>k, <2>1 DEF workVars, clientVars
<1>4. ASSUME NEW p \in Processes, RegisterStep(p) PROVE ItemsOwned'
  <2>1. UNCHANGED workVars /\ UNCHANGED call
    BY <1>4 DEF RegisterStep, FqRegisterQueueNotification, RegisterReturns,
       FqUnregisterQueueNotification, FqUninitialize, clientVars
  <2>2. client' = client \/ client' = [client EXCEPT ![p] = "registering"]
        \/ client' = [client EXCEPT ![p] = "idle"]
    BY <1>4 DEF RegisterStep, FqRegisterQueueNotification, RegisterReturns,
       FqUnregisterQueueNotification, FqUninitialize, clientVars
  <2> QED BY <1>0, <1>k, <2>1, <2>2 DEF WorkTypes, workVars
<1>5. ASSUME NEW p \in Processes, QueueStep(p) PROVE ItemsOwned'
  <2>1. CASE FqInsertFile(p)
    <3>1. PICK type \in {"WRITERECORD", "DELETERECORD"}, n \in Names :
             Owner[n] = p /\ call' = [call EXCEPT ![p] = [type |-> type, name |-> n]]
      BY <2>1 DEF FqInsertFile, FqiBuildWorkItem
    <3>2. [type |-> type, name |-> n] \in WorkItems BY DEF WorkItems
    <3>3. [type |-> type, name |-> n] # None BY <3>2, QueueAssumption
    <3>4. UNCHANGED <<WorkThreadInitialized, item, worker, WorkQueue>> /\ ClientAt(p, "enter")
      BY <2>1 DEF FqInsertFile, workVars
    <3>5. call'[p] # None /\ Owner[call'[p].name] = p
      BY <1>0, <3>1, <3>3 DEF WorkTypes
    <3>6. \A q \in Processes \ {p} : call'[q] = call[q] /\ client'[q] = client[q]
      BY <1>0, <3>1, <3>4 DEF WorkTypes
    <3> QED BY <3>4, <3>5, <3>6 DEF ItemsOwned
  <2>2. ASSUME InsertItem(p), client[p] \in {"enter", "starting"}, UNCHANGED <<item, worker, call>>,
               \A q \in Processes : WorkThreadInitialized'[q] = 0 => WorkThreadInitialized[q] = 0
        PROVE  ItemsOwned'
    <3>1. call[p] \in WorkItems /\ Owner[call[p].name] = p BY <1>0, <2>2 DEF ItemsOwned, WorkTypes, ThreadTypes
    <3>2. WorkQueue' = [WorkQueue EXCEPT ![p] = Append(@, call[p])] /\ ClientAt(p, "signal")
      BY <2>2 DEF InsertItem
    <3>3. WorkQueue[p] \in Seq(WorkItems) BY <1>0 DEF WorkTypes
    <3>4. \A i \in 1 .. Len(WorkQueue'[p]) : Owner[WorkQueue'[p][i].name] = p
      <4>1. WorkQueue'[p] = Append(WorkQueue[p], call[p]) BY <1>0, <3>2 DEF WorkTypes
      <4>2. \A i \in 1 .. Len(WorkQueue[p]) : Owner[WorkQueue[p][i].name] = p BY DEF ItemsOwned
      <4> QED BY <3>1, <3>3, <4>1, <4>2
    <3>5. \A q \in Processes \ {p} : WorkQueue'[q] = WorkQueue[q] /\ client'[q] = client[q]
      BY <1>0, <3>2 DEF WorkTypes
    <3>6. client'[p] = "signal" BY <1>0, <3>2 DEF WorkTypes
    <3> QED BY <2>2, <3>4, <3>5, <3>6 DEF ItemsOwned
  <2>3. CASE EnterQueue(p)
    <3>1. client[p] = "enter" /\ UNCHANGED item BY <2>3 DEF EnterQueue
    <3>2. CASE InsertItem(p) /\ UNCHANGED <<WorkThreadInitialized, worker, call>> BY <2>2, <3>1, <3>2
    <3>3. CASE /\ WorkThreadInitialized[p] = 0 /\ WorkerAt(p, "starting") /\ ClientAt(p, "starting")
               /\ UNCHANGED <<WorkQueue, call>>
      <4>1. worker[p] \notin Executing BY <3>3 DEF ItemsOwned, Executing
      <4>2. "starting" \notin Executing BY DEF Executing
      <4>3. WorkThreadInitialized' = [WorkThreadInitialized EXCEPT ![p] = 1]
        BY <1>0, <2>3, <3>3 DEF EnterQueue, ThreadTypes, WorkTypes
      <4> QED BY <1>0, <3>1, <3>3, <4>1, <4>2, <4>3 DEF ItemsOwned, WorkTypes, ThreadTypes
    <3>4. CASE /\ ClientAt(p, "idle") /\ call' = [call EXCEPT ![p] = None]
               /\ UNCHANGED <<WorkThreadInitialized, WorkQueue, worker>>
      BY <1>0, <3>1, <3>4 DEF ItemsOwned, WorkTypes, ThreadTypes
    <3> QED BY <2>3, <3>2, <3>3, <3>4 DEF EnterQueue
  <2>4. CASE WorkerStarted(p)
    <3>1. \A q \in Processes : WorkThreadInitialized'[q] = 0 => WorkThreadInitialized[q] = 0
      BY <1>0, <2>4 DEF WorkerStarted, ThreadTypes
    <3> QED BY <2>2, <2>4, <3>1 DEF WorkerStarted
  <2>5. CASE SignalWorker(p) BY <1>0, <2>5 DEF SignalWorker, ItemsOwned, WorkTypes
  <2> QED BY <1>5, <2>1, <2>3, <2>4, <2>5 DEF QueueStep
<1>6. ASSUME NEW p \in Processes, WorkerStep(p) PROVE ItemsOwned'
  <2> USE DEF workerOther, executeOther, clientVars
  <2>k. ASSUME WorkerAt(p, "lock") \/ WorkerAt(p, "write") \/ WorkerAt(p, "close")
                  \/ WorkerAt(p, "corrupt") \/ WorkerAt(p, "delete"),
               worker[p] \in Executing,
               UNCHANGED <<WorkThreadInitialized, WorkQueue, client, call, item>>
        PROVE  ItemsOwned'
    BY <1>0, <2>k DEF ItemsOwned, WorkTypes, ThreadTypes, Executing
  <2>n. ASSUME NEW l \in {"none", "starting", "wait", "timeout", "next"}, WorkerAt(p, l),
               worker[p] \notin Executing, WorkThreadInitialized[p] # 0,
               \/ UNCHANGED WorkThreadInitialized
               \/ l = "none" /\ WorkThreadInitialized' = [WorkThreadInitialized EXCEPT ![p] = 0],
               UNCHANGED <<WorkQueue, client, call, item>>
        PROVE  ItemsOwned'
    BY <1>0, <2>n DEF ItemsOwned, WorkTypes, ThreadTypes, Executing
  <2>d. ASSUME FqiDestroyWorkItem(p), worker[p] \in Executing,
               UNCHANGED <<WorkThreadInitialized, WorkQueue, client, call>>
        PROVE  ItemsOwned'
    BY <1>0, <2>d DEF FqiDestroyWorkItem, ItemsOwned, WorkTypes, Executing
  <2>z. worker[p] # "none" => WorkThreadInitialized[p] # 0 BY DEF ItemsOwned
  <2>1. CASE WorkerStarts(p) BY <2>n, <2>z, <2>1 DEF WorkerStarts, Executing
  <2>2. CASE WorkerWaits(p)  BY <2>n, <2>z, <2>2 DEF WorkerWaits, Executing
  <2>3. CASE WorkerTimesOut(p) BY <2>n, <2>z, <2>3 DEF WorkerTimesOut, Executing
  <2>4. CASE WorkerEnds(p) BY <2>n, <2>z, <2>4 DEF WorkerEnds, Executing
  <2>5. CASE WorkerNext(p)
    <3>1. CASE WorkQueue[p] = <<>> BY <2>n, <2>z, <2>5, <3>1 DEF WorkerNext, Executing
    <3>2. CASE WorkQueue[p] # <<>>
      <4>1. WorkQueue[p] \in Seq(WorkItems) BY <1>0 DEF WorkTypes
      <4>2. /\ Head(WorkQueue[p]) \in WorkItems /\ Owner[Head(WorkQueue[p]).name] = p
            /\ \A i \in 1 .. Len(Tail(WorkQueue[p])) : Owner[Tail(WorkQueue[p])[i].name] = p
        <5>1. \A i \in 1 .. Len(WorkQueue[p]) : Owner[WorkQueue[p][i].name] = p BY DEF ItemsOwned
        <5>2. Head(WorkQueue[p]) = WorkQueue[p][1] /\ 1 \in 1 .. Len(WorkQueue[p]) BY <3>2, <4>1
        <5>3. /\ Len(Tail(WorkQueue[p])) = Len(WorkQueue[p]) - 1
              /\ \A i \in 1 .. Len(Tail(WorkQueue[p])) : Tail(WorkQueue[p])[i] = WorkQueue[p][i + 1]
          BY <3>2, <4>1
        <5>4. \A i \in 1 .. Len(Tail(WorkQueue[p])) : i + 1 \in 1 .. Len(WorkQueue[p])
          BY <4>1, <5>3
        <5> QED BY <4>1, <5>1, <5>2, <5>3, <5>4
      <4>3. Head(WorkQueue[p]) # None BY <4>2, QueueAssumption
      <4>4. /\ WorkQueue' = [WorkQueue EXCEPT ![p] = Tail(@)]
            /\ item' = [item EXCEPT ![p] = Head(WorkQueue[p])] /\ WorkerAt(p, "open")
            /\ UNCHANGED <<WorkThreadInitialized, client, call>> /\ worker[p] = "next"
        BY <2>5, <3>2 DEF WorkerNext
      <4>5. \A i \in 1 .. Len(WorkQueue'[p]) : Owner[WorkQueue'[p][i].name] = p
        BY <1>0, <4>2, <4>4 DEF WorkTypes
      <4>6. \A q \in Processes \ {p} : WorkQueue'[q] = WorkQueue[q] BY <1>0, <4>4 DEF WorkTypes
      <4>7. item'[p] = Head(WorkQueue[p]) /\ worker'[p] = "open"
            /\ \A q \in Processes \ {p} : item'[q] = item[q] /\ worker'[q] = worker[q]
        BY <1>0, <4>4 DEF WorkTypes
      <4> QED BY <2>z, <4>2, <4>3, <4>4, <4>5, <4>6, <4>7 DEF ItemsOwned, Executing
    <3> QED BY <3>1, <3>2
  <2>6. CASE WorkerOpens(p) BY <2>k, <2>d, <2>6 DEF WorkerOpens, Executing
  <2>7. CASE WorkerLocks(p) BY <2>k, <2>7 DEF WorkerLocks, Executing
  <2>8. CASE WorkerWrites(p) BY <2>k, <2>8 DEF WorkerWrites, WriteRecord, DeleteRecord, Executing
  <2>9. CASE WorkerCloses(p) BY <2>k, <2>d, <2>9 DEF WorkerCloses, Executing
  <2>10. CASE WorkerDeletes(p) BY <2>d, <2>10 DEF WorkerDeletes, Executing
  <2> QED BY <1>6, <2>1, <2>2, <2>3, <2>4, <2>5, <2>6, <2>7, <2>8, <2>9, <2>10 DEF WorkerStep, Work
<1>7. CASE UNCHANGED queueVars BY <1>k, <1>7 DEF queueVars, workVars, clientVars
<1> QED BY <1>1, <1>2, <1>3, <1>4, <1>5, <1>6, <1>7, QueueSteps, ThreadsApart

-----------------------------------------------------------------------------
\* A scan under way goes on and is in no callback.
LEMMA ScanGoesOn ==
    ASSUME ScanTypes, NEW s \in Scanners, ScanStep(s)
    PROVE  /\ scan[s].at \notin {"idle", "callback"} /\ scan'[s].at \notin {"idle", "callback"}
           /\ \A t \in Scanners \ {s} : scan'[t] = scan[t]
<1>t. scan \in [Scanners -> Scans] BY DEF ScanTypes
<1>1. CASE ScanOpen(s) BY <1>t, <1>1, ScanOpenDoes DEF ScanIs
<1>2. CASE ScanLock(s) BY <1>t, <1>2, ScanLockDoes DEF ScanIs
<1>3. CASE ScanClose(s) BY <1>t, <1>3, ScanCloseDoes DEF ScanIs
<1>4. CASE ScanDelete(s) BY <1>t, <1>4, ScanDeleteDoes DEF ScanIs
<1> QED BY <1>1, <1>2, <1>3, <1>4 DEF ScanStep

\* The client's enumeration, from its start to its end.
LEMMA EnumerationGoesOn ==
    ASSUME ScanTypes, NEW p \in Processes, EnumerateStep(p)
    PROVE  /\ \A t \in Scanners \ {Client(p)} : scan'[t] = scan[t]
           /\ FqEnumerateQueue(p) => scan[Client(p)].at = "idle" /\ scan'[Client(p)].at # "idle"
           /\ EnumCallback(p) \/ EnumCallbackReturns(p) =>
                 scan[Client(p)].at # "idle" /\ scan'[Client(p)].at # "idle"
           /\ EnumReturns(p) => scan[Client(p)].at # "idle" /\ scan'[Client(p)].at = "idle"
<1>t. scan \in [Scanners -> Scans] BY DEF ScanTypes
<1>s. Client(p) \in Scanners BY ThreadsApart
<1> DEFINE c == Client(p)
           Others == \A t \in Scanners \ {c} : scan'[t] = scan[t]
<1>1. ASSUME FqEnumerateQueue(p) PROVE Others /\ scan[c].at = "idle" /\ scan'[c].at # "idle"
  <2>1. StartScan(c, 0) /\ scan[c].at = "idle" BY <1>1 DEF FqEnumerateQueue
  <2> DEFINE since == 0
  <2>2. since \in Nat /\ StartScan(c, since) BY <2>1
  <2> HIDE DEF since
  <2>3. ScanIs(c, "files", {b \in Buckets : files[b] # "none"}, scan[c].names, scan[c].bucket,
               since, scan[c].name)
    BY <1>t, <1>s, <2>2, ScanStarts
  <2> QED BY <2>1, <2>3 DEF ScanIs
<1>2. ASSUME EnumCallback(p) PROVE Others /\ scan[c].at # "idle" /\ scan'[c].at # "idle"
  <2>1. ScanRecord(c, "callback") BY <1>2 DEF EnumCallback
  <2>2. PICK n \in Names : /\ scan[c].at = "read"
                           /\ ScanIs(c, "callback", scan[c].files, scan[c].names \ {n}, scan[c].bucket,
                                     scan[c].since, n)
    BY <1>t, <1>s, <2>1, ScanRecordDoes
  <2> QED BY <2>2 DEF ScanIs
<1>3. ASSUME EnumCallbackReturns(p) PROVE Others /\ scan[c].at # "idle" /\ scan'[c].at # "idle"
  <2>1. PICK continue \in BOOLEAN : CallbackReturns(c, continue) BY <1>3 DEF EnumCallbackReturns
  <2>2. scan[c].at = "callback" BY <1>3 DEF EnumCallbackReturns
  <2>3. CASE continue BY <1>t, <1>s, <2>1, <2>2, <2>3, CallbackReturnsDoes DEF ScanIs
  <2>4. CASE ~continue BY <1>t, <1>s, <2>1, <2>2, <2>4, CallbackReturnsDoes DEF ScanIs
  <2> QED BY <2>3, <2>4
<1>4. ASSUME EnumReturns(p) PROVE Others /\ scan[c].at # "idle" /\ scan'[c].at = "idle"
  <2>1. scan' = [scan EXCEPT ![c] = NoScan] /\ scan[c].at = "files" BY <1>4 DEF EnumReturns, ScanEnds
  <2> QED BY <1>t, <1>s, <2>1, ScanStops DEF ScanIs
<1> HIDE DEF Others
<1>5. Others BY <1>1, <1>2, <1>3, <1>4 DEF EnumerateStep
<1> QED BY <1>1, <1>2, <1>3, <1>4, <1>5 DEF Others

\* The notifier's scan.
LEMMA NotificationGoesOn ==
    ASSUME QueueTypes, NEW p \in Processes, Notify(p)
    PROVE  /\ \A t \in Scanners \ {Notifier(p)} : scan'[t] = scan[t]
           /\ NotifierScans(p) => scan'[Notifier(p)].at = "files"
           /\ NotifierChecks(p) =>
                 /\ scan[Notifier(p)].at = "read" /\ scan'[Notifier(p)].at # "idle"
                 /\ NotifyRefs[p] = 1 => scan'[Notifier(p)].at # "callback"
           /\ NotificationCallback(p) =>
                 scan[Notifier(p)].at = "callback" /\ scan'[Notifier(p)].at = "read"
           /\ NotifierScanned(p) =>
                 scan[Notifier(p)].at = "files" /\ scan'[Notifier(p)].at = "idle"
           /\ NotifierStarts(p) \/ NotifierWaits(p) \/ NotifierExits(p) => UNCHANGED scan
<1>t. scan \in [Scanners -> Scans] BY DEF ScanTypes, QueueTypes
<1>s. Notifier(p) \in Scanners BY ThreadsApart
<1>n. StartTime \in [Processes -> Nat] /\ Slack \in Nat
  BY QueueAssumption DEF QueueTypes, NotifyTypes
<1> DEFINE c == Notifier(p)
           Others == \A t \in Scanners \ {c} : scan'[t] = scan[t]
<1>1. ASSUME NotifierScans(p) PROVE Others /\ scan'[c].at = "files"
  BY <1>t, <1>n, <1>1, NotifierScansDoes DEF ScanIs
<1>2. ASSUME NotifierChecks(p)
      PROVE  /\ Others /\ scan[c].at = "read" /\ scan'[c].at # "idle"
             /\ NotifyRefs[p] = 1 => scan'[c].at # "callback"
  <2>1. CASE NotifyRefs[p] = 1 BY <1>t, <1>2, <2>1, NotifierChecksDoes DEF ScanIs
  <2>2. CASE NotifyRefs[p] # 1
    <3>1. PICK n \in Names :
             /\ scan[c].at = "read"
             /\ ScanIs(c, "callback", scan[c].files, scan[c].names \ {n}, scan[c].bucket,
                       scan[c].since, n)
      BY <1>t, <1>2, <2>2, NotifierChecksDoes
    <3> QED BY <2>2, <3>1 DEF ScanIs
  <2> QED BY <2>1, <2>2
<1>3. ASSUME NotificationCallback(p) PROVE Others /\ scan[c].at = "callback" /\ scan'[c].at = "read"
  <2>1. CallbackReturns(c, TRUE) /\ scan[c].at = "callback" BY <1>3 DEF NotificationCallback
  <2> QED BY <1>t, <1>s, <2>1, CallbackReturnsDoes DEF ScanIs
<1>4. ASSUME NotifierScanned(p) PROVE Others /\ scan[c].at = "files" /\ scan'[c].at = "idle"
  <2>1. scan' = [scan EXCEPT ![c] = NoScan] /\ scan[c].at = "files" BY <1>4 DEF NotifierScanned, ScanEnds
  <2> QED BY <1>t, <1>s, <2>1, ScanStops DEF ScanIs
<1>5. ASSUME NotifierStarts(p) \/ NotifierWaits(p) \/ NotifierExits(p) PROVE Others /\ UNCHANGED scan
  BY <1>5 DEF NotifierStarts, NotifierWaits, NotifierExits
<1> HIDE DEF Others
<1>6. Others BY <1>1, <1>2, <1>3, <1>4, <1>5 DEF Notify
<1> QED BY <1>1, <1>2, <1>3, <1>4, <1>5, <1>6 DEF Others

-----------------------------------------------------------------------------
\* A step of one process changes the contexts of no other.
Elsewhere(p) ==
    \A q \in Processes \ {p} :
        /\ QueueRefs'[q] = QueueRefs[q] /\ NotifyRefs'[q] = NotifyRefs[q]
        /\ q \in opened' <=> q \in opened
        /\ client'[q] = client[q] /\ WorkQueue'[q] = WorkQueue[q] /\ item'[q] = item[q]
        /\ handle'[q] = handle[q] /\ notifier'[q] = notifier[q] /\ late'[q] = late[q]
        /\ scan'[Client(q)] = scan[Client(q)] /\ scan'[Notifier(q)] = scan[Notifier(q)]

LEMMA ElsewhereKept ==
    ASSUME QueueTypes, NEW p \in Processes,
           \/ QueueStep(p) \/ EnumerateStep(p) \/ RegisterStep(p) \/ Notify(p) \/ WorkerStep(p)
           \/ ScanStep(Client(p)) \/ ScanStep(Notifier(p))
    PROVE  Elsewhere(p)
<1>w. WorkTypes BY DEF QueueTypes
<1>n. NotifyTypes BY DEF QueueTypes
<1>s. ScanTypes BY DEF QueueTypes
<1>a. \A q \in Processes \ {p} :
         /\ Client(q) \in Scanners \ {Client(p), Notifier(p)}
         /\ Notifier(q) \in Scanners \ {Client(p), Notifier(p)}
  BY ThreadsApart
<1> USE DEF ClientAt, AddRefs, NotifierAt
<1>1. CASE QueueStep(p)
  <2>1. UNCHANGED <<notifyVars, scan>> BY <1>1, OthersKeepScans DEF QueueStep
  <2>2. \A q \in Processes \ {p} :
           /\ QueueRefs'[q] = QueueRefs[q] /\ client'[q] = client[q] /\ WorkQueue'[q] = WorkQueue[q]
    <3>1. CASE FqInsertFile(p) BY <1>w, <3>1 DEF FqInsertFile, WorkTypes, workVars
    <3>2. CASE EnterQueue(p) BY <1>w, <3>2 DEF EnterQueue, InsertItem, WorkTypes
    <3>3. CASE WorkerStarted(p) BY <1>w, <3>3 DEF WorkerStarted, InsertItem, WorkTypes
    <3>4. CASE SignalWorker(p) BY <1>w, <3>4 DEF SignalWorker, WorkTypes
    <3> QED BY <1>1, <3>1, <3>2, <3>3, <3>4 DEF QueueStep
  <2>3. UNCHANGED <<item, opened>>
    BY <1>1 DEF QueueStep, FqInsertFile, EnterQueue, WorkerStarted, SignalWorker, workVars
  <2> QED BY <2>1, <2>2, <2>3 DEF Elsewhere, notifyVars
<1>2. CASE EnumerateStep(p)
  <2>1. UNCHANGED <<workVars, notifyVars, client, opened>>
    BY <1>2 DEF EnumerateStep, FqEnumerateQueue, EnumCallback, EnumCallbackReturns, EnumReturns, clientVars
  <2>2. UNCHANGED QueueRefs \/ AddRefs(p, 1) \/ AddRefs(p, -1)
    BY <1>2 DEF EnumerateStep, FqEnumerateQueue, EnumCallback, EnumCallbackReturns, EnumReturns
  <2>3. \A t \in Scanners \ {Client(p)} : scan'[t] = scan[t] BY <1>s, <1>2, EnumerationGoesOn
  <2> QED BY <1>a, <1>w, <2>1, <2>2, <2>3 DEF Elsewhere, notifyVars, workVars, WorkTypes
<1>3. CASE RegisterStep(p)
  <2>1. UNCHANGED <<workVars, scan>>
    BY <1>3 DEF RegisterStep, FqRegisterQueueNotification, RegisterReturns,
       FqUnregisterQueueNotification, FqUninitialize
  <2>2. \A q \in Processes \ {p} :
           /\ QueueRefs'[q] = QueueRefs[q] /\ client'[q] = client[q] /\ NotifyRefs'[q] = NotifyRefs[q]
           /\ handle'[q] = handle[q] /\ notifier'[q] = notifier[q] /\ late'[q] = late[q]
           /\ q \in opened' <=> q \in opened
    <3> USE DEF WorkTypes, NotifyTypes
    <3>1. CASE FqRegisterQueueNotification(p) BY <1>w, <1>n, <3>1 DEF FqRegisterQueueNotification
    <3>2. CASE RegisterReturns(p) BY <1>w, <1>n, <3>2 DEF RegisterReturns
    <3>3. CASE FqUnregisterQueueNotification(p)
      BY <1>w, <1>n, <3>3 DEF FqUnregisterQueueNotification, ReleaseNotify, clientVars
    <3>4. CASE FqUninitialize(p) BY <1>w, <1>n, <3>4 DEF FqUninitialize, notifyVars
    <3> QED BY <1>3, <3>1, <3>2, <3>3, <3>4 DEF RegisterStep
  <2> QED BY <2>1, <2>2 DEF Elsewhere, workVars
<1>4. CASE Notify(p)
  <2>1. UNCHANGED <<workVars, client, opened, handle>>
    BY <1>4 DEF Notify, NotifierStarts, NotifierScans, NotifierChecks, NotificationCallback,
       NotifierScanned, NotifierWaits, NotifierExits, notifierOther, clientVars
  <2>2. \A q \in Processes \ {p} :
           /\ QueueRefs'[q] = QueueRefs[q] /\ NotifyRefs'[q] = NotifyRefs[q]
           /\ notifier'[q] = notifier[q] /\ late'[q] = late[q]
    <3> USE DEF WorkTypes, NotifyTypes
    <3>1. CASE NotifierStarts(p) BY <1>w, <1>n, <3>1 DEF NotifierStarts
    <3>2. CASE NotifierScans(p) BY <1>w, <1>n, <3>2 DEF NotifierScans
    <3>3. CASE NotifierChecks(p) BY <1>w, <1>n, <3>3 DEF NotifierChecks
    <3>4. CASE NotificationCallback(p) BY <1>w, <1>n, <3>4 DEF NotificationCallback
    <3>5. CASE NotifierScanned(p) BY <1>w, <1>n, <3>5 DEF NotifierScanned
    <3>6. CASE NotifierWaits(p) BY <1>w, <1>n, <3>6 DEF NotifierWaits
    <3>7. CASE NotifierExits(p) BY <1>w, <1>n, <3>7 DEF NotifierExits, ReleaseNotify
    <3> QED BY <1>4, <3>1, <3>2, <3>3, <3>4, <3>5, <3>6, <3>7 DEF Notify
  <2>3. \A t \in Scanners \ {Notifier(p)} : scan'[t] = scan[t] BY <1>4, NotificationGoesOn
  <2> QED BY <1>a, <2>1, <2>2, <2>3 DEF Elsewhere, workVars
<1>5. CASE WorkerStep(p)
  <2>1. UNCHANGED <<notifyVars, clientVars, scan>>
    BY <1>5 DEF WorkerStep, Work, WorkerStarts, WorkerWaits, WorkerTimesOut, WorkerEnds,
       WorkerNext, WorkerOpens, WorkerLocks, WorkerWrites, WorkerCloses, WorkerDeletes, executeOther, workerOther
  <2>2. UNCHANGED QueueRefs \/ AddRefs(p, -1)
    BY <1>5 DEF WorkerStep, Work, WorkerStarts, WorkerWaits, WorkerTimesOut, WorkerEnds,
       WorkerNext, WorkerOpens, WorkerLocks, WorkerWrites, WorkerCloses, WorkerDeletes, FqiDestroyWorkItem
  <2>3. \A q \in Processes \ {p} : WorkQueue'[q] = WorkQueue[q] /\ item'[q] = item[q]
    <3>1. CASE WorkerNext(p) BY <1>w, <3>1 DEF WorkerNext, WorkTypes
    <3>2. CASE ~WorkerNext(p)
      <4>1. UNCHANGED WorkQueue /\ (UNCHANGED item \/ item' = [item EXCEPT ![p] = None])
        BY <1>5, <3>2 DEF WorkerStep, Work, WorkerStarts, WorkerWaits, WorkerTimesOut, WorkerEnds,
           WorkerOpens, WorkerLocks, WorkerWrites, WorkerCloses, WorkerDeletes, executeOther,
           FqiDestroyWorkItem
      <4> QED BY <1>w, <4>1 DEF WorkTypes
    <3> QED BY <3>1, <3>2
  <2> QED BY <1>w, <2>1, <2>2, <2>3 DEF Elsewhere, notifyVars, clientVars, WorkTypes
<1>6. ASSUME NEW s \in {Client(p), Notifier(p)}, ScanStep(s) PROVE Elsewhere(p)
  <2>1. \A t \in Scanners \ {s} : scan'[t] = scan[t] BY <1>s, <1>6, ThreadsApart, ScanGoesOn
  <2> QED BY <1>a, <1>6, <2>1 DEF ScanStep, Elsewhere, workVars, clientVars, notifyVars
<1> QED BY <1>1, <1>2, <1>3, <1>4, <1>5, <1>6

-----------------------------------------------------------------------------
\* Registered, process by process.
RegisteredBy(p) ==
    /\ notifier[p] = "scanning" <=> scan[Notifier(p)].at # "idle"
    /\ notifier[p] = "starting" => client[p] = "registering"
    /\ client[p] = "registering" => handle[p] = "none"
    /\ handle[p] = "none" /\ client[p] # "registering" => notifier[p] = "none"
    /\ handle[p] = "leaked" => notifier[p] = "none"

LEMMA RegisteredByEach == Registered <=> \A p \in Processes : RegisteredBy(p)
BY DEF Registered, RegisteredBy

LEMMA RegisteredStep == QueueTypes /\ Registered /\ [QueueNext]_queueVars => Registered'
<1> SUFFICES ASSUME QueueTypes, Registered, [QueueNext]_queueVars PROVE Registered' OBVIOUS
<1>w. WorkTypes /\ NotifyTypes /\ ScanTypes BY DEF QueueTypes
<1>r. \A p \in Processes : RegisteredBy(p) BY RegisteredByEach
<1>e. ASSUME NEW p \in Processes, Elsewhere(p), RegisteredBy(p)' PROVE Registered'
  <2>1. \A q \in Processes \ {p} : RegisteredBy(q)' BY <1>r, <1>e DEF Elsewhere, RegisteredBy
  <2>2. \A q \in Processes : RegisteredBy(q)' BY <1>e, <2>1
  <2> QED BY <2>2 DEF Registered, RegisteredBy
<1>k. ASSUME NEW p \in Processes, UNCHANGED notifyVars,
             scan'[Notifier(p)].at = "idle" <=> scan[Notifier(p)].at = "idle",
             client'[p] = "registering" <=> client[p] = "registering"
      PROVE  RegisteredBy(p)'
  BY <1>r, <1>k DEF RegisteredBy, notifyVars
<1> USE DEF ClientAt, NotifierAt
<1>1. ASSUME NEW p \in Processes, NEW s \in {Client(p), Notifier(p)}, ScanStep(s) PROVE Registered'
  <2>1. scan'[Notifier(p)].at = "idle" <=> scan[Notifier(p)].at = "idle"
    BY <1>w, <1>1, ScanGoesOn, ThreadsApart
  <2>2. Elsewhere(p) BY <1>1, ElsewhereKept
  <2>3. UNCHANGED <<client, notifyVars>> BY <1>1 DEF ScanStep, clientVars
  <2> QED BY <1>e, <1>k, <2>1, <2>2, <2>3
<1>2. ASSUME NEW p \in Processes, EnumerateStep(p) PROVE Registered'
  <2>1. scan'[Notifier(p)] = scan[Notifier(p)] BY <1>w, <1>2, EnumerationGoesOn, ThreadsApart
  <2>2. Elsewhere(p) BY <1>2, ElsewhereKept
  <2>3. UNCHANGED <<client, notifyVars>>
    BY <1>2 DEF EnumerateStep, FqEnumerateQueue, EnumCallback, EnumCallbackReturns, EnumReturns, clientVars
  <2> QED BY <1>e, <1>k, <2>1, <2>2, <2>3
<1>3. ASSUME NEW p \in Processes, QueueStep(p) PROVE Registered'
  <2>1. UNCHANGED <<scan, notifyVars>> BY <1>3, OthersKeepScans DEF QueueStep
  <2>2. client[p] # "registering" /\ client'[p] # "registering"
    <3>1. CASE FqInsertFile(p) BY <1>w, <3>1 DEF FqInsertFile, Calls, WorkTypes
    <3>2. CASE EnterQueue(p) BY <1>w, <3>2 DEF EnterQueue, InsertItem, WorkTypes
    <3>3. CASE WorkerStarted(p) BY <1>w, <3>3 DEF WorkerStarted, InsertItem, WorkTypes
    <3>4. CASE SignalWorker(p) BY <1>w, <3>4 DEF SignalWorker, WorkTypes
    <3> QED BY <1>3, <3>1, <3>2, <3>3, <3>4 DEF QueueStep
  <2> QED BY <1>e, <1>k, <1>3, <2>1, <2>2, ElsewhereKept
<1>4. ASSUME NEW p \in Processes, WorkerStep(p) PROVE Registered'
  <2>1. UNCHANGED <<client, notifyVars>>
    BY <1>4 DEF WorkerStep, Work, WorkerStarts, WorkerWaits, WorkerTimesOut, WorkerEnds,
       WorkerNext, WorkerOpens, WorkerLocks, WorkerWrites, WorkerCloses, WorkerDeletes, executeOther,
       workerOther, clientVars
  <2> QED BY <1>e, <1>k, <1>4, <2>1, OthersKeepScans, ElsewhereKept
<1>5. ASSUME NEW p \in Processes, RegisterStep(p) PROVE Registered'
  <2> SUFFICES RegisteredBy(p)' BY <1>e, <1>5, ElsewhereKept
  <2>s. UNCHANGED scan BY <1>5, OthersKeepScans
  <2>r. RegisteredBy(p) BY <1>r
  <2> USE DEF WorkTypes, NotifyTypes
  <2>1. CASE FqRegisterQueueNotification(p)
    <3>1. \/ notifier'[p] = "starting" /\ client'[p] = "registering" /\ handle'[p] = "none"
          \/ handle'[p] = "leaked" /\ notifier'[p] = notifier[p] /\ client'[p] = client[p]
      BY <1>w, <2>1 DEF FqRegisterQueueNotification
    <3>2. client[p] = "idle" /\ handle[p] = "none" BY <2>1 DEF FqRegisterQueueNotification
    <3> QED BY <2>s, <2>r, <3>1, <3>2 DEF RegisteredBy
  <2>2. CASE RegisterReturns(p)
    <3>1. /\ client[p] = "registering" /\ notifier[p] # "starting" /\ client'[p] = "idle"
          /\ handle'[p] = "held" /\ notifier'[p] = notifier[p]
      BY <1>w, <2>2 DEF RegisterReturns
    <3> QED BY <2>s, <2>r, <3>1 DEF RegisteredBy
  <2>3. CASE FqUnregisterQueueNotification(p)
    <3>1. /\ client[p] = "idle" /\ handle[p] = "held" /\ client'[p] = "idle"
          /\ handle'[p] = "released" /\ notifier'[p] = notifier[p]
      BY <1>w, <2>3 DEF FqUnregisterQueueNotification, clientVars
    <3> QED BY <2>s, <2>r, <3>1 DEF RegisteredBy
  <2>4. CASE FqUninitialize(p)
    BY <1>k, <2>s, <2>4 DEF FqUninitialize
  <2> QED BY <1>5, <2>1, <2>2, <2>3, <2>4 DEF RegisterStep
<1>6. ASSUME NEW p \in Processes, Notify(p) PROVE Registered'
  <2> SUFFICES RegisteredBy(p)' BY <1>e, <1>6, ElsewhereKept
  <2>r. RegisteredBy(p) BY <1>r
  <2>n. UNCHANGED <<client, handle>>
    BY <1>6 DEF Notify, NotifierStarts, NotifierScans, NotifierChecks, NotificationCallback,
       NotifierScanned, NotifierWaits, NotifierExits, notifierOther, clientVars
  <2> USE DEF NotifyTypes
  <2>1. CASE NotifierStarts(p)
    BY <1>w, <2>r, <2>n, <2>1 DEF NotifierStarts, RegisteredBy
  <2>2. CASE NotifierScans(p)
    BY <1>w, <1>6, <2>r, <2>n, <2>2, NotificationGoesOn DEF NotifierScans, RegisteredBy
  <2>3. CASE NotifierChecks(p) \/ NotificationCallback(p)
    BY <1>w, <1>6, <2>r, <2>n, <2>3, NotificationGoesOn
    DEF NotifierChecks, NotificationCallback, RegisteredBy
  <2>4. CASE NotifierScanned(p)
    BY <1>w, <1>6, <2>r, <2>n, <2>4, NotificationGoesOn DEF NotifierScanned, RegisteredBy
  <2>5. CASE NotifierWaits(p)
    BY <1>w, <2>r, <2>n, <2>5 DEF NotifierWaits, RegisteredBy
  <2>6. CASE NotifierExits(p)
    BY <1>w, <2>r, <2>n, <2>6 DEF NotifierExits, RegisteredBy
  <2> QED BY <1>6, <2>1, <2>2, <2>3, <2>4, <2>5, <2>6 DEF Notify
<1>7. CASE UNCHANGED queueVars BY <1>7 DEF queueVars, clientVars, notifyVars, Registered
<1> QED BY <1>1, <1>2, <1>3, <1>4, <1>5, <1>6, <1>7, QueueSteps

-----------------------------------------------------------------------------
\* The users of the contexts, kept apart: a step changes one or two of them.
OpenUse(p) == Count(p \in opened)
ScanUse(p) == Count(scan[Client(p)].at # "idle")
CallUse(p) == Count(client[p] # "idle")
EnterUse(p) == Count(client[p] \in {"enter", "starting"})
QueueUse(p) == Len(WorkQueue[p])
ItemUse(p) == Count(item[p] # None)
NotifyUse(p) == Count(NotifyRefs[p] > 0)
HandleUse(p) == Count(handle[p] \in {"held", "leaked"})
RegisterUse(p) == Count(client[p] = "registering")
ThreadUse(p) == Count(notifier[p] \notin {"none", "starting"})

\* ContextsCounted, process by process.
CountedFor(p) ==
    /\ QueueRefs[p] = OpenUse(p) + ScanUse(p) + CallUse(p) + EnterUse(p) + QueueUse(p) + ItemUse(p)
                      + NotifyUse(p)
    /\ NotifyRefs[p] = HandleUse(p) + 2 * RegisterUse(p) + ThreadUse(p)

LEMMA CountedForEach == ContextsCounted <=> \A p \in Processes : CountedFor(p)
BY DEF ContextsCounted, CountedFor, OpenUse, ScanUse, CallUse, EnterUse, QueueUse, ItemUse, NotifyUse,
   HandleUse, RegisterUse, ThreadUse

LEMMA UsesAreNumbers ==
    ASSUME QueueTypes, NEW p \in Processes
    PROVE  /\ OpenUse(p) \in Nat /\ ScanUse(p) \in Nat /\ CallUse(p) \in Nat /\ EnterUse(p) \in Nat
           /\ QueueUse(p) \in Nat /\ ItemUse(p) \in Nat /\ NotifyUse(p) \in Nat
           /\ HandleUse(p) \in Nat /\ RegisterUse(p) \in Nat /\ ThreadUse(p) \in Nat
           /\ QueueRefs[p] \in Int /\ NotifyRefs[p] \in Int
BY DEF QueueTypes, WorkTypes, NotifyTypes, OpenUse, ScanUse, CallUse, EnterUse, QueueUse, ItemUse,
   NotifyUse, HandleUse, RegisterUse, ThreadUse, Count

\* Each step counts the references it takes and gives up; the notification context
\* gives up its own when the last of its users does.
LEMMA ContextsCountedStep ==
    QueueTypes /\ Registered /\ ItemsOwned /\ ContextsCounted /\ [QueueNext]_queueVars => ContextsCounted'
<1> SUFFICES ASSUME QueueTypes, Registered, ItemsOwned, ContextsCounted, [QueueNext]_queueVars
             PROVE  ContextsCounted'
  OBVIOUS
<1>w. WorkTypes /\ NotifyTypes /\ ScanTypes BY DEF QueueTypes
<1>c. \A p \in Processes : CountedFor(p) BY CountedForEach
<1>r. \A p \in Processes : RegisteredBy(p) BY RegisteredByEach
<1>e. ASSUME NEW p \in Processes, Elsewhere(p), CountedFor(p)' PROVE ContextsCounted'
  <2>1. \A q \in Processes \ {p} : CountedFor(q)' BY <1>c, <1>e DEF Elsewhere, CountedFor, OpenUse, ScanUse, CallUse,
     EnterUse, QueueUse, ItemUse, NotifyUse, HandleUse, RegisterUse, ThreadUse
  <2>2. \A q \in Processes : CountedFor(q)' BY <1>e, <2>1
  <2> QED BY <2>2 DEF ContextsCounted, CountedFor, OpenUse, ScanUse, CallUse, EnterUse, QueueUse, ItemUse, NotifyUse,
     HandleUse, RegisterUse, ThreadUse
<1> USE DEF ClientAt, NotifierAt, AddRefs
<1>1. ASSUME NEW p \in Processes, NEW s \in {Client(p), Notifier(p)}, ScanStep(s) PROVE ContextsCounted'
  <2>1. scan'[Client(p)].at = "idle" <=> scan[Client(p)].at = "idle"
    BY <1>w, <1>1, ScanGoesOn, ThreadsApart
  <2>2. Elsewhere(p) BY <1>1, ElsewhereKept
  <2>3. UNCHANGED <<workVars, clientVars, QueueRefs, notifyVars>> BY <1>1 DEF ScanStep
  <2>4. CountedFor(p)' BY <1>c, <2>1, <2>3 DEF workVars, clientVars, notifyVars, CountedFor, Count, OpenUse, ScanUse, CallUse, EnterUse, QueueUse, ItemUse, NotifyUse,
     HandleUse, RegisterUse, ThreadUse
  <2> QED BY <1>e, <2>2, <2>4
<1>2. ASSUME NEW p \in Processes, EnumerateStep(p) PROVE ContextsCounted'
  <2>0. UNCHANGED <<workVars, notifyVars, client, opened>>
    BY <1>2 DEF EnumerateStep, FqEnumerateQueue, EnumCallback, EnumCallbackReturns, EnumReturns, clientVars
  <2>1. \/ /\ scan[Client(p)].at = "idle" /\ scan'[Client(p)].at # "idle" /\ QueueRefs'[p] = QueueRefs[p] + 1
        \/ /\ scan[Client(p)].at # "idle" /\ scan'[Client(p)].at # "idle" /\ QueueRefs'[p] = QueueRefs[p]
        \/ /\ scan[Client(p)].at # "idle" /\ scan'[Client(p)].at = "idle" /\ QueueRefs'[p] = QueueRefs[p] - 1
    <3>1. CASE FqEnumerateQueue(p)
      BY <1>w, <1>2, <3>1, EnumerationGoesOn DEF FqEnumerateQueue, WorkTypes
    <3>2. CASE EnumCallback(p) BY <1>w, <1>2, <3>2, EnumerationGoesOn DEF EnumCallback, WorkTypes
    <3>3. CASE EnumCallbackReturns(p)
      BY <1>w, <1>2, <3>3, EnumerationGoesOn DEF EnumCallbackReturns, WorkTypes
    <3>4. CASE EnumReturns(p) BY <1>w, <1>2, <3>4, EnumerationGoesOn DEF EnumReturns, WorkTypes
    <3> QED BY <1>2, <3>1, <3>2, <3>3, <3>4 DEF EnumerateStep
  <2>2. CountedFor(p) BY <1>c
  <2>3. CountedFor(p)'
    <3>1. UNCHANGED <<client, opened, WorkQueue, item, NotifyRefs, handle, notifier>>
      BY <2>0 DEF workVars, notifyVars
    <3>2. UNCHANGED <<OpenUse(p), CallUse(p), EnterUse(p), QueueUse(p), ItemUse(p), NotifyUse(p),
                      HandleUse(p), RegisterUse(p), ThreadUse(p), NotifyRefs[p]>>
      BY <3>1 DEF OpenUse, CallUse, EnterUse, QueueUse, ItemUse, NotifyUse, HandleUse, RegisterUse,
         ThreadUse
    <3>3. ScanUse(p)' - ScanUse(p) = QueueRefs'[p] - QueueRefs[p] /\ ScanUse(p)' \in Nat
      BY <2>1, UsesAreNumbers DEF ScanUse, Count
    <3>4. QueueRefs'[p] \in Int BY <2>1, UsesAreNumbers
    <3> QED BY <2>2, <3>2, <3>3, <3>4, UsesAreNumbers DEF CountedFor
  <2> QED BY <1>e, <1>2, <2>3, ElsewhereKept
<1>3. ASSUME NEW p \in Processes, QueueStep(p) PROVE ContextsCounted'
  <2>0. UNCHANGED <<scan, NotifyRefs, handle, notifier, opened, item>>
    BY <1>3, OthersKeepScans DEF QueueStep, FqInsertFile, EnterQueue, WorkerStarted, SignalWorker,
       notifyVars, workVars
  <2>i. ASSUME InsertItem(p), client[p] \in {"enter", "starting"}
        PROVE  Len(WorkQueue'[p]) = Len(WorkQueue[p]) + 1 /\ client'[p] = "signal"
    <3>1. WorkQueue' = [WorkQueue EXCEPT ![p] = Append(@, call[p])] /\ ClientAt(p, "signal")
      BY <2>i DEF InsertItem
    <3>2. WorkQueue[p] \in Seq(WorkItems) /\ WorkQueue'[p] = Append(WorkQueue[p], call[p])
      BY <1>w, <3>1 DEF WorkTypes
    <3>3. call[p] \in WorkItems BY <1>w, <2>i DEF WorkTypes, ItemsOwned
    <3> QED BY <1>w, <3>1, <3>2, <3>3 DEF WorkTypes
  <2>1. \/ /\ client[p] = "idle" /\ client'[p] = "enter"
           /\ WorkQueue' = WorkQueue /\ QueueRefs'[p] = QueueRefs[p] + 2
        \/ /\ client[p] \in {"enter", "starting"} /\ client'[p] = "signal"
           /\ Len(WorkQueue'[p]) = Len(WorkQueue[p]) + 1 /\ QueueRefs'[p] = QueueRefs[p]
        \/ /\ client[p] = "enter" /\ client'[p] = "starting"
           /\ WorkQueue' = WorkQueue /\ QueueRefs'[p] = QueueRefs[p]
        \/ /\ client[p] = "enter" /\ client'[p] = "idle"
           /\ WorkQueue' = WorkQueue /\ QueueRefs'[p] = QueueRefs[p] - 2
        \/ /\ client[p] = "signal" /\ client'[p] = "idle"
           /\ WorkQueue' = WorkQueue /\ QueueRefs'[p] = QueueRefs[p] - 1
    <3>1. CASE FqInsertFile(p) BY <1>w, <3>1 DEF FqInsertFile, Calls, workVars, WorkTypes
    <3>2. CASE EnterQueue(p)
      <4>1. CASE InsertItem(p) /\ UNCHANGED QueueRefs BY <2>i, <3>2, <4>1 DEF EnterQueue
      <4>2. CASE ~InsertItem(p) BY <1>w, <3>2, <4>2 DEF EnterQueue, WorkTypes
      <4>3. CASE /\ ClientAt(p, "starting") \/ ClientAt(p, "idle")
                 /\ InsertItem(p)
        BY <1>w, <4>3 DEF InsertItem, WorkTypes
      <4> QED BY <3>2, <4>1, <4>2, <4>3 DEF EnterQueue
    <3>3. CASE WorkerStarted(p) BY <2>i, <3>3 DEF WorkerStarted
    <3>4. CASE SignalWorker(p) BY <1>w, <3>4 DEF SignalWorker, WorkTypes
    <3> QED BY <1>3, <3>1, <3>2, <3>3, <3>4 DEF QueueStep
  <2>2. CountedFor(p) BY <1>c
  <2>3. UNCHANGED <<OpenUse(p), ScanUse(p), ItemUse(p), NotifyUse(p), HandleUse(p), RegisterUse(p),
                    ThreadUse(p), NotifyRefs[p]>>
    BY <2>0, <2>1 DEF OpenUse, ScanUse, ItemUse, NotifyUse, HandleUse, RegisterUse, ThreadUse, Count
  <2>4. \/ /\ CallUse(p) = 0 /\ EnterUse(p) = 0 /\ CallUse(p)' = 1 /\ EnterUse(p)' = 1
           /\ QueueUse(p)' = QueueUse(p) /\ QueueRefs'[p] = QueueRefs[p] + 2
        \/ /\ CallUse(p) = 1 /\ EnterUse(p) = 1 /\ CallUse(p)' = 1 /\ EnterUse(p)' = 0
           /\ QueueUse(p)' = QueueUse(p) + 1 /\ QueueRefs'[p] = QueueRefs[p]
        \/ /\ CallUse(p) = 1 /\ EnterUse(p) = 1 /\ CallUse(p)' = 1 /\ EnterUse(p)' = 1
           /\ QueueUse(p)' = QueueUse(p) /\ QueueRefs'[p] = QueueRefs[p]
        \/ /\ CallUse(p) = 1 /\ EnterUse(p) = 1 /\ CallUse(p)' = 0 /\ EnterUse(p)' = 0
           /\ QueueUse(p)' = QueueUse(p) /\ QueueRefs'[p] = QueueRefs[p] - 2
        \/ /\ CallUse(p) = 1 /\ EnterUse(p) = 0 /\ CallUse(p)' = 0 /\ EnterUse(p)' = 0
           /\ QueueUse(p)' = QueueUse(p) /\ QueueRefs'[p] = QueueRefs[p] - 1
      BY <2>1 DEF CallUse, EnterUse, QueueUse, Count
  <2>5. CountedFor(p)' BY <2>2, <2>3, <2>4, UsesAreNumbers DEF CountedFor
  <2> QED BY <1>e, <1>3, <2>5, ElsewhereKept
<1>4. ASSUME NEW p \in Processes, WorkerStep(p) PROVE ContextsCounted'
  <2>0. UNCHANGED <<scan, client, opened, NotifyRefs, handle, notifier>>
    BY <1>4, OthersKeepScans DEF WorkerStep, Work, WorkerStarts, WorkerWaits, WorkerTimesOut, WorkerEnds,
       WorkerNext, WorkerOpens, WorkerLocks, WorkerWrites, WorkerCloses, WorkerDeletes, executeOther,
       workerOther, clientVars, notifyVars
  <2>1. \/ UNCHANGED <<WorkQueue, item, QueueRefs>>
        \/ /\ item[p] = None /\ item'[p] # None /\ Len(WorkQueue'[p]) = Len(WorkQueue[p]) - 1
           /\ UNCHANGED QueueRefs
        \/ /\ item[p] # None /\ item'[p] = None /\ UNCHANGED WorkQueue
           /\ QueueRefs'[p] = QueueRefs[p] - 1
    <3>1. CASE WorkerNext(p)
      <4>1. CASE WorkQueue[p] = <<>> BY <3>1, <4>1 DEF WorkerNext
      <4>2. CASE WorkQueue[p] # <<>>
        <5>1. /\ WorkQueue' = [WorkQueue EXCEPT ![p] = Tail(@)] /\ UNCHANGED QueueRefs
              /\ item' = [item EXCEPT ![p] = Head(WorkQueue[p])] /\ worker[p] = "next"
          BY <3>1, <4>2 DEF WorkerNext
        <5>2. WorkQueue[p] \in Seq(WorkItems) BY <1>w DEF WorkTypes
        <5>3. Head(WorkQueue[p]) \in WorkItems /\ Len(Tail(WorkQueue[p])) = Len(WorkQueue[p]) - 1
          BY <4>2, <5>2
        <5>4. Head(WorkQueue[p]) # None BY <5>3, QueueAssumption
        <5>5. item'[p] = Head(WorkQueue[p]) /\ WorkQueue'[p] = Tail(WorkQueue[p])
          BY <1>w, <5>1 DEF WorkTypes
        <5>6. item[p] = None BY <5>1 DEF ItemsOwned, Executing
        <5> QED BY <5>1, <5>3, <5>4, <5>5, <5>6
      <4> QED BY <4>1, <4>2
    <3>d. ASSUME FqiDestroyWorkItem(p), worker[p] \in Executing
          PROVE  item[p] # None /\ item'[p] = None /\ QueueRefs'[p] = QueueRefs[p] - 1
      BY <1>w, <3>d DEF FqiDestroyWorkItem, ItemsOwned, WorkTypes
    <3>2. CASE WorkerStarts(p) \/ WorkerWaits(p) \/ WorkerTimesOut(p) \/ WorkerEnds(p) \/ WorkerLocks(p)
               \/ WorkerWrites(p)
      BY <3>2 DEF WorkerStarts, WorkerWaits, WorkerTimesOut, WorkerEnds, WorkerLocks, WorkerWrites,
         executeOther
    <3>3. CASE WorkerOpens(p) BY <3>d, <3>3 DEF WorkerOpens, executeOther, Executing
    <3>4. CASE WorkerCloses(p) BY <3>d, <3>4 DEF WorkerCloses, executeOther, Executing
    <3>5. CASE WorkerDeletes(p) BY <3>d, <3>5 DEF WorkerDeletes, executeOther, Executing
    <3> QED BY <1>4, <3>1, <3>2, <3>3, <3>4, <3>5 DEF WorkerStep, Work
  <2>2. CountedFor(p) BY <1>c
  <2>3. UNCHANGED <<OpenUse(p), ScanUse(p), CallUse(p), EnterUse(p), NotifyUse(p), HandleUse(p),
                    RegisterUse(p), ThreadUse(p), NotifyRefs[p]>>
    BY <2>0 DEF OpenUse, ScanUse, CallUse, EnterUse, NotifyUse, HandleUse, RegisterUse, ThreadUse
  <2>4. \/ ItemUse(p)' = ItemUse(p) /\ QueueUse(p)' = QueueUse(p) /\ QueueRefs'[p] = QueueRefs[p]
        \/ ItemUse(p)' = ItemUse(p) + 1 /\ QueueUse(p)' = QueueUse(p) - 1 /\ QueueRefs'[p] = QueueRefs[p]
        \/ ItemUse(p)' = ItemUse(p) - 1 /\ QueueUse(p)' = QueueUse(p) /\ QueueRefs'[p] = QueueRefs[p] - 1
    BY <2>1 DEF ItemUse, QueueUse, Count
  <2>5. CountedFor(p)' BY <2>2, <2>3, <2>4, UsesAreNumbers DEF CountedFor
  <2> QED BY <1>e, <1>4, <2>5, ElsewhereKept
<1>5. ASSUME NEW p \in Processes, RegisterStep(p) PROVE ContextsCounted'
  <2> SUFFICES CountedFor(p)' BY <1>e, <1>5, ElsewhereKept
  <2>0. UNCHANGED <<scan, WorkQueue, item>>
    BY <1>5, OthersKeepScans DEF RegisterStep, FqRegisterQueueNotification, RegisterReturns,
       FqUnregisterQueueNotification, FqUninitialize, workVars
  <2>r. RegisteredBy(p) BY <1>r
  <2>2. CountedFor(p) BY <1>c
  <2>3. CASE FqRegisterQueueNotification(p)
    <3>1. client[p] = "idle" /\ handle[p] = "none" /\ UNCHANGED opened
      BY <2>3 DEF FqRegisterQueueNotification
    <3>2. \/ /\ NotifyRefs'[p] = 2 /\ QueueRefs'[p] = QueueRefs[p] + 2 /\ notifier'[p] = "starting"
             /\ client'[p] = "registering" /\ handle'[p] = handle[p]
          \/ /\ NotifyRefs'[p] = 1 /\ QueueRefs'[p] = QueueRefs[p] + 1 /\ notifier'[p] = notifier[p]
             /\ client'[p] = client[p] /\ handle'[p] = "leaked"
      BY <1>w, <2>3 DEF FqRegisterQueueNotification, WorkTypes, NotifyTypes
    <3>3. notifier[p] = "none" BY <2>r, <3>1 DEF RegisteredBy
    <3>4. UNCHANGED <<OpenUse(p), ScanUse(p), EnterUse(p), QueueUse(p), ItemUse(p)>>
      BY <2>0, <3>1, <3>2 DEF OpenUse, ScanUse, EnterUse, QueueUse, ItemUse, Count
    <3>5. HandleUse(p) = 0 /\ RegisterUse(p) = 0 /\ ThreadUse(p) = 0 /\ ThreadUse(p)' = 0
      BY <3>1, <3>2, <3>3 DEF HandleUse, RegisterUse, ThreadUse, Count
    <3>6. NotifyUse(p) = 0 /\ NotifyUse(p)' = 1
      <4>1. NotifyRefs[p] = 0 BY <2>2, <3>5 DEF CountedFor
      <4> QED BY <3>2, <4>1 DEF NotifyUse, Count
    <3>7. \/ /\ HandleUse(p)' = 0 /\ RegisterUse(p)' = 1 /\ CallUse(p)' = CallUse(p) + 1
             /\ NotifyRefs'[p] = 2 /\ QueueRefs'[p] = QueueRefs[p] + 2
          \/ /\ HandleUse(p)' = 1 /\ RegisterUse(p)' = 0 /\ CallUse(p)' = CallUse(p)
             /\ NotifyRefs'[p] = 1 /\ QueueRefs'[p] = QueueRefs[p] + 1
      BY <3>1, <3>2 DEF HandleUse, RegisterUse, CallUse, Count
    <3> QED BY <2>2, <3>4, <3>5, <3>6, <3>7, UsesAreNumbers DEF CountedFor
  <2>4. CASE RegisterReturns(p)
    <3>1. /\ client[p] = "registering" /\ notifier[p] # "starting" /\ UNCHANGED <<opened, notifier>>
          /\ NotifyRefs'[p] = NotifyRefs[p] - 1 /\ QueueRefs'[p] = QueueRefs[p] - 1
          /\ handle'[p] = "held" /\ client'[p] = "idle"
      BY <1>w, <2>4 DEF RegisterReturns, WorkTypes, NotifyTypes
    <3>2. handle[p] = "none" BY <2>r, <3>1 DEF RegisteredBy
    <3>3. UNCHANGED <<OpenUse(p), ScanUse(p), EnterUse(p), QueueUse(p), ItemUse(p), ThreadUse(p)>>
      BY <2>0, <3>1 DEF OpenUse, ScanUse, EnterUse, QueueUse, ItemUse, ThreadUse, Count
    <3>4. /\ CallUse(p) = 1 /\ RegisterUse(p) = 1 /\ HandleUse(p) = 0
          /\ CallUse(p)' = 0 /\ RegisterUse(p)' = 0 /\ HandleUse(p)' = 1
      BY <3>1, <3>2 DEF CallUse, RegisterUse, HandleUse, Count
    <3>5. NotifyRefs[p] > 1 BY <2>2, <3>4, UsesAreNumbers DEF CountedFor
    <3>6. NotifyUse(p)' = NotifyUse(p) BY <3>1, <3>5, UsesAreNumbers DEF NotifyUse, Count
    <3> QED BY <2>2, <3>1, <3>3, <3>4, <3>6, UsesAreNumbers DEF CountedFor
  <2>5. CASE FqUnregisterQueueNotification(p)
    <3>1. /\ handle[p] = "held" /\ handle'[p] = "released" /\ UNCHANGED <<client, opened, notifier>>
          /\ NotifyRefs'[p] = NotifyRefs[p] - 1
          /\ QueueRefs'[p] = IF NotifyRefs[p] = 1 THEN QueueRefs[p] - 1 ELSE QueueRefs[p]
      BY <1>w, <2>5 DEF FqUnregisterQueueNotification, ReleaseNotify, clientVars, WorkTypes, NotifyTypes
    <3>2. UNCHANGED <<OpenUse(p), ScanUse(p), CallUse(p), EnterUse(p), QueueUse(p), ItemUse(p),
                      RegisterUse(p), ThreadUse(p)>>
      BY <2>0, <3>1 DEF OpenUse, ScanUse, CallUse, EnterUse, QueueUse, ItemUse, RegisterUse, ThreadUse
    <3>3. HandleUse(p) = 1 /\ HandleUse(p)' = 0 BY <3>1 DEF HandleUse, Count
    <3>4. NotifyRefs[p] > 0 BY <2>2, <3>3, UsesAreNumbers DEF CountedFor
    <3>5. NotifyUse(p) = 1 /\ NotifyUse(p)' = IF NotifyRefs[p] = 1 THEN 0 ELSE 1
      BY <3>1, <3>4, UsesAreNumbers DEF NotifyUse, Count
    <3> QED BY <2>2, <3>1, <3>2, <3>3, <3>5, UsesAreNumbers DEF CountedFor
  <2>6. CASE FqUninitialize(p)
    <3>1. /\ p \in opened /\ p \notin opened' /\ QueueRefs'[p] = QueueRefs[p] - 1
          /\ UNCHANGED <<client, NotifyRefs, handle, notifier>>
      BY <1>w, <2>6 DEF FqUninitialize, Calls, notifyVars, WorkTypes
    <3>2. UNCHANGED <<ScanUse(p), CallUse(p), EnterUse(p), QueueUse(p), ItemUse(p), NotifyUse(p),
                      HandleUse(p), RegisterUse(p), ThreadUse(p)>>
      BY <2>0, <3>1 DEF ScanUse, CallUse, EnterUse, QueueUse, ItemUse, NotifyUse, HandleUse,
         RegisterUse, ThreadUse
    <3>3. OpenUse(p) = 1 /\ OpenUse(p)' = 0 BY <3>1 DEF OpenUse, Count
    <3> QED BY <2>2, <3>1, <3>2, <3>3, UsesAreNumbers DEF CountedFor
  <2> QED BY <1>5, <2>3, <2>4, <2>5, <2>6 DEF RegisterStep
<1>6. ASSUME NEW p \in Processes, Notify(p) PROVE ContextsCounted'
  <2>0. UNCHANGED <<WorkQueue, item, client, opened, handle>>
    BY <1>6 DEF Notify, NotifierStarts, NotifierScans, NotifierChecks, NotificationCallback,
       NotifierScanned, NotifierWaits, NotifierExits, notifierOther, clientVars, workVars
  <2>s. scan'[Client(p)] = scan[Client(p)] BY <1>6, NotificationGoesOn, ThreadsApart
  <2>1. \/ /\ notifier[p] = "starting" /\ notifier'[p] = "scan"
           /\ NotifyRefs'[p] = NotifyRefs[p] + 1 /\ QueueRefs'[p] = QueueRefs[p]
        \/ /\ notifier[p] \notin {"none", "starting"} /\ notifier'[p] \notin {"none", "starting"}
           /\ NotifyRefs'[p] = NotifyRefs[p] /\ QueueRefs'[p] = QueueRefs[p]
        \/ UNCHANGED <<notifier, NotifyRefs, QueueRefs>>
        \/ /\ notifier[p] = "exit" /\ notifier'[p] = "none" /\ NotifyRefs'[p] = NotifyRefs[p] - 1
           /\ QueueRefs'[p] = IF NotifyRefs[p] = 1 THEN QueueRefs[p] - 1 ELSE QueueRefs[p]
    <3> USE <1>w DEF NotifyTypes, WorkTypes
    <3>1. CASE NotifierStarts(p) BY <3>1 DEF NotifierStarts
    <3>2. CASE NotifierScans(p) BY <3>2 DEF NotifierScans
    <3>3. CASE NotifierChecks(p) BY <3>3 DEF NotifierChecks
    <3>4. CASE NotificationCallback(p) BY <3>4 DEF NotificationCallback
    <3>5. CASE NotifierScanned(p) BY <3>5 DEF NotifierScanned
    <3>6. CASE NotifierWaits(p) BY <3>6 DEF NotifierWaits
    <3>7. CASE NotifierExits(p) BY <3>7 DEF NotifierExits, ReleaseNotify
    <3> QED BY <1>6, <3>1, <3>2, <3>3, <3>4, <3>5, <3>6, <3>7 DEF Notify
  <2>2. CountedFor(p) BY <1>c
  <2>3. notifier[p] = "starting" => client[p] = "registering" BY <1>r DEF RegisteredBy
  <2>4. UNCHANGED <<OpenUse(p), ScanUse(p), CallUse(p), EnterUse(p), QueueUse(p), ItemUse(p),
                    HandleUse(p), RegisterUse(p)>>
    BY <2>0, <2>s DEF OpenUse, ScanUse, CallUse, EnterUse, QueueUse, ItemUse, HandleUse, RegisterUse
  <2>5. \/ /\ ThreadUse(p)' = ThreadUse(p) + 1 /\ NotifyUse(p)' = NotifyUse(p)
           /\ NotifyRefs'[p] = NotifyRefs[p] + 1 /\ QueueRefs'[p] = QueueRefs[p]
        \/ /\ ThreadUse(p)' = ThreadUse(p) /\ NotifyUse(p)' = NotifyUse(p)
           /\ NotifyRefs'[p] = NotifyRefs[p] /\ QueueRefs'[p] = QueueRefs[p]
        \/ /\ ThreadUse(p)' = ThreadUse(p) - 1 /\ NotifyRefs'[p] = NotifyRefs[p] - 1
           /\ NotifyUse(p)' - NotifyUse(p) = QueueRefs'[p] - QueueRefs[p]
           /\ NotifyUse(p)' \in Nat /\ QueueRefs'[p] \in Int
    <3>1. CASE /\ notifier[p] = "starting" /\ notifier'[p] = "scan"
               /\ NotifyRefs'[p] = NotifyRefs[p] + 1 /\ QueueRefs'[p] = QueueRefs[p]
      <4>1. RegisterUse(p) = 1 BY <2>3, <3>1 DEF RegisterUse, Count
      <4>2. NotifyRefs[p] > 0 BY <2>2, <4>1, UsesAreNumbers DEF CountedFor
      <4> QED BY <3>1, <4>2, UsesAreNumbers DEF ThreadUse, NotifyUse, Count
    <3>2. CASE /\ notifier[p] \notin {"none", "starting"} /\ notifier'[p] \notin {"none", "starting"}
               /\ NotifyRefs'[p] = NotifyRefs[p] /\ QueueRefs'[p] = QueueRefs[p]
      BY <3>2 DEF ThreadUse, NotifyUse, Count
    <3>3. CASE UNCHANGED <<notifier, NotifyRefs, QueueRefs>> BY <3>3 DEF ThreadUse, NotifyUse
    <3>4. CASE /\ notifier[p] = "exit" /\ notifier'[p] = "none" /\ NotifyRefs'[p] = NotifyRefs[p] - 1
               /\ QueueRefs'[p] = IF NotifyRefs[p] = 1 THEN QueueRefs[p] - 1 ELSE QueueRefs[p]
      <4>1. ThreadUse(p) = 1 /\ ThreadUse(p)' = 0 BY <3>4 DEF ThreadUse, Count
      <4>2. NotifyRefs[p] > 0 BY <2>2, <4>1, UsesAreNumbers DEF CountedFor
      <4>3. NotifyUse(p) = 1 /\ NotifyUse(p)' = IF NotifyRefs[p] = 1 THEN 0 ELSE 1
        BY <3>4, <4>2, UsesAreNumbers DEF NotifyUse, Count
      <4> QED BY <3>4, <4>1, <4>3, UsesAreNumbers
    <3> QED BY <2>1, <3>1, <3>2, <3>3, <3>4
  <2>6. CountedFor(p)' BY <2>2, <2>4, <2>5, UsesAreNumbers DEF CountedFor
  <2> QED BY <1>e, <1>6, <2>6, ElsewhereKept
<1>7. CASE UNCHANGED queueVars
  BY <1>7 DEF queueVars, workVars, clientVars, notifyVars, ContextsCounted
<1> QED BY <1>1, <1>2, <1>3, <1>4, <1>5, <1>6, <1>7, QueueSteps

-----------------------------------------------------------------------------
\* LateCallbacks, process by process.
LateBy(p) ==
    /\ handle[p] # "released" => late[p] = 0
    /\ handle[p] = "released" /\ scan[Notifier(p)].at = "callback" => late[p] = 0
    /\ late[p] <= 1

\* The check before a callback sees one reference once the client has unregistered
\* (ContextsCounted), so only a callback that had passed the check is late.
LEMMA LateCallbacksStep ==
    QueueTypes /\ Registered /\ ContextsCounted /\ LateCallbacks /\ [QueueNext]_queueVars => LateCallbacks'
<1> SUFFICES ASSUME QueueTypes, Registered, ContextsCounted, LateCallbacks, [QueueNext]_queueVars
             PROVE  LateCallbacks'
  OBVIOUS
<1>w. NotifyTypes /\ ScanTypes BY DEF QueueTypes
<1>b. \A p \in Processes : LateBy(p) BY DEF LateCallbacks, LateBy
<1>e. ASSUME NEW p \in Processes, Elsewhere(p), LateBy(p)' PROVE LateCallbacks'
  <2>1. \A q \in Processes \ {p} : LateBy(q)' BY <1>b, <1>e DEF Elsewhere, LateBy
  <2> QED BY <1>e, <2>1 DEF LateCallbacks, LateBy
<1>k. ASSUME NEW p \in Processes, UNCHANGED notifyVars,
             scan'[Notifier(p)].at = "callback" => scan[Notifier(p)].at = "callback"
      PROVE  LateBy(p)'
  BY <1>b, <1>k DEF LateBy, notifyVars
<1>1. ASSUME NEW p \in Processes, NEW s \in {Client(p), Notifier(p)}, ScanStep(s) PROVE LateCallbacks'
  <2>1. scan'[Notifier(p)].at = "callback" => scan[Notifier(p)].at = "callback"
    BY <1>w, <1>1, ScanGoesOn, ThreadsApart
  <2> QED BY <1>e, <1>k, <1>1, <2>1, ElsewhereKept DEF ScanStep
<1>2. ASSUME NEW p \in Processes, EnumerateStep(p) PROVE LateCallbacks'
  <2>1. scan'[Notifier(p)] = scan[Notifier(p)] BY <1>w, <1>2, EnumerationGoesOn, ThreadsApart
  <2>2. UNCHANGED notifyVars
    BY <1>2 DEF EnumerateStep, FqEnumerateQueue, EnumCallback, EnumCallbackReturns, EnumReturns
  <2> QED BY <1>e, <1>k, <1>2, <2>1, <2>2, ElsewhereKept
<1>3. ASSUME NEW p \in Processes, QueueStep(p) \/ WorkerStep(p) PROVE LateCallbacks'
  <2>1. UNCHANGED <<scan, notifyVars>> BY <1>3, OthersKeepScans DEF QueueStep, WorkerStep
  <2> QED BY <1>e, <1>k, <1>3, <2>1, ElsewhereKept
<1>4. ASSUME NEW p \in Processes, RegisterStep(p) PROVE LateCallbacks'
  <2> SUFFICES LateBy(p)' BY <1>e, <1>4, ElsewhereKept
  <2>1. UNCHANGED scan BY <1>4, OthersKeepScans
  <2>2. late'[p] = late[p] /\ (handle[p] = "released" => handle'[p] = "released")
                           /\ (handle[p] # "released" => late[p] = 0)
    <3> USE <1>w DEF NotifyTypes
    <3>1. CASE FqRegisterQueueNotification(p) BY <1>b, <3>1 DEF FqRegisterQueueNotification, LateBy
    <3>2. CASE RegisterReturns(p)
      <4>1. handle[p] = "none" BY <3>2 DEF RegisterReturns, Registered
      <4> QED BY <1>b, <3>2, <4>1 DEF RegisterReturns, LateBy
    <3>3. CASE FqUnregisterQueueNotification(p)
      BY <1>b, <3>3 DEF FqUnregisterQueueNotification, LateBy
    <3>4. CASE FqUninitialize(p) BY <1>b, <3>4 DEF FqUninitialize, LateBy, notifyVars
    <3> QED BY <1>4, <3>1, <3>2, <3>3, <3>4 DEF RegisterStep
  <2> QED BY <1>b, <2>1, <2>2 DEF LateBy
<1>5. ASSUME NEW p \in Processes, Notify(p) PROVE LateCallbacks'
  <2> SUFFICES LateBy(p)' BY <1>e, <1>5, ElsewhereKept
  <2>h. UNCHANGED handle
    BY <1>5 DEF Notify, NotifierStarts, NotifierScans, NotifierChecks, NotificationCallback,
       NotifierScanned, NotifierWaits, NotifierExits, notifierOther
  <2>1. CASE NotificationCallback(p)
    <3>1. scan[Notifier(p)].at = "callback" /\ scan'[Notifier(p)].at = "read"
      BY <1>5, <2>1, NotificationGoesOn
    <3>2. late'[p] = IF handle[p] = "released" THEN late[p] + 1 ELSE late[p]
      BY <1>w, <2>1 DEF NotificationCallback, NotifyTypes
    <3> QED BY <1>b, <2>h, <3>1, <3>2 DEF LateBy
  <2>2. CASE NotifierChecks(p)
    <3>1. /\ scan[Notifier(p)].at = "read"
          /\ NotifyRefs[p] = 1 => scan'[Notifier(p)].at # "callback"
      BY <1>5, <2>2, NotificationGoesOn
    <3>2. notifier[p] = "scanning" BY <3>1 DEF Registered
    <3>3. handle[p] = "released" => NotifyRefs[p] = 1
      <4> SUFFICES ASSUME handle[p] = "released" PROVE NotifyRefs[p] = 1 OBVIOUS
      <4>1. client[p] # "registering" BY DEF Registered
      <4>2. NotifyRefs[p] = Count(handle[p] \in {"held", "leaked"}) + 2 * Count(client[p] = "registering")
                            + Count(notifier[p] \notin {"none", "starting"})
        BY DEF ContextsCounted
      <4>3. /\ Count(handle[p] \in {"held", "leaked"}) = 0 /\ Count(client[p] = "registering") = 0
            /\ Count(notifier[p] \notin {"none", "starting"}) = 1
        BY <3>2, <4>1 DEF Count
      <4> QED BY <4>2, <4>3
    <3>4. UNCHANGED late BY <2>2 DEF NotifierChecks
    <3> QED BY <1>b, <2>h, <3>1, <3>3, <3>4 DEF LateBy
  <2>3. CASE ~NotificationCallback(p) /\ ~NotifierChecks(p)
    <3>1. UNCHANGED late
      BY <1>5, <2>3 DEF Notify, NotifierStarts, NotifierScans, NotifierScanned, NotifierWaits, NotifierExits
    <3>2. scan'[Notifier(p)].at = "callback" => scan[Notifier(p)].at = "callback"
      BY <1>5, <2>3, NotificationGoesOn DEF Notify
    <3> QED BY <1>b, <2>h, <3>1, <3>2 DEF LateBy
  <2> QED BY <2>1, <2>2, <2>3
<1>6. CASE UNCHANGED queueVars BY <1>6 DEF queueVars, notifyVars, LateCallbacks
<1> QED BY <1>1, <1>2, <1>3, <1>4, <1>5, <1>6, QueueSteps

-----------------------------------------------------------------------------
\* What a step that executes no item for n does to it: it keeps the record, or
\* it is known to be lost.
Keeps(n) == (n \in lost => n \in lost') /\ (n \in lost' \/ (Recorded(n)' <=> Recorded(n)))

\* Closing a file, and deleting a corrupt one, keep the records or lose them.
LEMMA NothingChanges ==
    ASSUME NEW n \in Names, UNCHANGED <<files, LastModified, lost>>
    PROVE  Keeps(n)
BY DEF Keeps, Recorded

LEMMA UnlockKeeps ==
    ASSUME FileTypes, NEW th, NEW b \in Buckets, UnlockAndClose(th, b), UNCHANGED lost, NEW n \in Names
    PROVE  Keeps(n) /\ (Recorded(n)' <=> Recorded(n))
<1>1. CASE files[b] = "deleting" /\ handles[b] = {th}
  <2>1. /\ files' = [files EXCEPT ![b] = "none"]
        /\ LastModified' = [m \in Names |-> IF m \in NamesIn(b) THEN 0 ELSE LastModified[m]]
    BY <1>1 DEF UnlockAndClose, Gone
  <2> QED BY <1>1, <2>1, BucketOf DEF Keeps, Recorded, FileTypes, NamesIn
<1>2. CASE ~(files[b] = "deleting" /\ handles[b] = {th})
  BY <1>2 DEF UnlockAndClose, Keeps, Recorded
<1> QED BY <1>1, <1>2

LEMMA DeleteKeeps ==
    ASSUME FileTypes, NEW b \in Buckets, DeleteCorrupt(b), NEW n \in Names
    PROVE  Keeps(n) /\ (FqiCreateFileNameHash[n] = b => ~Recorded(n)')
<1>l. lost' = lost \union {m \in NamesIn(b) : LastModified[m] > 0} BY DEF DeleteCorrupt
<1>b. FqiCreateFileNameHash[n] \in Buckets BY BucketOf
<1>1. CASE files[b] = "present" /\ handles[b] = {}
  <2>1. /\ files' = [files EXCEPT ![b] = "none"]
        /\ LastModified' = [m \in Names |-> IF m \in NamesIn(b) THEN 0 ELSE LastModified[m]]
    BY <1>1 DEF DeleteCorrupt, DeleteFile, Gone
  <2> QED BY <1>1, <1>l, <1>b, <2>1 DEF Keeps, Recorded, FileTypes, NamesIn
<1>2. CASE ~(files[b] = "present" /\ handles[b] = {})
  <2>1. /\ files' = [files EXCEPT ![b] = IF @ = "present" THEN "deleting" ELSE @]
        /\ UNCHANGED LastModified
    BY <1>2 DEF DeleteCorrupt, DeleteFile
  <2> QED BY <1>2, <1>l, <1>b, <2>1 DEF Keeps, Recorded, FileTypes, NamesIn
<1> QED BY <1>1, <1>2

\* Steps other than a worker's on this name.
LEMMA OthersKeep ==
    ASSUME QueueTypes, NEW p \in Processes, NEW n \in Names,
           \/ QueueStep(p) \/ EnumerateStep(p) \/ RegisterStep(p) \/ Notify(p)
           \/ ScanStep(Client(p)) \/ ScanStep(Notifier(p))
    PROVE  Keeps(n)
<1>f. FileTypes /\ ScanTypes BY DEF QueueTypes
<1>1. CASE QueueStep(p)
  BY <1>1, NothingChanges DEF QueueStep, FqInsertFile, EnterQueue, WorkerStarted, SignalWorker, fileVars
<1>2. CASE EnumerateStep(p)
  BY <1>2, NothingChanges
  DEF EnumerateStep, FqEnumerateQueue, EnumCallback, EnumCallbackReturns, EnumReturns, fileVars
<1>3. CASE RegisterStep(p)
  BY <1>3, NothingChanges DEF RegisterStep, FqRegisterQueueNotification, RegisterReturns,
     FqUnregisterQueueNotification, FqUninitialize, fileVars
<1>4. CASE Notify(p)
  BY <1>4, NothingChanges DEF Notify, NotifierStarts, NotifierScans, NotifierChecks,
     NotificationCallback, NotifierScanned, NotifierWaits, NotifierExits, fileVars
<1>5. ASSUME NEW s \in {Client(p), Notifier(p)}, ScanStep(s) PROVE Keeps(n)
  <2>s. s \in Scanners BY ThreadsApart
  <2>1. CASE ScanOpen(s) BY <2>1, NothingChanges DEF ScanOpen
  <2>2. CASE ScanLock(s) BY <2>2, NothingChanges DEF ScanLock
  <2>3. CASE ScanClose(s)
    <3>1. scan[s].bucket \in Buckets /\ UnlockAndClose(s, scan[s].bucket) /\ UNCHANGED lost
      BY <1>f, <2>s, <2>3 DEF ScanClose, ScanTypes
    <3> QED BY <1>f, <3>1, UnlockKeeps
  <2>4. CASE ScanDelete(s)
    <3>1. scan[s].bucket \in Buckets /\ DeleteCorrupt(scan[s].bucket)
      BY <1>f, <2>s, <2>4 DEF ScanDelete, ScanTypes
    <3> QED BY <1>f, <3>1, DeleteKeeps
  <2> QED BY <1>5, <2>1, <2>2, <2>3, <2>4 DEF ScanStep
<1> QED BY <1>1, <1>2, <1>3, <1>4, <1>5

LEMMA WorkersKeep ==
    ASSUME QueueTypes, ItemsOwned, EmptyFiles, NEW p \in Processes, WorkerStep(p), NEW n \in Names,
           n # Name(p) \/ item[p] = None \/ WorkerCloses(p) \/ WorkerDeletes(p)
    PROVE  Keeps(n)
<1>f. FileTypes /\ WorkTypes BY DEF QueueTypes
<1>e. worker[p] \in Executing => item[p] # None /\ Bucket(p) \in Buckets /\ Name(p) \in Names
  BY <1>f, WorkersBucket DEF ItemsOwned
<1>h. FqiCreateFileNameHash[n] \in Buckets BY BucketOf
<1>1. CASE WorkerStarts(p) \/ WorkerWaits(p) \/ WorkerTimesOut(p) \/ WorkerEnds(p) \/ WorkerNext(p)
           \/ WorkerLocks(p)
  BY <1>1, NothingChanges DEF WorkerStarts, WorkerWaits, WorkerTimesOut, WorkerEnds, WorkerNext,
     WorkerLocks, fileVars
<1>2. CASE WorkerOpens(p)
  <2>1. worker[p] = "open" /\ UNCHANGED LastModified BY <1>2 DEF WorkerOpens
  <2>2. n # Name(p) BY <1>e, <1>2, <2>1 DEF Executing, WorkerCloses, WorkerDeletes
  <2>3. /\ UNCHANGED lost \/ lost' = lost \ {Name(p)} \/ lost' = lost \union {Name(p)}
        /\ \/ UNCHANGED files
           \/ files[Bucket(p)] \in {"none", "present"} /\ files' = [files EXCEPT ![Bucket(p)] = "present"]
    BY <1>f, <1>e, <1>2, <2>1 DEF WorkerOpens, Drops, Executing, FileTypes
  <2>4. n \in lost => n \in lost' BY <2>2, <2>3
  <2>5. Recorded(n)' <=> Recorded(n)
    <3>1. CASE UNCHANGED files BY <2>1, <3>1 DEF Recorded
    <3>2. CASE files[Bucket(p)] \in {"none", "present"} /\ files' = [files EXCEPT ![Bucket(p)] = "present"]
      <4>1. files[Bucket(p)] = "none" /\ FqiCreateFileNameHash[n] = Bucket(p) => LastModified[n] = 0
        BY <1>h DEF EmptyFiles, NamesIn
      <4>2. files'[FqiCreateFileNameHash[n]] = IF FqiCreateFileNameHash[n] = Bucket(p) THEN "present"
                                              ELSE files[FqiCreateFileNameHash[n]]
        BY <1>f, <1>h, <3>2 DEF FileTypes
      <4> QED BY <2>1, <3>2, <4>1, <4>2 DEF Recorded
    <3> QED BY <2>3, <3>1, <3>2
  <2> QED BY <2>4, <2>5 DEF Keeps
<1>3. CASE WorkerWrites(p)
  <2>1. worker[p] = "write" BY <1>3 DEF WorkerWrites
  <2>2. n # Name(p) BY <1>e, <2>1 DEF Executing, WorkerCloses, WorkerDeletes
  <2>3. CASE WriteRecord(p)
    <3>1. /\ UNCHANGED files /\ \E t : LastModified' = [LastModified EXCEPT ![Name(p)] = t]
          /\ lost' = lost \ {Name(p)} \/ lost' = lost \union {Name(p)}
      BY <2>3 DEF WriteRecord, Drops
    <3> QED BY <1>f, <2>2, <3>1 DEF Keeps, Recorded, FileTypes
  <2>4. CASE DeleteRecord(p)
    <3> DEFINE others == {m \in NamesIn(Bucket(p)) \ {Name(p)} : LastModified[m] > 0}
    <3>1. n \in lost => n \in lost' BY <2>2, <2>4 DEF DeleteRecord
    <3>2. CASE others = {} /\ files' = [files EXCEPT ![Bucket(p)] = "deleting"] /\ UNCHANGED LastModified
      <4>1. FqiCreateFileNameHash[n] = Bucket(p) => ~(LastModified[n] > 0) BY <2>2, <3>2 DEF NamesIn
      <4>2. FqiCreateFileNameHash[n] # Bucket(p) =>
               files'[FqiCreateFileNameHash[n]] = files[FqiCreateFileNameHash[n]]
        BY <1>f, <1>h, <3>2 DEF FileTypes
      <4> QED BY <3>1, <3>2, <4>1, <4>2 DEF Keeps, Recorded
    <3>3. CASE LastModified' = [LastModified EXCEPT ![Name(p)] = 0] /\ UNCHANGED files
      BY <1>f, <2>2, <3>1, <3>3 DEF Keeps, Recorded, FileTypes
    <3>4. CASE UNCHANGED <<files, LastModified>> BY <3>1, <3>4 DEF Keeps, Recorded
    <3> QED BY <2>4, <3>2, <3>3, <3>4 DEF DeleteRecord
  <2>5. CASE Drops(p) /\ UNCHANGED <<files, LastModified>> BY <2>5 DEF Drops, Keeps, Recorded
  <2> QED BY <1>3, <2>3, <2>4, <2>5 DEF WorkerWrites
<1>4. CASE WorkerCloses(p)
  <2>1. worker[p] \in Executing /\ UnlockAndClose(Worker(p), Bucket(p)) /\ UNCHANGED lost
    BY <1>4 DEF WorkerCloses, Executing
  <2> QED BY <1>f, <1>e, <2>1, UnlockKeeps
<1>5. CASE WorkerDeletes(p)
  <2>1. worker[p] \in Executing /\ DeleteCorrupt(Bucket(p)) BY <1>5 DEF WorkerDeletes, Executing
  <2> QED BY <1>f, <1>e, <2>1, DeleteKeeps
<1> QED BY <1>1, <1>2, <1>3, <1>4, <1>5 DEF WorkerStep, Work

-----------------------------------------------------------------------------
\* A file goes when its last handle is closed, and its records with it.
LEMMA UnlockEmpties ==
    ASSUME FileTypes, EmptyFiles, NEW th, NEW b \in Buckets, UnlockAndClose(th, b)
    PROVE  EmptyFiles'
<1>1. handles' = [handles EXCEPT ![b] = @ \ {th}] BY DEF UnlockAndClose
<1>2. \A c \in Buckets : handles[c] = {} => handles'[c] = {} BY <1>1 DEF FileTypes
<1>3. CASE files[b] = "deleting" /\ handles[b] = {th}
  <2>1. /\ files' = [files EXCEPT ![b] = "none"]
        /\ LastModified' = [m \in Names |-> IF m \in NamesIn(b) THEN 0 ELSE LastModified[m]]
    BY <1>3 DEF UnlockAndClose, Gone
  <2>2. handles'[b] = {} BY <1>1, <1>3 DEF FileTypes
  <2> QED BY <1>2, <2>1, <2>2 DEF EmptyFiles, FileTypes, NamesIn
<1>4. CASE ~(files[b] = "deleting" /\ handles[b] = {th})
  <2>1. UNCHANGED <<files, LastModified>> BY <1>4 DEF UnlockAndClose
  <2> QED BY <1>2, <2>1 DEF EmptyFiles
<1> QED BY <1>3, <1>4

LEMMA DeleteEmpties ==
    ASSUME FileTypes, EmptyFiles, NEW b \in Buckets, DeleteFile(b), UNCHANGED handles
    PROVE  EmptyFiles'
<1>1. CASE files[b] = "present" /\ handles[b] = {}
  <2>1. /\ files' = [files EXCEPT ![b] = "none"]
        /\ LastModified' = [m \in Names |-> IF m \in NamesIn(b) THEN 0 ELSE LastModified[m]]
    BY <1>1 DEF DeleteFile, Gone
  <2> QED BY <1>1, <2>1 DEF EmptyFiles, FileTypes, NamesIn
<1>2. CASE ~(files[b] = "present" /\ handles[b] = {})
  <2>1. files' = [files EXCEPT ![b] = IF @ = "present" THEN "deleting" ELSE @] /\ UNCHANGED LastModified
    BY <1>2 DEF DeleteFile
  <2> QED BY <2>1 DEF EmptyFiles, FileTypes
<1> QED BY <1>1, <1>2

LEMMA EmptyFilesStep ==
    QueueTypes /\ ItemsOwned /\ WorkerHolds /\ EmptyFiles /\ [QueueNext]_queueVars => EmptyFiles'
<1> SUFFICES ASSUME QueueTypes, ItemsOwned, WorkerHolds, EmptyFiles, [QueueNext]_queueVars
             PROVE  EmptyFiles'
  OBVIOUS
<1>f. FileTypes /\ ScanTypes /\ WorkTypes BY DEF QueueTypes
<1>t. scan \in [Scanners -> Scans] BY <1>f DEF ScanTypes
<1>k. ASSUME UNCHANGED <<files, LastModified, handles>> PROVE EmptyFiles' BY <1>k DEF EmptyFiles
<1>1. ASSUME NEW p \in Processes, QueueStep(p) \/ EnumerateStep(p) \/ RegisterStep(p) \/ Notify(p)
      PROVE  EmptyFiles'
  <2>1. CASE QueueStep(p)
    BY <1>k, <2>1 DEF QueueStep, FqInsertFile, EnterQueue, WorkerStarted, SignalWorker, fileVars
  <2>2. CASE EnumerateStep(p)
    BY <1>k, <2>2
    DEF EnumerateStep, FqEnumerateQueue, EnumCallback, EnumCallbackReturns, EnumReturns, fileVars
  <2>3. CASE RegisterStep(p)
    BY <1>k, <2>3 DEF RegisterStep, FqRegisterQueueNotification, RegisterReturns,
       FqUnregisterQueueNotification, FqUninitialize, fileVars
  <2>4. CASE Notify(p)
    BY <1>k, <2>4 DEF Notify, NotifierStarts, NotifierScans, NotifierChecks,
       NotificationCallback, NotifierScanned, NotifierWaits, NotifierExits, fileVars
  <2> QED BY <1>1, <2>1, <2>2, <2>3, <2>4
<1>2. ASSUME NEW s \in Scanners, ScanStep(s) PROVE EmptyFiles'
  <2>1. CASE ScanOpen(s)
    <3>1. PICK b \in Buckets : UNCHANGED handles \/ (files[b] = "present" /\ OpenFile(s, b))
      BY <1>t, <2>1, ScanOpenDoes
    <3>2. UNCHANGED <<files, LastModified>> BY <2>1 DEF ScanOpen
    <3> QED BY <1>f, <3>1, <3>2 DEF EmptyFiles, OpenFile, FileTypes
  <2>2. CASE ScanLock(s) BY <1>k, <2>2 DEF ScanLock
  <2>3. CASE ScanClose(s)
    <3>1. scan[s].bucket \in Buckets /\ UnlockAndClose(s, scan[s].bucket)
      BY <1>f, <2>3 DEF ScanClose, ScanTypes
    <3> QED BY <1>f, <3>1, UnlockEmpties
  <2>4. CASE ScanDelete(s)
    <3>1. scan[s].bucket \in Buckets /\ DeleteFile(scan[s].bucket) /\ UNCHANGED handles
      BY <1>f, <2>4 DEF ScanDelete, DeleteCorrupt, ScanTypes
    <3> QED BY <1>f, <3>1, DeleteEmpties
  <2> QED BY <1>2, <2>1, <2>2, <2>3, <2>4 DEF ScanStep
<1>3. ASSUME NEW p \in Processes, WorkerStep(p) PROVE EmptyFiles'
  <2>e. worker[p] \in Executing => /\ Bucket(p) \in Buckets /\ Name(p) \in Names
                                   /\ Name(p) \in NamesIn(Bucket(p))
    BY <1>f, WorkersBucket
  <2>1. CASE WorkerStarts(p) \/ WorkerWaits(p) \/ WorkerTimesOut(p) \/ WorkerEnds(p) \/ WorkerNext(p)
             \/ WorkerLocks(p)
    BY <1>k, <2>1 DEF WorkerStarts, WorkerWaits, WorkerTimesOut, WorkerEnds, WorkerNext,
       WorkerLocks, fileVars
  <2>2. CASE WorkerOpens(p)
    <3>1. UNCHANGED LastModified /\ Bucket(p) \in Buckets
      BY <2>e, <2>2 DEF WorkerOpens, Executing
    <3>2. \/ UNCHANGED <<files, handles>>
          \/ /\ files' = [files EXCEPT ![Bucket(p)] = "present"]
             /\ OpenFile(Worker(p), Bucket(p))
      BY <2>2 DEF WorkerOpens
    <3> QED BY <1>f, <3>1, <3>2 DEF EmptyFiles, OpenFile, FileTypes
  <2>3. CASE WorkerWrites(p)
    <3>1. worker[p] = "write" /\ UNCHANGED handles BY <2>3 DEF WorkerWrites
    <3>2. files[Bucket(p)] # "none"
      BY <2>e, <3>1 DEF WorkerHolds, EmptyFiles, Executing
    <3>3. \/ UNCHANGED <<files, LastModified>>
          \/ UNCHANGED files /\ \E t : LastModified' = [LastModified EXCEPT ![Name(p)] = t]
          \/ UNCHANGED LastModified /\ files' = [files EXCEPT ![Bucket(p)] = "deleting"]
      BY <2>3 DEF WorkerWrites, WriteRecord, DeleteRecord
    <3>4. \A b \in Buckets \ {Bucket(p)} : Name(p) \notin NamesIn(b)
      BY <2>e, <3>1 DEF NamesIn, Executing
    <3>5. \A b \in Buckets : \A n \in NamesIn(b) : n \in Names BY DEF NamesIn
    <3>6. CASE UNCHANGED <<files, LastModified>> BY <1>k, <3>1, <3>6
    <3>7. CASE UNCHANGED files /\ \E t : LastModified' = [LastModified EXCEPT ![Name(p)] = t]
      BY <1>f, <3>1, <3>2, <3>4, <3>5, <3>7 DEF EmptyFiles, FileTypes
    <3>8. CASE UNCHANGED LastModified /\ files' = [files EXCEPT ![Bucket(p)] = "deleting"]
      BY <1>f, <3>1, <3>8 DEF EmptyFiles, FileTypes
    <3> QED BY <3>3, <3>6, <3>7, <3>8
  <2>4. CASE WorkerCloses(p)
    <3>1. worker[p] \in Executing /\ UnlockAndClose(Worker(p), Bucket(p))
      BY <2>4 DEF WorkerCloses, Executing
    <3> QED BY <1>f, <2>e, <3>1, UnlockEmpties
  <2>5. CASE WorkerDeletes(p)
    <3>1. worker[p] \in Executing /\ DeleteFile(Bucket(p)) /\ UNCHANGED handles
      BY <2>5 DEF WorkerDeletes, DeleteCorrupt, Executing
    <3> QED BY <1>f, <2>e, <3>1, DeleteEmpties
  <2> QED BY <1>3, <2>1, <2>2, <2>3, <2>4, <2>5 DEF WorkerStep, Work
<1>4. CASE UNCHANGED queueVars BY <1>k, <1>4 DEF queueVars, fileVars
<1> QED BY <1>1, <1>2, <1>3, <1>4, QueueSteps, ThreadsApart

-----------------------------------------------------------------------------
\* Of the threads, only the one that closes a file loses its handle.
Holds(p) == worker[p] \in {"lock", "write", "close", "corrupt"} => Worker(p) \in handles[Bucket(p)]

\* The worker of p is where it was, with the item it had.
WorkerKept(p) == worker'[p] = worker[p] /\ item'[p] = item[p]

\* Only the own worker moves itself.
LEMMA WorkersKept ==
    ASSUME QueueTypes, ItemsOwned, NEW p \in Processes, NEW q \in Processes,
           \/ EnumerateStep(p) \/ RegisterStep(p) \/ Notify(p)
           \/ ScanStep(Client(p)) \/ ScanStep(Notifier(p))
           \/ QueueStep(p) /\ worker[q] # "none"
           \/ WorkerStep(p) /\ q # p
    PROVE  WorkerKept(q)
<1>w. WorkTypes BY DEF QueueTypes
<1>1. CASE EnumerateStep(p)
  BY <1>1 DEF EnumerateStep, FqEnumerateQueue, EnumCallback, EnumCallbackReturns, EnumReturns, workVars,
     WorkerKept
<1>2. CASE RegisterStep(p)
  BY <1>2 DEF RegisterStep, FqRegisterQueueNotification, RegisterReturns,
     FqUnregisterQueueNotification, FqUninitialize, workVars, WorkerKept
<1>3. CASE Notify(p)
  BY <1>3 DEF Notify, NotifierStarts, NotifierScans, NotifierChecks, NotificationCallback,
     NotifierScanned, NotifierWaits, NotifierExits, notifierOther, workVars, WorkerKept
<1>4. CASE ScanStep(Client(p)) \/ ScanStep(Notifier(p)) BY <1>4 DEF ScanStep, workVars, WorkerKept
<1>5. CASE QueueStep(p) /\ worker[q] # "none"
  <2>1. CASE EnterQueue(p)
    <3>1. UNCHANGED worker \/ (WorkThreadInitialized[p] = 0 /\ worker' = [worker EXCEPT ![p] = "starting"])
      <4>1. UNCHANGED worker \/ (WorkThreadInitialized[p] = 0 /\ WorkerAt(p, "starting"))
        BY <2>1 DEF EnterQueue
      <4> QED BY <4>1 DEF WorkerAt
    <3>2. UNCHANGED item BY <2>1 DEF EnterQueue
    <3>3. worker[p] # "none" => WorkThreadInitialized[p] # 0 BY DEF ItemsOwned
    <3> QED BY <1>w, <1>5, <3>1, <3>2, <3>3 DEF WorkerKept, WorkTypes
  <2>2. CASE ~EnterQueue(p)
    BY <1>5, <2>2 DEF QueueStep, FqInsertFile, WorkerStarted, SignalWorker, workVars, WorkerKept
  <2> QED BY <2>1, <2>2
<1>6. CASE WorkerStep(p) /\ q # p
  <2>1. (\E l : worker' = [worker EXCEPT ![p] = l]) /\ \E i : item' = [item EXCEPT ![p] = i]
    <3>0. item = [item EXCEPT ![p] = item[p]] BY <1>w DEF WorkTypes
    <3> USE DEF WorkerAt
    <3>1. CASE WorkerStarts(p) BY <3>0, <3>1 DEF WorkerStarts
    <3>2. CASE WorkerWaits(p) BY <3>0, <3>2 DEF WorkerWaits
    <3>3. CASE WorkerTimesOut(p) BY <3>0, <3>3 DEF WorkerTimesOut
    <3>4. CASE WorkerEnds(p) BY <3>0, <3>4 DEF WorkerEnds
    <3>5. CASE WorkerNext(p) BY <3>0, <3>5 DEF WorkerNext
    <3>6. CASE WorkerOpens(p) BY <3>0, <3>6 DEF WorkerOpens, FqiDestroyWorkItem
    <3>7. CASE WorkerLocks(p) BY <3>0, <3>7 DEF WorkerLocks
    <3>8. CASE WorkerWrites(p) BY <3>0, <3>8 DEF WorkerWrites, WriteRecord, DeleteRecord
    <3>9. CASE WorkerCloses(p) BY <3>0, <3>9 DEF WorkerCloses, FqiDestroyWorkItem
    <3>10. CASE WorkerDeletes(p) BY <3>0, <3>10 DEF WorkerDeletes, FqiDestroyWorkItem
    <3> QED BY <1>6, <3>1, <3>2, <3>3, <3>4, <3>5, <3>6, <3>7, <3>8, <3>9, <3>10 DEF WorkerStep, Work
  <2> QED BY <1>w, <1>6, <2>1 DEF WorkTypes, WorkerKept
<1> QED BY <1>1, <1>2, <1>3, <1>4, <1>5, <1>6

\* The handles the threads keep over a step of somebody else.
LEMMA HandlesKept ==
    ASSUME QueueTypes, ItemsOwned, NEW p \in Processes, NEW q \in Processes,
           \/ QueueStep(p) \/ EnumerateStep(p) \/ RegisterStep(p) \/ Notify(p)
           \/ ScanStep(Client(p)) \/ ScanStep(Notifier(p))
           \/ WorkerStep(p) /\ (q # p \/ ~WorkerCloses(p))
    PROVE  \A b \in Buckets : Worker(q) \in handles[b] => Worker(q) \in handles'[b]
<1>f. FileTypes /\ ScanTypes /\ WorkTypes BY DEF QueueTypes
<1>u. ASSUME NEW th, th # Worker(q), NEW c \in Buckets, UnlockAndClose(th, c)
      PROVE  \A b \in Buckets : Worker(q) \in handles[b] => Worker(q) \in handles'[b]
  BY <1>f, <1>u DEF UnlockAndClose, FileTypes
<1>o. ASSUME NEW th, NEW c \in Buckets, OpenFile(th, c)
      PROVE  \A b \in Buckets : Worker(q) \in handles[b] => Worker(q) \in handles'[b]
  BY <1>f, <1>o DEF OpenFile, FileTypes
<1>1. CASE QueueStep(p)
  BY <1>1 DEF QueueStep, FqInsertFile, EnterQueue, WorkerStarted, SignalWorker, fileVars
<1>2. CASE EnumerateStep(p)
  BY <1>2 DEF EnumerateStep, FqEnumerateQueue, EnumCallback, EnumCallbackReturns, EnumReturns, fileVars
<1>3. CASE RegisterStep(p)
  BY <1>3 DEF RegisterStep, FqRegisterQueueNotification, RegisterReturns,
     FqUnregisterQueueNotification, FqUninitialize, fileVars
<1>4. CASE Notify(p)
  BY <1>4 DEF Notify, NotifierStarts, NotifierScans, NotifierChecks, NotificationCallback,
     NotifierScanned, NotifierWaits, NotifierExits, fileVars
<1>5. ASSUME NEW s \in {Client(p), Notifier(p)}, ScanStep(s)
      PROVE  \A b \in Buckets : Worker(q) \in handles[b] => Worker(q) \in handles'[b]
  <2>s. s \in Scanners /\ s # Worker(q) BY ThreadsApart
  <2>1. CASE ScanOpen(s)
    <3>1. PICK b \in Buckets : UNCHANGED handles \/ OpenFile(s, b)
      BY <1>f, <2>s, <2>1, ScanOpenDoes DEF ScanTypes
    <3> QED BY <1>o, <3>1
  <2>2. CASE ScanLock(s) BY <2>2 DEF ScanLock
  <2>3. CASE ScanClose(s)
    <3>1. scan[s].bucket \in Buckets /\ UnlockAndClose(s, scan[s].bucket)
      BY <1>f, <2>s, <2>3 DEF ScanClose, ScanTypes
    <3> QED BY <1>u, <2>s, <3>1
  <2>4. CASE ScanDelete(s) BY <2>4 DEF ScanDelete, DeleteCorrupt
  <2> QED BY <1>5, <2>1, <2>2, <2>3, <2>4 DEF ScanStep
<1>6. CASE WorkerStep(p) /\ (q # p \/ ~WorkerCloses(p))
  <2>e. worker[p] \in Executing => Bucket(p) \in Buckets BY <1>f, WorkersBucket
  <2>1. CASE WorkerOpens(p)
    <3>1. UNCHANGED handles \/ OpenFile(Worker(p), Bucket(p)) BY <2>1 DEF WorkerOpens
    <3>2. Bucket(p) \in Buckets BY <2>e, <2>1 DEF WorkerOpens, Executing
    <3> QED BY <1>o, <3>1, <3>2
  <2>2. CASE WorkerCloses(p)
    <3>1. Bucket(p) \in Buckets /\ UnlockAndClose(Worker(p), Bucket(p))
      BY <2>e, <2>2 DEF WorkerCloses, Executing
    <3> QED BY <1>6, <1>u, <2>2, <3>1, ThreadsApart
  <2>3. CASE ~WorkerOpens(p) /\ ~WorkerCloses(p)
    BY <1>6, <2>3 DEF WorkerStep, Work, WorkerStarts, WorkerWaits, WorkerTimesOut, WorkerEnds,
       WorkerNext, WorkerLocks, WorkerWrites, WorkerDeletes, DeleteCorrupt, fileVars
  <2> QED BY <2>1, <2>2, <2>3
<1> QED BY <1>1, <1>2, <1>3, <1>4, <1>5, <1>6

\* The worker opens the file before it locks it, and closes it in the end.
LEMMA WorkerHoldsStep ==
    QueueTypes /\ ItemsOwned /\ WorkerHolds /\ [QueueNext]_queueVars => WorkerHolds'
<1> SUFFICES ASSUME QueueTypes, ItemsOwned, WorkerHolds, [QueueNext]_queueVars PROVE WorkerHolds'
  OBVIOUS
<1>f. FileTypes /\ WorkTypes BY DEF QueueTypes
<1>h. \A p \in Processes : Holds(p) BY DEF WorkerHolds, Holds
<1>b. \A q \in Processes : worker[q] \in Executing => Bucket(q) \in Buckets BY <1>f, WorkersBucket
<1>k. ASSUME NEW q \in Processes, WorkerKept(q),
             \A b \in Buckets : Worker(q) \in handles[b] => Worker(q) \in handles'[b]
      PROVE  Holds(q)'
  BY <1>h, <1>b, <1>k DEF WorkerKept, Holds, Bucket, Name, Executing
<1>n. ASSUME NEW q \in Processes, worker'[q] \notin {"lock", "write", "close", "corrupt"}
      PROVE  Holds(q)'
  BY <1>n DEF Holds
<1> SUFFICES ASSUME NEW q \in Processes PROVE Holds(q)' BY DEF WorkerHolds, Holds
<1>1. ASSUME NEW p \in Processes,
             \/ EnumerateStep(p) \/ RegisterStep(p) \/ Notify(p)
             \/ ScanStep(Client(p)) \/ ScanStep(Notifier(p))
             \/ WorkerStep(p) /\ q # p
      PROVE  Holds(q)'
  BY <1>k, <1>1, WorkersKept, HandlesKept
<1>2. ASSUME NEW p \in Processes, QueueStep(p) PROVE Holds(q)'
  <2>1. CASE worker[q] # "none" BY <1>k, <1>2, <2>1, WorkersKept, HandlesKept
  <2>2. CASE worker[q] = "none"
    <3>1. UNCHANGED worker \/ worker' = [worker EXCEPT ![p] = "starting"]
      BY <1>2 DEF QueueStep, FqInsertFile, EnterQueue, WorkerStarted, SignalWorker, WorkerAt, workVars
    <3>2. worker'[q] \in {"none", "starting"} BY <1>f, <2>2, <3>1 DEF WorkTypes
    <3> QED BY <1>n, <3>2
  <2> QED BY <2>1, <2>2
<1>3. CASE WorkerStep(q)
  <2>e. worker[q] \in Executing => Bucket(q) \in Buckets BY <1>b
  <2>d. ASSUME FqiDestroyWorkItem(q) PROVE Holds(q)'
    <3>1. worker'[q] = "next" BY <1>f, <2>d DEF FqiDestroyWorkItem, WorkerAt, WorkTypes
    <3> QED BY <1>n, <3>1
  <2>i. ASSUME UNCHANGED item, worker[q] \in {"lock", "write", "close", "corrupt"}, ~WorkerCloses(q)
        PROVE  Holds(q)'
    BY <1>3, <1>h, <2>e, <2>i, HandlesKept DEF Holds, Bucket, Name, Executing
  <2> USE DEF WorkerAt, WorkTypes
  <2>1. CASE WorkerStarts(q) \/ WorkerWaits(q) \/ WorkerTimesOut(q) \/ WorkerEnds(q) \/ WorkerNext(q)
    <3>1. worker'[q] \in {"none", "wait", "next", "timeout", "open"}
      BY <1>f, <2>1 DEF WorkerStarts, WorkerWaits, WorkerTimesOut, WorkerEnds, WorkerNext
    <3> QED BY <1>n, <3>1
  <2>2. CASE WorkerOpens(q)
    <3>1. FqiDestroyWorkItem(q) \/ (OpenFile(Worker(q), Bucket(q)) /\ UNCHANGED item)
      BY <2>2 DEF WorkerOpens
    <3>2. Bucket(q) \in Buckets BY <2>e, <2>2 DEF WorkerOpens, Executing
    <3>3. OpenFile(Worker(q), Bucket(q)) => Worker(q) \in handles'[Bucket(q)]
      BY <1>f, <3>2 DEF OpenFile, FileTypes
    <3> QED BY <2>d, <3>1, <3>3 DEF Holds, Bucket, Name
  <2>3. CASE WorkerLocks(q) \/ WorkerWrites(q)
    <3>1. worker[q] \in {"lock", "write"} /\ UNCHANGED item BY <2>3 DEF WorkerLocks, WorkerWrites
    <3>2. ~WorkerCloses(q) BY <3>1 DEF WorkerCloses
    <3> QED BY <2>i, <3>1, <3>2
  <2>4. CASE WorkerCloses(q)
    <3>1. FqiDestroyWorkItem(q) \/ WorkerAt(q, "delete") BY <2>4 DEF WorkerCloses
    <3>2. WorkerAt(q, "delete") => worker'[q] = "delete" BY <1>f
    <3> QED BY <1>n, <2>d, <3>1, <3>2
  <2>5. CASE WorkerDeletes(q) BY <2>d, <2>5 DEF WorkerDeletes
  <2> QED BY <1>3, <2>1, <2>2, <2>3, <2>4, <2>5 DEF WorkerStep, Work
<1>4. CASE UNCHANGED queueVars
  BY <1>h, <1>4 DEF queueVars, workVars, fileVars, Holds, Bucket, Name
<1>5. ASSUME NEW p \in Processes, WorkerStep(p) PROVE Holds(q)' BY <1>1, <1>3, <1>5
<1>6. CASE QueueNext
  <2>1. PICK p \in Processes :
           \/ QueueStep(p) \/ EnumerateStep(p) \/ RegisterStep(p) \/ Notify(p) \/ WorkerStep(p)
           \/ ScanStep(Client(p)) \/ ScanStep(Notifier(p))
    BY <1>6, QueueSteps
  <2> QED BY <1>1, <1>2, <1>5, <2>1
<1> QED BY <1>4, <1>6

-----------------------------------------------------------------------------
\* What an item under way has come to.
ExecutedBy(p) ==
    \A n \in Names :
        Name(p) = n =>
        /\ worker[p] = "close" => n \in lost \/ (Recorded(n) <=> item[p].type = "WRITERECORD")
        /\ worker[p] \in {"corrupt", "delete"} => n \in lost \/ item[p].type = "DELETERECORD"

\* Nobody else undoes what the worker has written: others close the file, or delete
\* it as corrupt and then its records are lost.
LEMMA ExecutedStep ==
    QueueTypes /\ ItemsOwned /\ EmptyFiles /\ Executed /\ [QueueNext]_queueVars => Executed'
<1> SUFFICES ASSUME QueueTypes, ItemsOwned, EmptyFiles, Executed, [QueueNext]_queueVars
             PROVE  Executed'
  OBVIOUS
<1>f. FileTypes /\ WorkTypes BY DEF QueueTypes
<1>x. \A p \in Processes : ExecutedBy(p) BY DEF Executed, ExecutedBy
<1>k. ASSUME NEW q \in Processes, WorkerKept(q), worker[q] \in Executing => \A n \in Names : Name(q) = n => Keeps(n)
      PROVE  ExecutedBy(q)'
  BY <1>x, <1>k DEF WorkerKept, ExecutedBy, Name, Keeps, Executing
<1>n. ASSUME NEW q \in Processes, worker'[q] \notin {"close", "corrupt", "delete"}
      PROVE  ExecutedBy(q)'
  BY <1>n DEF ExecutedBy
<1> SUFFICES ASSUME NEW q \in Processes PROVE ExecutedBy(q)' BY DEF Executed, ExecutedBy
<1>1. ASSUME NEW p \in Processes,
             \/ EnumerateStep(p) \/ RegisterStep(p) \/ Notify(p)
             \/ ScanStep(Client(p)) \/ ScanStep(Notifier(p))
      PROVE  ExecutedBy(q)'
  BY <1>k, <1>1, WorkersKept, OthersKeep
<1>2. ASSUME NEW p \in Processes, QueueStep(p) PROVE ExecutedBy(q)'
  <2>1. CASE worker[q] # "none" BY <1>k, <1>2, <2>1, WorkersKept, OthersKeep
  <2>2. CASE worker[q] = "none"
    <3>1. UNCHANGED worker \/ worker' = [worker EXCEPT ![p] = "starting"]
      BY <1>2 DEF QueueStep, FqInsertFile, EnterQueue, WorkerStarted, SignalWorker, WorkerAt, workVars
    <3>2. worker'[q] \in {"none", "starting"} BY <1>f, <2>2, <3>1 DEF WorkTypes
    <3> QED BY <1>n, <3>2
  <2> QED BY <2>1, <2>2
<1>3. ASSUME NEW p \in Processes, WorkerStep(p), q # p PROVE ExecutedBy(q)'
  <2>1. WorkerKept(q) BY <1>3, WorkersKept
  <2>2. ASSUME worker[q] \in Executing, NEW n \in Names, Name(q) = n PROVE Keeps(n)
    <3>1. Owner[n] = q BY <1>f, <2>2, WorkersBucket
    <3>2. item[p] = None \/ n # Name(p) BY <1>3, <3>1 DEF ItemsOwned, Name
    <3> QED BY <1>3, <3>2, WorkersKeep
  <2> QED BY <1>k, <2>1, <2>2
<1>4. CASE WorkerStep(q)
  <2>d. ASSUME FqiDestroyWorkItem(q) PROVE ExecutedBy(q)'
    <3>1. worker'[q] = "next" BY <1>f, <2>d DEF FqiDestroyWorkItem, WorkerAt, WorkTypes
    <3> QED BY <1>n, <3>1
  <2>1. CASE \/ WorkerStarts(q) \/ WorkerWaits(q) \/ WorkerTimesOut(q) \/ WorkerEnds(q) \/ WorkerNext(q)
             \/ WorkerLocks(q)
    <3>1. worker'[q] \in {"none", "wait", "next", "timeout", "open", "write"}
      BY <1>f, <2>1 DEF WorkerStarts, WorkerWaits, WorkerTimesOut, WorkerEnds, WorkerNext, WorkerLocks,
         WorkerAt, WorkTypes
    <3> QED BY <1>n, <3>1
  <2>2. CASE WorkerOpens(q)
    <3>1. FqiDestroyWorkItem(q) \/ WorkerAt(q, "lock") BY <2>2 DEF WorkerOpens
    <3>2. WorkerAt(q, "lock") => worker'[q] = "lock" BY <1>f DEF WorkerAt, WorkTypes
    <3> QED BY <1>n, <2>d, <3>1, <3>2
  <2>3. CASE WorkerWrites(q)
    <3>e. worker[q] = "write" /\ UNCHANGED item BY <2>3 DEF WorkerWrites
    <3>b. Name(q) \in Names /\ Bucket(q) \in Buckets /\ Bucket(q) = FqiCreateFileNameHash[Name(q)]
      BY <1>f, <3>e, WorkersBucket DEF Executing, Bucket
    <3> SUFFICES ASSUME NEW n \in Names, item'[q].name = n
                 PROVE  /\ worker'[q] = "close" =>
                              n \in lost' \/ (Recorded(n)' <=> item'[q].type = "WRITERECORD")
                        /\ worker'[q] \in {"corrupt", "delete"} =>
                              n \in lost' \/ item'[q].type = "DELETERECORD"
      BY DEF ExecutedBy, Name
    <3>n. Name(q) = n BY <3>e DEF Name
    <3>1. CASE WriteRecord(q)
      <4>1. /\ item[q].type = "WRITERECORD" /\ LastModified' = [LastModified EXCEPT ![n] = clock + 1]
            /\ UNCHANGED files /\ WorkerAt(q, "close")
            /\ IF files[Bucket(q)] = "present" THEN TRUE ELSE lost' = lost \union {n}
        BY <3>1, <3>n DEF WriteRecord, Drops, FqGetLastModifiedTime
      <4>2. LastModified'[n] > 0 BY <1>f, <4>1 DEF FileTypes
      <4>3. files[Bucket(q)] = "present" => Recorded(n)'
        BY <3>b, <3>n, <4>1, <4>2 DEF Recorded
      <4>4. worker'[q] = "close" BY <1>f, <4>1 DEF WorkerAt, WorkTypes
      <4> QED BY <3>e, <4>1, <4>3, <4>4
    <3>2. CASE DeleteRecord(q)
      <4>1. item[q].type = "DELETERECORD" BY <3>2 DEF DeleteRecord
      <4>2. \/ files' = [files EXCEPT ![Bucket(q)] = "deleting"]
            \/ LastModified' = [LastModified EXCEPT ![n] = 0]
            \/ WorkerAt(q, "corrupt")
        BY <3>2, <3>n DEF DeleteRecord
      <4>3. \/ ~Recorded(n)' \/ worker'[q] = "corrupt"
        BY <1>f, <3>b, <3>n, <4>2 DEF Recorded, WorkerAt, WorkTypes, FileTypes
      <4> QED BY <3>e, <4>1, <4>3
    <3>3. CASE Drops(q) BY <3>3, <3>n DEF Drops
    <3> QED BY <2>3, <3>1, <3>2, <3>3 DEF WorkerWrites
  <2>4. CASE WorkerCloses(q)
    <3>1. FqiDestroyWorkItem(q) \/ (worker[q] = "corrupt" /\ WorkerAt(q, "delete") /\ UNCHANGED <<item, lost>>)
      BY <2>4 DEF WorkerCloses
    <3>2. CASE worker[q] = "corrupt" /\ WorkerAt(q, "delete") /\ UNCHANGED <<item, lost>>
      <4>1. worker'[q] = "delete" BY <1>f, <3>2 DEF WorkerAt, WorkTypes
      <4> QED BY <1>x, <3>2, <4>1 DEF ExecutedBy, Name
    <3> QED BY <2>d, <3>1, <3>2
  <2>5. CASE WorkerDeletes(q) BY <2>d, <2>5 DEF WorkerDeletes
  <2> QED BY <1>4, <2>1, <2>2, <2>3, <2>4, <2>5 DEF WorkerStep, Work
<1>5. CASE UNCHANGED queueVars
  BY <1>k, <1>5, NothingChanges DEF queueVars, workVars, fileVars, WorkerKept
<1>6. ASSUME NEW p \in Processes, WorkerStep(p) PROVE ExecutedBy(q)' BY <1>3, <1>4, <1>6
<1> QED BY <1>1, <1>2, <1>5, <1>6, QueueSteps

-----------------------------------------------------------------------------
\* An item goes to the end of the queue and is taken from its head.
LEMMA InsertsLast ==
    ASSUME WorkTypes, ItemsOwned, NEW p \in Processes, InsertItem(p), client[p] \in {"enter", "starting"}
    PROVE  /\ call[p] \in WorkItems /\ call[p].name \in Names /\ Owner[call[p].name] = p
           /\ Len(WorkQueue'[p]) = Len(WorkQueue[p]) + 1
           /\ WorkQueue'[p][Len(WorkQueue[p]) + 1] = call[p]
           /\ \A i \in 1 .. Len(WorkQueue[p]) : WorkQueue'[p][i] = WorkQueue[p][i]
           /\ \A q \in Processes \ {p} : WorkQueue'[q] = WorkQueue[q]
           /\ asked'[call[p].name] = call[p].type
           /\ \A n \in Names \ {call[p].name} : asked'[n] = asked[n]
<1>1. call[p] \in WorkItems /\ Owner[call[p].name] = p BY DEF WorkTypes, ItemsOwned
<1>2. call[p].name \in Names BY <1>1 DEF WorkItems
<1>3. /\ WorkQueue' = [WorkQueue EXCEPT ![p] = Append(@, call[p])]
      /\ asked' = [asked EXCEPT ![call[p].name] = call[p].type]
  BY DEF InsertItem
<1>4. WorkQueue[p] \in Seq(WorkItems) /\ WorkQueue'[p] = Append(WorkQueue[p], call[p])
  BY <1>3 DEF WorkTypes
<1>5. /\ Len(WorkQueue'[p]) = Len(WorkQueue[p]) + 1
      /\ WorkQueue'[p][Len(WorkQueue[p]) + 1] = call[p]
      /\ \A i \in 1 .. Len(WorkQueue[p]) : WorkQueue'[p][i] = WorkQueue[p][i]
  BY <1>1, <1>4
<1>6. \A q \in Processes \ {p} : WorkQueue'[q] = WorkQueue[q] BY <1>3 DEF WorkTypes
<1>7. /\ asked'[call[p].name] = call[p].type
      /\ \A n \in Names \ {call[p].name} : asked'[n] = asked[n]
  BY <1>2, <1>3 DEF WorkTypes
<1> QED BY <1>1, <1>2, <1>5, <1>6, <1>7

LEMMA TakesFirst ==
    ASSUME WorkTypes, ItemsOwned, NEW p \in Processes, WorkerNext(p), WorkQueue[p] # <<>>
    PROVE  /\ item[p] = None /\ item'[p] = WorkQueue[p][1] /\ item'[p] # None
           /\ Len(WorkQueue[p]) \in Nat \ {0} /\ Len(WorkQueue'[p]) = Len(WorkQueue[p]) - 1
           /\ \A i \in 1 .. Len(WorkQueue'[p]) : WorkQueue'[p][i] = WorkQueue[p][i + 1]
           /\ \A q \in Processes \ {p} : WorkQueue'[q] = WorkQueue[q] /\ item'[q] = item[q]
<1>1. /\ WorkQueue' = [WorkQueue EXCEPT ![p] = Tail(@)] /\ worker[p] = "next"
      /\ item' = [item EXCEPT ![p] = Head(WorkQueue[p])]
  BY DEF WorkerNext
<1>2. WorkQueue[p] \in Seq(WorkItems) BY DEF WorkTypes
<1>3. Head(WorkQueue[p]) \in WorkItems /\ Head(WorkQueue[p]) = WorkQueue[p][1] BY <1>2
<1>4. /\ Len(WorkQueue[p]) \in Nat \ {0} /\ Len(Tail(WorkQueue[p])) = Len(WorkQueue[p]) - 1
      /\ \A i \in 1 .. Len(Tail(WorkQueue[p])) : Tail(WorkQueue[p])[i] = WorkQueue[p][i + 1]
  BY <1>2
<1>5. WorkQueue'[p] = Tail(WorkQueue[p]) /\ item'[p] = WorkQueue[p][1]
  BY <1>1, <1>3 DEF WorkTypes
<1>6. item[p] = None BY <1>1 DEF ItemsOwned, Executing
<1>7. WorkQueue[p][1] # None BY <1>3, QueueAssumption
<1>8. \A q \in Processes \ {p} : WorkQueue'[q] = WorkQueue[q] /\ item'[q] = item[q]
  BY <1>1 DEF WorkTypes
<1> QED BY <1>4, <1>5, <1>6, <1>7, <1>8

\* A call either queues its item or leaves the queue alone.
LEMMA CallsInsert ==
    ASSUME NEW p \in Processes, QueueStep(p)
    PROVE  /\ UNCHANGED item
           /\ \/ InsertItem(p) /\ client[p] \in {"enter", "starting"}
              \/ UNCHANGED <<WorkQueue, asked>>
<1>1. CASE FqInsertFile(p) BY <1>1 DEF FqInsertFile, workVars
<1>2. CASE EnterQueue(p) BY <1>2 DEF EnterQueue
<1>3. CASE WorkerStarted(p) BY <1>3 DEF WorkerStarted
<1>4. CASE SignalWorker(p) BY <1>4 DEF SignalWorker
<1> QED BY <1>1, <1>2, <1>3, <1>4 DEF QueueStep

\* The worker takes an item, goes on with it, or is done with it.
LEMMA WorkerTakes ==
    ASSUME NEW p \in Processes, WorkerStep(p)
    PROVE  /\ UNCHANGED asked
           /\ \/ WorkerNext(p) /\ WorkQueue[p] # <<>>
              \/ UNCHANGED <<WorkQueue, item>>
              \/ /\ UNCHANGED WorkQueue /\ FqiDestroyWorkItem(p)
                 /\ WorkerOpens(p) \/ WorkerCloses(p) \/ WorkerDeletes(p)
<1> USE DEF clientVars, workerOther, executeOther
<1>1. CASE WorkerNext(p) BY <1>1 DEF WorkerNext
<1>2. CASE WorkerStarts(p) \/ WorkerWaits(p) \/ WorkerTimesOut(p) \/ WorkerEnds(p) \/ WorkerLocks(p)
           \/ WorkerWrites(p)
  BY <1>2 DEF WorkerStarts, WorkerWaits, WorkerTimesOut, WorkerEnds, WorkerLocks, WorkerWrites
<1>3. CASE WorkerOpens(p) BY <1>3 DEF WorkerOpens
<1>4. CASE WorkerCloses(p) BY <1>4 DEF WorkerCloses
<1>5. CASE WorkerDeletes(p) BY <1>5 DEF WorkerDeletes
<1> QED BY <1>1, <1>2, <1>3, <1>4, <1>5 DEF WorkerStep, Work

\* Everybody else leaves what is queued as it is.
LEMMA OthersQueueNothing ==
    ASSUME NEW p \in Processes,
           \/ EnumerateStep(p) \/ RegisterStep(p) \/ Notify(p)
           \/ ScanStep(Client(p)) \/ ScanStep(Notifier(p))
    PROVE  UNCHANGED <<WorkQueue, item, asked>>
<1> USE DEF workVars, clientVars
<1>1. CASE EnumerateStep(p)
  BY <1>1 DEF EnumerateStep, FqEnumerateQueue, EnumCallback, EnumCallbackReturns, EnumReturns
<1>2. CASE RegisterStep(p)
  BY <1>2 DEF RegisterStep, FqRegisterQueueNotification, RegisterReturns,
     FqUnregisterQueueNotification, FqUninitialize
<1>3. CASE Notify(p)
  BY <1>3 DEF Notify, NotifierStarts, NotifierScans, NotifierChecks, NotificationCallback,
     NotifierScanned, NotifierWaits, NotifierExits, notifierOther
<1>4. CASE ScanStep(Client(p)) \/ ScanStep(Notifier(p)) BY <1>4 DEF ScanStep
<1> QED BY <1>1, <1>2, <1>3, <1>4

\* LastAsked, item by item.
LastAskedOf(p, n) ==
    /\ \A i \in 1 .. Len(WorkQueue[p]) :
          WorkQueue[p][i].name = n /\ NotAfter(p, i, n) => WorkQueue[p][i].type = asked[n]
    /\ item[p] # None /\ Name(p) = n /\ NotAfter(p, 0, n) => item[p].type = asked[n]

LEMMA LastAskedStep == QueueTypes /\ ItemsOwned /\ LastAsked /\ [QueueNext]_queueVars => LastAsked'
<1> SUFFICES ASSUME QueueTypes, ItemsOwned, LastAsked, [QueueNext]_queueVars PROVE LastAsked'
  OBVIOUS
<1>w. WorkTypes BY DEF QueueTypes
<1>a. \A p \in Processes, n \in Names : LastAskedOf(p, n) BY DEF LastAsked, LastAskedOf
<1>l. \A p \in Processes : Len(WorkQueue[p]) \in Nat BY <1>w DEF WorkTypes
<1> SUFFICES ASSUME NEW q \in Processes, NEW n \in Names PROVE LastAskedOf(q, n)'
  BY DEF LastAsked, LastAskedOf
<1>q. LastAskedOf(q, n) BY <1>a
<1>k. ASSUME WorkQueue'[q] = WorkQueue[q], item'[q] = item[q] \/ item'[q] = None, asked'[n] = asked[n]
      PROVE  LastAskedOf(q, n)'
  BY <1>q, <1>k DEF LastAskedOf, NotAfter, Name
<1>1. ASSUME NEW p \in Processes, QueueStep(p) PROVE LastAskedOf(q, n)'
  <2>1. CASE InsertItem(p) /\ client[p] \in {"enter", "starting"}
    <3> DEFINE len == Len(WorkQueue[p])
    <3>0. len \in Nat BY <1>l
    <3>i. UNCHANGED item BY <1>1, CallsInsert
    <3>1. /\ call[p].name \in Names /\ Owner[call[p].name] = p
          /\ Len(WorkQueue'[p]) = len + 1 /\ WorkQueue'[p][len + 1] = call[p]
          /\ \A i \in 1 .. len : WorkQueue'[p][i] = WorkQueue[p][i]
          /\ \A r \in Processes \ {p} : WorkQueue'[r] = WorkQueue[r]
          /\ asked'[call[p].name] = call[p].type
          /\ \A m \in Names \ {call[p].name} : asked'[m] = asked[m]
      BY <1>w, <2>1, InsertsLast
    <3>2. CASE q = p
      <4> HIDE DEF len
      <4>1. ASSUME NEW i \in 1 .. len, WorkQueue'[p][i].name = n, NotAfter(p, i, n)'
            PROVE  WorkQueue'[p][i].type = asked'[n]
        <5>1. n # call[p].name
          <6>1. len + 1 \in i + 1 .. len + 1 BY <3>0
          <6> QED BY <3>1, <4>1, <6>1 DEF NotAfter
        <5>2. NotAfter(p, i, n)
          <6> SUFFICES ASSUME NEW j \in i + 1 .. len PROVE WorkQueue[p][j].name # n
            BY DEF NotAfter, len
          <6>1. j \in i + 1 .. len + 1 /\ j \in 1 .. len BY <3>0
          <6> QED BY <3>1, <4>1, <6>1 DEF NotAfter
        <5>3. WorkQueue[p][i].name = n BY <3>1, <4>1
        <5>4. WorkQueue[p][i].type = asked[n] BY <1>a, <5>2, <5>3 DEF LastAskedOf, len
        <5> QED BY <3>1, <5>1, <5>4
      <4>2. ASSUME WorkQueue'[p][len + 1].name = n PROVE WorkQueue'[p][len + 1].type = asked'[n]
        BY <3>1, <4>2
      <4>3. ASSUME item'[p] # None, item'[p].name = n, NotAfter(p, 0, n)' PROVE item'[p].type = asked'[n]
        <5>1. n # call[p].name
          <6>1. len + 1 \in 0 + 1 .. len + 1 BY <3>0
          <6> QED BY <3>1, <4>3, <6>1 DEF NotAfter
        <5>2. NotAfter(p, 0, n)
          <6> SUFFICES ASSUME NEW j \in 0 + 1 .. len PROVE WorkQueue[p][j].name # n
            BY DEF NotAfter, len
          <6>1. j \in 0 + 1 .. len + 1 /\ j \in 1 .. len BY <3>0
          <6> QED BY <3>1, <4>3, <6>1 DEF NotAfter
        <5>3. item[p].type = asked[n] BY <1>a, <3>i, <4>3, <5>2 DEF LastAskedOf, Name
        <5> QED BY <3>1, <3>i, <5>1, <5>3
      <4>4. \A i \in 1 .. Len(WorkQueue'[p]) : i \in 1 .. len \/ i = len + 1 BY <3>0, <3>1
      <4>5. LastAskedOf(p, n)' BY <4>1, <4>2, <4>3, <4>4 DEF LastAskedOf, Name
      <4> QED BY <3>2, <4>5
    <3>3. CASE q # p
      <4>1. CASE n # call[p].name BY <1>k, <3>1, <3>3, <3>i, <4>1
      <4>2. CASE n = call[p].name
        <5>1. Owner[n] # q BY <3>1, <3>3, <4>2
        <5>2. \A i \in 1 .. Len(WorkQueue'[q]) : WorkQueue'[q][i].name # n
          BY <3>1, <3>3, <5>1 DEF ItemsOwned
        <5>3. item'[q] # None => item'[q].name # n BY <3>i, <5>1 DEF ItemsOwned
        <5> QED BY <5>2, <5>3 DEF LastAskedOf, Name
      <4> QED BY <4>1, <4>2
    <3> QED BY <3>2, <3>3
  <2>2. CASE UNCHANGED <<WorkQueue, asked>> BY <1>k, <1>1, <2>2, CallsInsert
  <2> QED BY <1>1, <2>1, <2>2, CallsInsert
<1>2. ASSUME NEW p \in Processes, WorkerStep(p) PROVE LastAskedOf(q, n)'
  <2>a. UNCHANGED asked BY <1>2, WorkerTakes
  <2>1. CASE WorkerNext(p) /\ WorkQueue[p] # <<>>
    <3>1. /\ item'[p] = WorkQueue[p][1]
          /\ Len(WorkQueue[p]) \in Nat \ {0} /\ Len(WorkQueue'[p]) = Len(WorkQueue[p]) - 1
          /\ \A i \in 1 .. Len(WorkQueue'[p]) : WorkQueue'[p][i] = WorkQueue[p][i + 1]
          /\ \A r \in Processes \ {p} : WorkQueue'[r] = WorkQueue[r] /\ item'[r] = item[r]
      BY <1>w, <2>1, TakesFirst
    <3>2. CASE q # p BY <1>k, <2>a, <3>1, <3>2
    <3>3. CASE q = p
      <4>n. ASSUME NEW i \in Nat, NotAfter(p, i, n)' PROVE NotAfter(p, i + 1, n)
        <5> SUFFICES ASSUME NEW j \in (i + 1) + 1 .. Len(WorkQueue[p]) PROVE WorkQueue[p][j].name # n
          BY DEF NotAfter
        <5>1. j - 1 \in i + 1 .. Len(WorkQueue'[p]) /\ j - 1 \in 1 .. Len(WorkQueue'[p]) /\ (j - 1) + 1 = j
          BY <3>1
        <5>2. WorkQueue'[p][j - 1].name # n BY <4>n, <5>1 DEF NotAfter
        <5>3. WorkQueue'[p][j - 1] = WorkQueue[p][(j - 1) + 1] BY <3>1, <5>1
        <5>4. (j - 1) + 1 = j BY <3>1
        <5> QED BY <5>2, <5>3, <5>4
      <4>1. ASSUME NEW i \in 1 .. Len(WorkQueue'[p]), WorkQueue'[p][i].name = n, NotAfter(p, i, n)'
            PROVE  WorkQueue'[p][i].type = asked'[n]
        <5>1. i \in Nat /\ i + 1 \in 1 .. Len(WorkQueue[p]) BY <3>1
        <5>2. NotAfter(p, i + 1, n) BY <4>1, <4>n, <5>1
        <5>3. WorkQueue[p][i + 1].type = asked[n] BY <1>a, <3>1, <4>1, <5>1, <5>2 DEF LastAskedOf
        <5> QED BY <2>a, <3>1, <5>3
      <4>2. ASSUME item'[p].name = n, NotAfter(p, 0, n)' PROVE item'[p].type = asked'[n]
        <5>1. NotAfter(p, 0 + 1, n) BY <4>2, <4>n
        <5>2. NotAfter(p, 1, n) BY <5>1
        <5>3. 1 \in 1 .. Len(WorkQueue[p]) BY <3>1
        <5> QED BY <1>a, <2>a, <3>1, <4>2, <5>2, <5>3 DEF LastAskedOf
      <4>3. LastAskedOf(p, n)' BY <4>1, <4>2 DEF LastAskedOf, Name
      <4> QED BY <3>3, <4>3
    <3> QED BY <3>2, <3>3
  <2>2. CASE UNCHANGED <<WorkQueue, item>> BY <1>k, <2>2, <2>a
  <2>3. CASE UNCHANGED WorkQueue /\ FqiDestroyWorkItem(p)
    <3>1. item'[q] = item[q] \/ item'[q] = None BY <1>w, <2>3 DEF FqiDestroyWorkItem, WorkTypes
    <3> QED BY <1>k, <2>3, <2>a, <3>1
  <2> QED BY <1>2, <2>1, <2>2, <2>3, WorkerTakes
<1>3. ASSUME NEW p \in Processes,
             \/ EnumerateStep(p) \/ RegisterStep(p) \/ Notify(p)
             \/ ScanStep(Client(p)) \/ ScanStep(Notifier(p))
      PROVE  LastAskedOf(q, n)'
  BY <1>k, <1>3, OthersQueueNothing
<1>4. CASE UNCHANGED queueVars BY <1>k, <1>4 DEF queueVars, workVars, clientVars
<1> QED BY <1>1, <1>2, <1>3, <1>4, QueueSteps

-----------------------------------------------------------------------------
\* An item for n is under way or on the queue.
Waits(p, n) ==
    \/ item[p] # None /\ Name(p) = n
    \/ \E i \in 1 .. Len(WorkQueue[p]) : WorkQueue[p][i].name = n

\* A pending name waits.
LEMMA PendingWaits ==
    ASSUME WorkTypes, WorkTypes', NEW p \in Processes, NEW n
    PROVE  (Pending(p, n) <=> Waits(p, n)) /\ (Pending(p, n)' <=> Waits(p, n)')
<1>1. WorkQueue[p] \in Seq(WorkItems) /\ WorkQueue'[p] \in Seq(WorkItems) BY DEF WorkTypes
<1>2. Pending(p, n) <=> Waits(p, n)
  <2> DEFINE i == item[p]
             q == WorkQueue[p]
  <2>1. q \in Seq(WorkItems) BY <1>1
  <2> HIDE DEF i, q
  <2>2. (\E j \in {i} \union Range(q) : j # None /\ j.name = n)
        <=> ((i # None /\ i.name = n) \/ \E k \in 1 .. Len(q) : q[k].name = n)
    <3>1. Range(q) = {q[k] : k \in 1 .. Len(q)} BY <2>1 DEF Range
    <3>2. \A k \in 1 .. Len(q) : q[k] \in WorkItems /\ q[k] # None BY <2>1, QueueAssumption
    <3> QED BY <3>1, <3>2
  <2> QED BY <2>2 DEF Pending, Waits, Name, i, q
<1>3. Pending(p, n)' <=> Waits(p, n)'
  <2> DEFINE i == item'[p]
             q == WorkQueue'[p]
  <2>1. q \in Seq(WorkItems) BY <1>1
  <2> HIDE DEF i, q
  <2>2. (\E j \in {i} \union Range(q) : j # None /\ j.name = n)
        <=> ((i # None /\ i.name = n) \/ \E k \in 1 .. Len(q) : q[k].name = n)
    <3>1. Range(q) = {q[k] : k \in 1 .. Len(q)} BY <2>1 DEF Range
    <3>2. \A k \in 1 .. Len(q) : q[k] \in WorkItems /\ q[k] # None BY <2>1, QueueAssumption
    <3> QED BY <3>1, <3>2
  <2> QED BY <2>2 DEF Pending, Waits, Name, i, q
<1> QED BY <1>2, <1>3

\* FilesAsAsked, name by name: when the last item for a name leaves the worker, it is
\* the one that was asked last, and it has been executed or was lost.
AsAsked(n) == Pending(Owner[n], n) \/ n \in lost \/ (Recorded(n) <=> asked[n] = "WRITERECORD")

LEMMA FilesAsAskedStep ==
    /\ QueueTypes /\ ItemsOwned /\ EmptyFiles /\ Executed /\ LastAsked /\ FilesAsAsked
    /\ [QueueNext]_queueVars
    => FilesAsAsked'
<1> SUFFICES ASSUME QueueTypes, ItemsOwned, EmptyFiles, Executed, LastAsked, FilesAsAsked,
                    [QueueNext]_queueVars
             PROVE  FilesAsAsked'
  OBVIOUS
<1>w. WorkTypes /\ FileTypes BY DEF QueueTypes
<1>v. WorkTypes' BY WorkTypesStep
<1> SUFFICES ASSUME NEW n \in Names PROVE AsAsked(n)' BY DEF FilesAsAsked, AsAsked
<1>n. AsAsked(n) BY DEF FilesAsAsked, AsAsked
<1> DEFINE o == Owner[n]
<1>o. o \in Processes BY QueueAssumption
<1>p. (Pending(o, n) <=> Waits(o, n)) /\ (Pending(o, n)' <=> Waits(o, n)')
  BY <1>w, <1>v, <1>o, PendingWaits
<1>k. ASSUME Keeps(n), asked'[n] = asked[n], Waits(o, n) => Waits(o, n)' PROVE AsAsked(n)'
  BY <1>n, <1>p, <1>k DEF AsAsked, Keeps
<1>s. ASSUME Waits(o, n)' PROVE AsAsked(n)' BY <1>p, <1>s DEF AsAsked
<1> HIDE DEF o
<1>l. Len(WorkQueue[o]) \in Nat BY <1>w, <1>o DEF WorkTypes
<1>1. ASSUME NEW p \in Processes, QueueStep(p) PROVE AsAsked(n)'
  <2>1. Keeps(n) BY <1>1, OthersKeep
  <2>2. UNCHANGED item BY <1>1, CallsInsert
  <2>3. CASE InsertItem(p) /\ client[p] \in {"enter", "starting"}
    <3>1. /\ Owner[call[p].name] = p
          /\ Len(WorkQueue'[p]) = Len(WorkQueue[p]) + 1
          /\ WorkQueue'[p][Len(WorkQueue[p]) + 1] = call[p]
          /\ \A i \in 1 .. Len(WorkQueue[p]) : WorkQueue'[p][i] = WorkQueue[p][i]
          /\ \A q \in Processes \ {p} : WorkQueue'[q] = WorkQueue[q]
          /\ \A m \in Names \ {call[p].name} : asked'[m] = asked[m]
      BY <1>w, <2>3, InsertsLast
    <3>2. CASE n = call[p].name
      <4>1. o = p BY <3>1, <3>2 DEF o
      <4>2. Len(WorkQueue[p]) + 1 \in 1 .. Len(WorkQueue'[p]) BY <1>l, <3>1, <4>1
      <4>3. Waits(o, n)' BY <3>1, <3>2, <4>1, <4>2 DEF Waits
      <4> QED BY <1>s, <4>3
    <3>3. CASE n # call[p].name
      <4>1. Waits(o, n) => Waits(o, n)'
        <5>1. CASE o = p
          <6>1. \A i \in 1 .. Len(WorkQueue[p]) : i \in 1 .. Len(WorkQueue'[p]) BY <1>l, <3>1, <5>1
          <6> QED BY <2>2, <3>1, <5>1, <6>1 DEF Waits, Name
        <5>2. CASE o # p BY <1>o, <2>2, <3>1, <5>2 DEF Waits, Name
        <5> QED BY <5>1, <5>2
      <4> QED BY <1>k, <2>1, <3>1, <3>3, <4>1
    <3> QED BY <3>2, <3>3
  <2>4. CASE UNCHANGED <<WorkQueue, asked>> BY <1>k, <2>1, <2>2, <2>4 DEF Waits, Name
  <2> QED BY <1>1, <2>3, <2>4, CallsInsert
<1>2. ASSUME NEW p \in Processes,
             \/ EnumerateStep(p) \/ RegisterStep(p) \/ Notify(p)
             \/ ScanStep(Client(p)) \/ ScanStep(Notifier(p))
      PROVE  AsAsked(n)'
  <2>1. Keeps(n) BY <1>2, OthersKeep
  <2>2. UNCHANGED <<WorkQueue, item, asked>> BY <1>2, OthersQueueNothing
  <2> QED BY <1>k, <2>1, <2>2 DEF Waits, Name
<1>3. ASSUME NEW p \in Processes, WorkerStep(p) PROVE AsAsked(n)'
  <2>a. UNCHANGED asked BY <1>3, WorkerTakes
  <2>1. CASE WorkerNext(p) /\ WorkQueue[p] # <<>>
    <3>1. /\ item[p] = None /\ item'[p] = WorkQueue[p][1] /\ item'[p] # None
          /\ Len(WorkQueue[p]) \in Nat \ {0} /\ Len(WorkQueue'[p]) = Len(WorkQueue[p]) - 1
          /\ \A i \in 1 .. Len(WorkQueue'[p]) : WorkQueue'[p][i] = WorkQueue[p][i + 1]
          /\ \A q \in Processes \ {p} : WorkQueue'[q] = WorkQueue[q] /\ item'[q] = item[q]
      BY <1>w, <2>1, TakesFirst
    <3>2. Keeps(n) BY <1>3, <3>1, WorkersKeep
    <3>3. Waits(o, n) => Waits(o, n)'
      <4>1. CASE o # p BY <1>o, <3>1, <4>1 DEF Waits, Name
      <4>2. ASSUME o = p, NEW i \in 1 .. Len(WorkQueue[p]), WorkQueue[p][i].name = n
            PROVE  Waits(p, n)'
        <5>1. CASE i = 1 BY <3>1, <4>2, <5>1 DEF Waits, Name
        <5>2. CASE i # 1
          <6>1. i - 1 \in 1 .. Len(WorkQueue'[p]) /\ (i - 1) + 1 = i BY <3>1, <5>2
          <6>2. WorkQueue'[p][i - 1] = WorkQueue[p][(i - 1) + 1] BY <3>1, <6>1
          <6> QED BY <4>2, <6>1, <6>2 DEF Waits
        <5> QED BY <5>1, <5>2
      <4> QED BY <3>1, <4>1, <4>2 DEF Waits
    <3> QED BY <1>k, <2>a, <3>2, <3>3
  <2>2. CASE UNCHANGED <<WorkQueue, item>>
    <3>1. Waits(o, n) => Waits(o, n)' BY <2>2 DEF Waits, Name
    <3>2. CASE n # Name(p) \/ item[p] = None
      <4>1. Keeps(n) BY <1>3, <3>2, WorkersKeep
      <4> QED BY <1>k, <2>a, <3>1, <4>1
    <3>3. CASE n = Name(p) /\ item[p] # None
      <4>1. o = p BY <3>3 DEF o, ItemsOwned, Name
      <4> QED BY <1>s, <3>1, <3>3, <4>1 DEF Waits
    <3> QED BY <3>2, <3>3
  <2>3. CASE /\ UNCHANGED WorkQueue /\ FqiDestroyWorkItem(p)
             /\ WorkerOpens(p) \/ WorkerCloses(p) \/ WorkerDeletes(p)
    <3>1. \A q \in Processes \ {p} : item'[q] = item[q] BY <1>w, <2>3 DEF FqiDestroyWorkItem, WorkTypes
    <3>2. CASE n # Name(p) \/ item[p] = None
      <4>1. Keeps(n) BY <1>3, <3>2, WorkersKeep
      <4>2. Waits(o, n) => Waits(o, n)'
        <5>1. CASE o = p BY <2>3, <3>2, <5>1 DEF Waits
        <5>2. CASE o # p BY <1>o, <2>3, <3>1, <5>2 DEF Waits, Name
        <5> QED BY <5>1, <5>2
      <4> QED BY <1>k, <2>a, <4>1, <4>2
    <3>3. CASE n = Name(p) /\ item[p] # None
      <4>1. o = p BY <3>3 DEF o, ItemsOwned, Name
      <4>e. worker[p] \in Executing BY <3>3 DEF ItemsOwned
      <4>b. Bucket(p) \in Buckets /\ Bucket(p) = FqiCreateFileNameHash[n] BY <3>3, BucketOf DEF Bucket
      <4>2. SUFFICES ASSUME ~Waits(o, n)' PROVE n \in lost' \/ (Recorded(n)' <=> asked'[n] = "WRITERECORD")
        BY <1>s DEF AsAsked
      <4>3. NotAfter(p, 0, n) BY <2>3, <4>1, <4>2 DEF Waits, NotAfter
      <4>4. item[p].type = asked[n] BY <3>3, <4>3 DEF LastAsked
      <4>5. CASE WorkerOpens(p)
        <5>1. worker[p] = "open" /\ UNCHANGED LastModified BY <4>5 DEF WorkerOpens
        <5>2. \/ WorkerAt(p, "lock") /\ UNCHANGED item
              \/ files[Bucket(p)] # "present" /\ item[p].type = "DELETERECORD" /\ UNCHANGED files
              \/ Drops(p)
          BY <4>5 DEF WorkerOpens
        <5>3. CASE WorkerAt(p, "lock") /\ UNCHANGED item
          <6>1. item'[p] = None BY <1>w, <2>3 DEF FqiDestroyWorkItem, WorkTypes
          <6> QED BY <3>3, <5>3, <6>1
        <5>4. CASE files[Bucket(p)] # "present" /\ item[p].type = "DELETERECORD" /\ UNCHANGED files
          BY <2>a, <4>b, <4>4, <5>4 DEF Recorded
        <5>5. CASE Drops(p) BY <3>3, <5>5 DEF Drops
        <5> QED BY <5>2, <5>3, <5>4, <5>5
      <4>6. CASE WorkerCloses(p)
        <5>1. /\ UnlockAndClose(Worker(p), Bucket(p)) /\ UNCHANGED lost
              /\ worker[p] = "close" \/ (worker[p] = "corrupt" /\ UNCHANGED item)
          BY <4>6 DEF WorkerCloses
        <5>2. worker[p] = "close"
          <6>1. item'[p] = None BY <1>w, <2>3 DEF FqiDestroyWorkItem, WorkTypes
          <6> QED BY <3>3, <5>1, <6>1
        <5>3. n \in lost \/ (Recorded(n) <=> item[p].type = "WRITERECORD") BY <3>3, <5>2 DEF Executed
        <5>4. Recorded(n)' <=> Recorded(n) BY <1>w, <4>b, <5>1, UnlockKeeps
        <5> QED BY <2>a, <4>4, <5>1, <5>3, <5>4
      <4>7. CASE WorkerDeletes(p)
        <5>1. DeleteCorrupt(Bucket(p)) /\ worker[p] = "delete" BY <4>7 DEF WorkerDeletes
        <5>2. n \in lost \/ item[p].type = "DELETERECORD" BY <3>3, <5>1 DEF Executed
        <5>3. Keeps(n) /\ ~Recorded(n)' BY <1>w, <4>b, <5>1, DeleteKeeps
        <5> QED BY <2>a, <4>4, <5>2, <5>3 DEF Keeps
      <4> QED BY <2>3, <4>5, <4>6, <4>7
    <3> QED BY <3>2, <3>3
  <2> QED BY <1>3, <2>1, <2>2, <2>3, WorkerTakes
<1>4. CASE UNCHANGED queueVars
  <2>1. UNCHANGED <<files, LastModified, lost, WorkQueue, item, asked>>
    BY <1>4 DEF queueVars, fileVars, workVars, clientVars
  <2> QED BY <1>k, <2>1, NothingChanges DEF Waits, Name
<1> QED BY <1>1, <1>2, <1>3, <1>4, QueueSteps

-----------------------------------------------------------------------------
\* A record that can be found was there before, as it is, or has been written now.
OldOrNew(n) == Recorded(n)' => LastModified'[n] = clock + 1 \/ (Recorded(n) /\ LastModified'[n] = LastModified[n])
Old(n) == Recorded(n)' => Recorded(n) /\ LastModified'[n] = LastModified[n]

\* Closing and deleting write nothing.
LEMMA NothingWritten ==
    ASSUME NEW n \in Names, UNCHANGED <<files, LastModified>>
    PROVE  Old(n)
BY DEF Old, Recorded

LEMMA UnlockOld ==
    ASSUME FileTypes, NEW th, NEW b \in Buckets, UnlockAndClose(th, b), NEW n \in Names
    PROVE  Old(n)
<1>1. CASE files[b] = "deleting" /\ handles[b] = {th}
  <2>1. /\ files' = [files EXCEPT ![b] = "none"]
        /\ LastModified' = [m \in Names |-> IF m \in NamesIn(b) THEN 0 ELSE LastModified[m]]
    BY <1>1 DEF UnlockAndClose, Gone
  <2> QED BY <1>1, <2>1, BucketOf DEF Old, Recorded, FileTypes, NamesIn
<1>2. CASE ~(files[b] = "deleting" /\ handles[b] = {th})
  BY <1>2 DEF UnlockAndClose, Old, Recorded
<1> QED BY <1>1, <1>2

LEMMA DeleteOld ==
    ASSUME FileTypes, NEW b \in Buckets, DeleteFile(b), NEW n \in Names
    PROVE  Old(n)
<1>1. CASE files[b] = "present" /\ handles[b] = {}
  <2>1. /\ files' = [files EXCEPT ![b] = "none"]
        /\ LastModified' = [m \in Names |-> IF m \in NamesIn(b) THEN 0 ELSE LastModified[m]]
    BY <1>1 DEF DeleteFile, Gone
  <2> QED BY <1>1, <2>1, BucketOf DEF Old, Recorded, FileTypes, NamesIn
<1>2. CASE ~(files[b] = "present" /\ handles[b] = {})
  <2>1. files' = [files EXCEPT ![b] = IF @ = "present" THEN "deleting" ELSE @] /\ UNCHANGED LastModified
    BY <1>2 DEF DeleteFile
  <2> QED BY <2>1, BucketOf DEF Old, Recorded, FileTypes
<1> QED BY <1>1, <1>2

\* Only a worker writes, and with a new time.
LEMMA OthersWriteNothing ==
    ASSUME QueueTypes, NEW p \in Processes, NEW n \in Names,
           \/ QueueStep(p) \/ EnumerateStep(p) \/ RegisterStep(p) \/ Notify(p)
           \/ ScanStep(Client(p)) \/ ScanStep(Notifier(p))
    PROVE  Old(n)
<1>f. FileTypes /\ ScanTypes BY DEF QueueTypes
<1>1. CASE QueueStep(p)
  BY <1>1, NothingWritten DEF QueueStep, FqInsertFile, EnterQueue, WorkerStarted, SignalWorker, fileVars
<1>2. CASE EnumerateStep(p)
  BY <1>2, NothingWritten
  DEF EnumerateStep, FqEnumerateQueue, EnumCallback, EnumCallbackReturns, EnumReturns, fileVars
<1>3. CASE RegisterStep(p)
  BY <1>3, NothingWritten DEF RegisterStep, FqRegisterQueueNotification, RegisterReturns,
     FqUnregisterQueueNotification, FqUninitialize, fileVars
<1>4. CASE Notify(p)
  BY <1>4, NothingWritten DEF Notify, NotifierStarts, NotifierScans, NotifierChecks,
     NotificationCallback, NotifierScanned, NotifierWaits, NotifierExits, fileVars
<1>5. ASSUME NEW s \in {Client(p), Notifier(p)}, ScanStep(s) PROVE Old(n)
  <2>s. s \in Scanners BY ThreadsApart
  <2>1. CASE ScanOpen(s) BY <2>1, NothingWritten DEF ScanOpen
  <2>2. CASE ScanLock(s) BY <2>2, NothingWritten DEF ScanLock
  <2>3. CASE ScanClose(s)
    <3>1. scan[s].bucket \in Buckets /\ UnlockAndClose(s, scan[s].bucket)
      BY <1>f, <2>s, <2>3 DEF ScanClose, ScanTypes
    <3> QED BY <1>f, <3>1, UnlockOld
  <2>4. CASE ScanDelete(s)
    <3>1. scan[s].bucket \in Buckets /\ DeleteFile(scan[s].bucket)
      BY <1>f, <2>s, <2>4 DEF ScanDelete, DeleteCorrupt, ScanTypes
    <3> QED BY <1>f, <3>1, DeleteOld
  <2> QED BY <1>5, <2>1, <2>2, <2>3, <2>4 DEF ScanStep
<1> QED BY <1>1, <1>2, <1>3, <1>4, <1>5

LEMMA WorkersWrite ==
    ASSUME QueueTypes, ItemsOwned, EmptyFiles, NEW p \in Processes, WorkerStep(p), NEW n \in Names
    PROVE  OldOrNew(n)
<1>f. FileTypes /\ WorkTypes BY DEF QueueTypes
<1>e. worker[p] \in Executing => item[p] # None /\ Bucket(p) \in Buckets /\ Name(p) \in Names
  BY <1>f, WorkersBucket DEF ItemsOwned
<1>h. FqiCreateFileNameHash[n] \in Buckets BY BucketOf
<1>o. Old(n) => OldOrNew(n) BY DEF Old, OldOrNew
<1>1. CASE WorkerStarts(p) \/ WorkerWaits(p) \/ WorkerTimesOut(p) \/ WorkerEnds(p) \/ WorkerNext(p)
           \/ WorkerLocks(p)
  BY <1>o, <1>1, NothingWritten DEF WorkerStarts, WorkerWaits, WorkerTimesOut, WorkerEnds, WorkerNext,
     WorkerLocks, fileVars
<1>2. CASE WorkerOpens(p)
  <2>1. worker[p] = "open" /\ UNCHANGED LastModified BY <1>2 DEF WorkerOpens
  <2>2. \/ UNCHANGED files
        \/ files[Bucket(p)] \in {"none", "present"} /\ files' = [files EXCEPT ![Bucket(p)] = "present"]
    BY <1>f, <1>e, <1>2, <2>1 DEF WorkerOpens, Executing, FileTypes
  <2>3. CASE UNCHANGED files BY <1>o, <2>1, <2>3, NothingWritten
  <2>4. CASE files[Bucket(p)] \in {"none", "present"} /\ files' = [files EXCEPT ![Bucket(p)] = "present"]
    <3>1. files[Bucket(p)] = "none" /\ FqiCreateFileNameHash[n] = Bucket(p) => LastModified[n] = 0
      BY <1>h DEF EmptyFiles, NamesIn
    <3>2. files'[FqiCreateFileNameHash[n]] = IF FqiCreateFileNameHash[n] = Bucket(p) THEN "present"
                                            ELSE files[FqiCreateFileNameHash[n]]
      BY <1>f, <1>h, <2>4 DEF FileTypes
    <3> QED BY <1>o, <2>1, <2>4, <3>1, <3>2 DEF Recorded, Old
  <2> QED BY <2>2, <2>3, <2>4
<1>3. CASE WorkerWrites(p)
  <2>1. CASE WriteRecord(p)
    <3>1. UNCHANGED files /\ LastModified' = [LastModified EXCEPT ![Name(p)] = clock + 1]
      BY <2>1 DEF WriteRecord, FqGetLastModifiedTime
    <3> QED BY <1>f, <3>1 DEF OldOrNew, Recorded, FileTypes
  <2>2. CASE DeleteRecord(p)
    <3>1. worker[p] \in Executing BY <1>3 DEF WorkerWrites, Executing
    <3>2. \/ files' = [files EXCEPT ![Bucket(p)] = "deleting"] /\ UNCHANGED LastModified
          \/ LastModified' = [LastModified EXCEPT ![Name(p)] = 0] /\ UNCHANGED files
          \/ UNCHANGED <<files, LastModified>>
      BY <2>2 DEF DeleteRecord
    <3>3. CASE files' = [files EXCEPT ![Bucket(p)] = "deleting"] /\ UNCHANGED LastModified
      <4>1. files'[FqiCreateFileNameHash[n]] = IF FqiCreateFileNameHash[n] = Bucket(p) THEN "deleting"
                                              ELSE files[FqiCreateFileNameHash[n]]
        BY <1>f, <1>h, <3>3 DEF FileTypes
      <4> QED BY <3>3, <4>1 DEF OldOrNew, Recorded
    <3>4. CASE LastModified' = [LastModified EXCEPT ![Name(p)] = 0] /\ UNCHANGED files
      BY <1>f, <3>4 DEF OldOrNew, Recorded, FileTypes
    <3>5. CASE UNCHANGED <<files, LastModified>> BY <1>o, <3>5, NothingWritten
    <3> QED BY <3>2, <3>3, <3>4, <3>5
  <2>3. CASE UNCHANGED <<files, LastModified>> BY <1>o, <2>3, NothingWritten
  <2> QED BY <1>3, <2>1, <2>2, <2>3 DEF WorkerWrites
<1>4. CASE WorkerCloses(p)
  <2>1. worker[p] \in Executing /\ UnlockAndClose(Worker(p), Bucket(p))
    BY <1>4 DEF WorkerCloses, Executing
  <2> QED BY <1>o, <1>f, <1>e, <2>1, UnlockOld
<1>5. CASE WorkerDeletes(p)
  <2>1. worker[p] \in Executing /\ DeleteFile(Bucket(p))
    BY <1>5 DEF WorkerDeletes, DeleteCorrupt, Executing
  <2> QED BY <1>o, <1>f, <1>e, <2>1, DeleteOld
<1> QED BY <1>1, <1>2, <1>3, <1>4, <1>5 DEF WorkerStep, Work

-----------------------------------------------------------------------------
\* The clock does not go back, and what is written has a later time than any scan.
Written ==
    \A n \in Names :
        \/ LastModified'[n] \in {0, LastModified[n]}
        \/ LastModified'[n] = clock + 1 /\ clock' = clock + 1 /\ Changes

\* What closing and deleting do to the times.
LEMMA UnlockWritten ==
    ASSUME NEW th, NEW b, UnlockAndClose(th, b)
    PROVE  \A n \in Names : LastModified'[n] \in {0, LastModified[n]}
BY DEF UnlockAndClose, Gone

LEMMA DeleteWritten ==
    ASSUME NEW b, DeleteFile(b)
    PROVE  \A n \in Names : LastModified'[n] \in {0, LastModified[n]}
BY DEF DeleteFile, Gone

LEMMA StepWritten ==
    ASSUME QueueTypes, ItemsOwned, NEW p \in Processes,
           \/ QueueStep(p) \/ EnumerateStep(p) \/ RegisterStep(p) \/ Notify(p) \/ WorkerStep(p)
           \/ ScanStep(Client(p)) \/ ScanStep(Notifier(p))
    PROVE  Written
<1>f. FileTypes BY DEF QueueTypes
<1>k. ASSUME UNCHANGED LastModified PROVE Written BY <1>k DEF Written
<1>1. CASE QueueStep(p)
  BY <1>k, <1>1 DEF QueueStep, FqInsertFile, EnterQueue, WorkerStarted, SignalWorker, fileVars
<1>2. CASE EnumerateStep(p)
  BY <1>k, <1>2
  DEF EnumerateStep, FqEnumerateQueue, EnumCallback, EnumCallbackReturns, EnumReturns, fileVars
<1>3. CASE RegisterStep(p)
  BY <1>k, <1>3 DEF RegisterStep, FqRegisterQueueNotification, RegisterReturns,
     FqUnregisterQueueNotification, FqUninitialize, fileVars
<1>4. CASE Notify(p)
  BY <1>k, <1>4 DEF Notify, NotifierStarts, NotifierScans, NotifierChecks,
     NotificationCallback, NotifierScanned, NotifierWaits, NotifierExits, fileVars
<1>5. ASSUME NEW s \in {Client(p), Notifier(p)}, ScanStep(s) PROVE Written
  <2>1. CASE ScanOpen(s) BY <1>k, <2>1 DEF ScanOpen
  <2>2. CASE ScanLock(s) BY <1>k, <2>2 DEF ScanLock
  <2>3. CASE ScanClose(s)
    <3>1. UnlockAndClose(s, scan[s].bucket) BY <2>3 DEF ScanClose
    <3> QED BY <3>1, UnlockWritten DEF Written
  <2>4. CASE ScanDelete(s)
    <3>1. DeleteFile(scan[s].bucket) BY <2>4 DEF ScanDelete, DeleteCorrupt
    <3> QED BY <3>1, DeleteWritten DEF Written
  <2> QED BY <1>5, <2>1, <2>2, <2>3, <2>4 DEF ScanStep
<1>6. CASE WorkerStep(p)
  <2>1. CASE WorkerStarts(p) \/ WorkerWaits(p) \/ WorkerTimesOut(p) \/ WorkerEnds(p) \/ WorkerNext(p)
             \/ WorkerLocks(p) \/ WorkerOpens(p)
    BY <1>k, <2>1 DEF WorkerStarts, WorkerWaits, WorkerTimesOut, WorkerEnds, WorkerNext,
       WorkerLocks, WorkerOpens, fileVars
  <2>2. CASE WorkerWrites(p)
    <3>1. CASE WriteRecord(p)
      <4>1. /\ clock' = clock + 1 /\ Changes
            /\ LastModified' = [LastModified EXCEPT ![Name(p)] = clock + 1]
        BY <3>1 DEF WriteRecord, FqGetLastModifiedTime
      <4> QED BY <1>f, <4>1 DEF Written, FileTypes
    <3>2. CASE DeleteRecord(p)
      <4>1. UNCHANGED LastModified \/ LastModified' = [LastModified EXCEPT ![Name(p)] = 0]
        BY <3>2 DEF DeleteRecord
      <4> QED BY <1>f, <4>1 DEF Written, FileTypes
    <3>3. CASE UNCHANGED LastModified BY <1>k, <3>3
    <3> QED BY <2>2, <3>1, <3>2, <3>3 DEF WorkerWrites
  <2>3. CASE WorkerCloses(p)
    <3>1. UnlockAndClose(Worker(p), Bucket(p)) BY <2>3 DEF WorkerCloses
    <3> QED BY <3>1, UnlockWritten DEF Written
  <2>4. CASE WorkerDeletes(p)
    <3>1. DeleteFile(Bucket(p)) BY <2>4 DEF WorkerDeletes, DeleteCorrupt
    <3> QED BY <3>1, DeleteWritten DEF Written
  <2> QED BY <1>6, <2>1, <2>2, <2>3, <2>4 DEF WorkerStep, Work
<1> QED BY <1>1, <1>2, <1>3, <1>4, <1>5, <1>6

\* The clock, the failures, and who is to look at the directory again.
ClockRuns ==
    /\ clock' \in {clock, clock + 1} /\ failures' \in {failures, failures + 1}
    /\ failures' = failures => corrupt' \subseteq corrupt

\* What closing and deleting do to the changes.
LEMMA UnlockClock ==
    ASSUME NEW th, NEW b, UnlockAndClose(th, b)
    PROVE  corrupt' \subseteq corrupt /\ changed \subseteq changed'
BY DEF UnlockAndClose, Gone, Changes

LEMMA DeleteClock ==
    ASSUME NEW b, DeleteFile(b)
    PROVE  corrupt' \subseteq corrupt /\ changed \subseteq changed'
BY DEF DeleteFile, Gone, Changes

LEMMA StepClock ==
    ASSUME QueueTypes, NEW p \in Processes,
           \/ QueueStep(p) \/ EnumerateStep(p) \/ RegisterStep(p) \/ Notify(p) \/ WorkerStep(p)
           \/ ScanStep(Client(p)) \/ ScanStep(Notifier(p))
    PROVE  ClockRuns /\ (Notify(p) \/ (watched' = watched /\ changed \subseteq changed'))
<1>f. clock \in Nat /\ failures \in Nat BY DEF QueueTypes, FileTypes
<1> USE <1>f DEF ClockRuns, Fails, FqGetLastModifiedTime
<1>1. CASE QueueStep(p)
  BY <1>1 DEF QueueStep, FqInsertFile, EnterQueue, WorkerStarted, SignalWorker, fileVars
<1>2. CASE EnumerateStep(p)
  BY <1>2 DEF EnumerateStep, FqEnumerateQueue, EnumCallback, EnumCallbackReturns, EnumReturns, fileVars
<1>3. CASE RegisterStep(p)
  BY <1>3 DEF RegisterStep, FqRegisterQueueNotification, RegisterReturns,
     FqUnregisterQueueNotification, FqUninitialize, fileVars
<1>4. CASE Notify(p)
  BY <1>4 DEF Notify, NotifierStarts, NotifierScans, NotifierChecks,
     NotificationCallback, NotifierScanned, NotifierWaits, NotifierExits, fileVars
<1>5. ASSUME NEW s \in {Client(p), Notifier(p)}, ScanStep(s)
      PROVE  ClockRuns /\ watched' = watched /\ changed \subseteq changed'
  <2>1. CASE ScanOpen(s) BY <2>1 DEF ScanOpen
  <2>2. CASE ScanLock(s) BY <2>2 DEF ScanLock
  <2>3. CASE ScanClose(s)
    <3>1. UnlockAndClose(s, scan[s].bucket) /\ UNCHANGED <<clock, watched, failures>>
      BY <2>3 DEF ScanClose
    <3> QED BY <3>1, UnlockClock
  <2>4. CASE ScanDelete(s)
    <3>1. DeleteFile(scan[s].bucket) /\ UNCHANGED <<clock, watched, failures>>
      BY <2>4 DEF ScanDelete, DeleteCorrupt
    <3> QED BY <3>1, DeleteClock
  <2> QED BY <1>5, <2>1, <2>2, <2>3, <2>4 DEF ScanStep
<1>6. CASE WorkerStep(p)
  <2>1. CASE WorkerStarts(p) \/ WorkerWaits(p) \/ WorkerTimesOut(p) \/ WorkerEnds(p) \/ WorkerNext(p)
             \/ WorkerLocks(p)
    BY <2>1 DEF WorkerStarts, WorkerWaits, WorkerTimesOut, WorkerEnds, WorkerNext, WorkerLocks, fileVars
  <2>2. CASE WorkerOpens(p) BY <2>2 DEF WorkerOpens, Changes
  <2>3. CASE WorkerWrites(p) BY <2>3 DEF WorkerWrites, WriteRecord, DeleteRecord, Changes
  <2>4. CASE WorkerCloses(p)
    <3>1. UnlockAndClose(Worker(p), Bucket(p)) /\ UNCHANGED <<clock, watched, failures>>
      BY <2>4 DEF WorkerCloses
    <3> QED BY <3>1, UnlockClock
  <2>5. CASE WorkerDeletes(p)
    <3>1. DeleteFile(Bucket(p)) /\ UNCHANGED <<clock, watched, failures>>
      BY <2>5 DEF WorkerDeletes, DeleteCorrupt
    <3> QED BY <3>1, DeleteClock
  <2> QED BY <1>6, <2>1, <2>2, <2>3, <2>4, <2>5 DEF WorkerStep, Work
<1> QED BY <1>1, <1>2, <1>3, <1>4, <1>5, <1>6

-----------------------------------------------------------------------------
\* What a process knows of the records is its own.
LEMMA NewsKept ==
    ASSUME QueueTypes, NEW p \in Processes,
           \/ QueueStep(p) \/ EnumerateStep(p) \/ RegisterStep(p) \/ Notify(p) \/ WorkerStep(p)
           \/ ScanStep(Client(p)) \/ ScanStep(Notifier(p)),
           NEW q \in Processes, q # p \/ ~(RegisterStep(p) \/ Notify(p))
    PROVE  StartTime'[q] = StartTime[q] /\ told'[q] = told[q] /\ notifier'[q] = notifier[q]
<1>w. NotifyTypes BY DEF QueueTypes
<1> USE <1>w DEF NotifyTypes
<1>1. CASE QueueStep(p) BY <1>1 DEF QueueStep, notifyVars
<1>2. CASE EnumerateStep(p)
  BY <1>2 DEF EnumerateStep, FqEnumerateQueue, EnumCallback, EnumCallbackReturns, EnumReturns, notifyVars
<1>3. CASE RegisterStep(p) /\ q # p
  <2>1. CASE FqRegisterQueueNotification(p)
    <3>1. \/ UNCHANGED <<StartTime, told, notifier>>
          \/ /\ \E t : StartTime' = [StartTime EXCEPT ![p] = t]
             /\ \E t : told' = [told EXCEPT ![p] = t]
             /\ notifier' = [notifier EXCEPT ![p] = "starting"]
      BY <2>1 DEF FqRegisterQueueNotification, NotifierAt
    <3> QED BY <1>3, <3>1
  <2>2. CASE ~FqRegisterQueueNotification(p)
    BY <1>3, <2>2 DEF RegisterStep, RegisterReturns, FqUnregisterQueueNotification, FqUninitialize, notifyVars
  <2> QED BY <2>1, <2>2
<1>4. CASE Notify(p) /\ q # p
  <2>1. \/ UNCHANGED StartTime
        \/ \E t : StartTime' = [StartTime EXCEPT ![p] = t]
    BY <1>4 DEF Notify, NotifierStarts, NotifierScans, NotifierChecks,
       NotificationCallback, NotifierScanned, NotifierWaits, NotifierExits
  <2>2. \/ UNCHANGED told
        \/ \E n : told' = [told EXCEPT ![p][n] = LastModified[n]]
    BY <1>4 DEF Notify, NotifierStarts, NotifierScans, NotifierChecks,
       NotificationCallback, NotifierScanned, NotifierWaits, NotifierExits
  <2>3. UNCHANGED notifier \/ \E l : NotifierAt(p, l)
    BY <1>4 DEF Notify, NotifierStarts, NotifierScans, NotifierChecks,
       NotificationCallback, NotifierScanned, NotifierWaits, NotifierExits
  <2>4. told'[q] = told[q]
    <3>1. CASE UNCHANGED told BY <3>1
    <3>2. ASSUME NEW n, told' = [told EXCEPT ![p][n] = LastModified[n]] PROVE told'[q] = told[q]
      BY <1>4, <3>2
    <3> QED BY <2>2, <3>1, <3>2
  <2> QED BY <1>4, <2>1, <2>3, <2>4 DEF NotifierAt
<1>5. CASE WorkerStep(p) BY <1>5 DEF WorkerStep, notifyVars
<1>6. CASE ScanStep(Client(p)) \/ ScanStep(Notifier(p)) BY <1>6 DEF ScanStep, notifyVars
<1> QED BY <1>1, <1>2, <1>3, <1>4, <1>5, <1>6

\* The part of Times about one process.
WatchedBy(p) ==
    /\ notifier[p] \in {"scan", "scanning", "wait"} => p \in watched
    /\ notifier[p] \in {"scanning", "wait"} =>
          \A n \in Names : LastModified[n] > StartTime[p] => p \in changed

\* A thread takes its time before it scans, and a record written later changes the
\* directory.
LEMMA TimesStep == QueueTypes /\ ItemsOwned /\ Times /\ [QueueNext]_queueVars => Times'
<1> SUFFICES ASSUME QueueTypes, ItemsOwned, Times, [QueueNext]_queueVars PROVE Times' OBVIOUS
<1>t. /\ clock \in Nat /\ failures \in Nat /\ LastModified \in [Names -> Nat]
      /\ StartTime \in [Processes -> Nat]
  BY DEF QueueTypes, FileTypes, NotifyTypes
<1>w. \A q \in Processes : WatchedBy(q) BY DEF Times, WatchedBy
<1>m. /\ \A n \in Names : LastModified[n] <= clock
      /\ \A q \in Processes : StartTime[q] <= clock
      /\ failures = 0 => corrupt = {}
  BY DEF Times
<1>1. ASSUME NEW p \in Processes,
             \/ QueueStep(p) \/ EnumerateStep(p) \/ RegisterStep(p) \/ Notify(p) \/ WorkerStep(p)
             \/ ScanStep(Client(p)) \/ ScanStep(Notifier(p))
      PROVE  Times'
  <2>1. Written BY <1>1, StepWritten
  <2>2. ClockRuns /\ (Notify(p) \/ (watched' = watched /\ changed \subseteq changed')) BY <1>1, StepClock
  <2>3. \A n \in Names : LastModified'[n] <= clock'
    BY <1>t, <1>m, <2>1, <2>2 DEF Written, ClockRuns
  <2>4. failures' = 0 => corrupt' = {}
    BY <1>t, <1>m, <2>2 DEF ClockRuns
  <2>5. \A q \in Processes : StartTime'[q] <= clock'
    <3>1. \A q \in Processes : StartTime'[q] \in {StartTime[q], clock', 0}
      <4>1. CASE RegisterStep(p)
        <5>1. CASE FqRegisterQueueNotification(p)
          BY <1>t, <5>1 DEF FqRegisterQueueNotification
        <5>2. CASE ~FqRegisterQueueNotification(p)
          BY <4>1, <5>2 DEF RegisterStep, RegisterReturns, FqUnregisterQueueNotification, FqUninitialize,
             notifyVars
        <5> QED BY <5>1, <5>2
      <4>2. CASE Notify(p)
        BY <1>t, <4>2 DEF Notify, NotifierStarts, NotifierScans, NotifierChecks,
           NotificationCallback, NotifierScanned, NotifierWaits, NotifierExits
      <4>3. CASE ~(RegisterStep(p) \/ Notify(p)) BY <1>1, <4>3, NewsKept
      <4> QED BY <4>1, <4>2, <4>3
    <3>2. clock' \in Nat /\ clock <= clock' BY <1>t, <2>2 DEF ClockRuns
    <3> QED BY <1>t, <1>m, <3>1, <3>2
  <2>6. ASSUME NEW q \in Processes PROVE WatchedBy(q)'
    <3>1. CASE q # p \/ ~(RegisterStep(p) \/ Notify(p))
      <4>1. StartTime'[q] = StartTime[q] /\ notifier'[q] = notifier[q] BY <1>1, <3>1, NewsKept
      <4>2. CASE Notify(p)
        <5>1. UNCHANGED LastModified /\ \A r \in Processes \ {p} :
                 (r \in watched => r \in watched') /\ (r \in changed => r \in changed')
          BY <4>2 DEF Notify, NotifierStarts, NotifierScans, NotifierChecks,
             NotificationCallback, NotifierScanned, NotifierWaits, NotifierExits, fileVars
        <5> QED BY <1>w, <3>1, <4>1, <4>2, <5>1 DEF WatchedBy
      <4>3. CASE watched' = watched /\ changed \subseteq changed'
        BY <1>t, <1>w, <2>1, <4>1, <4>3 DEF WatchedBy, Written, Changes
      <4> QED BY <2>2, <4>2, <4>3
    <3>2. CASE q = p /\ RegisterStep(p)
      <4>1. UNCHANGED <<LastModified, watched, changed>>
        BY <3>2 DEF RegisterStep, FqRegisterQueueNotification, RegisterReturns,
           FqUnregisterQueueNotification, FqUninitialize, fileVars
      <4>2. notifier'[p] = "starting" \/ UNCHANGED <<notifier, StartTime>>
        <5>1. notifier \in [Processes -> {"none", "starting", "scan", "scanning", "wait", "exit"}]
          BY DEF QueueTypes, NotifyTypes
        <5> QED BY <3>2, <5>1 DEF RegisterStep, FqRegisterQueueNotification, RegisterReturns,
           FqUnregisterQueueNotification, FqUninitialize, NotifierAt, notifyVars
      <4> QED BY <1>w, <3>2, <4>1, <4>2 DEF WatchedBy
    <3>3. CASE q = p /\ Notify(p)
      <4>1. UNCHANGED LastModified
        BY <3>3 DEF Notify, NotifierStarts, NotifierScans, NotifierChecks,
           NotificationCallback, NotifierScanned, NotifierWaits, NotifierExits, fileVars
      <4>n. notifier \in [Processes -> {"none", "starting", "scan", "scanning", "wait", "exit"}]
        BY DEF QueueTypes, NotifyTypes
      <4>2. CASE NotifierStarts(p)
        BY <3>3, <4>n, <4>2 DEF NotifierStarts, NotifierAt, WatchedBy
      <4>3. CASE NotifierScans(p)
        <5>1. /\ notifier'[p] = "scanning" /\ p \in watched'
              /\ StartTime'[p] = clock + 1
          BY <1>t, <1>w, <4>n, <4>3 DEF NotifierScans, NotifierAt, WatchedBy, FqGetLastModifiedTime
        <5>2. \A n \in Names : ~(LastModified'[n] > StartTime'[p]) BY <1>t, <1>m, <4>1, <5>1
        <5> QED BY <3>3, <5>1, <5>2 DEF WatchedBy
      <4>4. CASE NotifierChecks(p) \/ NotificationCallback(p)
        BY <1>w, <3>3, <4>4 DEF NotifierChecks, NotificationCallback, WatchedBy, fileVars
      <4>5. CASE NotifierScanned(p)
        BY <1>w, <3>3, <4>n, <4>5 DEF NotifierScanned, NotifierAt, WatchedBy, fileVars
      <4>6. CASE NotifierWaits(p)
        BY <1>w, <3>3, <4>n, <4>6 DEF NotifierWaits, NotifierAt, WatchedBy
      <4>7. CASE NotifierExits(p)
        BY <3>3, <4>n, <4>7 DEF NotifierExits, NotifierAt, WatchedBy
      <4> QED BY <3>3, <4>2, <4>3, <4>4, <4>5, <4>6, <4>7 DEF Notify
    <3> QED BY <3>1, <3>2, <3>3
  <2> QED BY <2>3, <2>4, <2>5, <2>6 DEF Times, WatchedBy
<1>2. CASE UNCHANGED queueVars
  BY <1>2 DEF queueVars, fileVars, notifyVars, Times
<1> QED BY <1>1, <1>2, QueueSteps

-----------------------------------------------------------------------------
\* The news of n for p, and what leaves them as they are.
NewsOf(p, n) ==
    handle[p] # "released" /\ Recorded(n) =>
    /\ notifier[p] \in {"starting", "scan"} => Told(p, n) \/ LastModified[n] >= StartTime[p]
    /\ notifier[p] = "scanning" => Told(p, n) \/ LastModified[n] > StartTime[p] \/ ToCome(p, n)
    /\ notifier[p] = "wait" => Told(p, n) \/ LastModified[n] > StartTime[p]

\* A step that is not the client's or the thread's own leaves its news, or makes a
\* record newer than the scan.
LEMMA NewsStay ==
    ASSUME QueueTypes, Times, NEW p \in Processes, NEW n \in Names, NewsOf(p, n), OldOrNew(n),
           StartTime'[p] = StartTime[p], told'[p] = told[p], notifier'[p] = notifier[p],
           scan'[Notifier(p)] = scan[Notifier(p)], handle'[p] # "released" => handle[p] # "released"
    PROVE  NewsOf(p, n)'
<1> SUFFICES ASSUME handle'[p] # "released", Recorded(n)' PROVE NewsOf(p, n)' BY DEF NewsOf
<1>t. /\ clock \in Nat /\ StartTime[p] \in Nat /\ StartTime[p] <= clock
      /\ LastModified[n] \in Nat
  BY DEF QueueTypes, FileTypes, NotifyTypes, Times
<1>1. CASE LastModified'[n] = clock + 1
  <2>1. LastModified'[n] > StartTime'[p] BY <1>t, <1>1
  <2>2. LastModified'[n] >= StartTime'[p] BY <1>t, <1>1
  <2> QED BY <2>1, <2>2 DEF NewsOf
<1>2. CASE Recorded(n) /\ LastModified'[n] = LastModified[n]
  <2>1. Told(p, n)' <=> Told(p, n) BY <1>2 DEF Told
  <2>2. ToCome(p, n)' <=> ToCome(p, n) BY <1>2 DEF ToCome
  <2> QED BY <1>2, <2>1, <2>2 DEF NewsOf
<1> QED BY <1>1, <1>2 DEF OldOrNew

\* A scan of the notifier's does not pass over a record, unless a call fails.
LEMMA ScanMisses ==
    ASSUME QueueTypes, Times, Registered, ContextsCounted, NEW p \in Processes, ScanStep(Notifier(p)),
           failures' = 0, failures = 0, NEW n \in Names, NewsOf(p, n)
    PROVE  NewsOf(p, n)'
<1> DEFINE s == Notifier(p)
<1>s. s \in Scanners BY ThreadsApart
<1>t. /\ scan \in [Scanners -> Scans] /\ clock \in Nat /\ LastModified \in [Names -> Nat]
      /\ scan[s] \in Scans /\ FqiCreateFileNameHash[n] \in Buckets
  BY <1>s, BucketOf DEF QueueTypes, ScanTypes, FileTypes
<1>k. UNCHANGED <<handle, notifier, StartTime, told>> BY DEF ScanStep, notifyVars
<1>c. corrupt = {} BY DEF Times
<1>o. Old(n) BY OthersWriteNothing
<1> SUFFICES ASSUME handle[p] # "released", Recorded(n)' PROVE NewsOf(p, n)' BY <1>k DEF NewsOf
<1>r. /\ Recorded(n) /\ LastModified'[n] = LastModified[n] BY <1>o DEF Old
<1>p. files[FqiCreateFileNameHash[n]] = "present" /\ LastModified[n] > 0 BY <1>r DEF Recorded
<1> SUFFICES ASSUME ToCome(p, n), notifier[p] = "scanning" PROVE ToCome(p, n)'
  <2>1. Told(p, n)' <=> Told(p, n) BY <1>k, <1>r DEF Told
  <2> QED BY <1>k, <1>r, <2>1 DEF NewsOf
<1>1. CASE ScanOpen(s)
  <2>1. PICK b \in Buckets :
              /\ scan[s].at = "files" /\ b \in scan[s].files
              /\ \/ /\ files[b] = "present" /\ OpenFile(s, b) /\ UNCHANGED failures
                    /\ ScanIs(s, "lock", scan[s].files \ {b}, scan[s].names, b, scan[s].since, scan[s].name)
                 \/ /\ (files[b] # "present" /\ UNCHANGED failures) \/ Fails
                    /\ UNCHANGED handles
                    /\ ScanIs(s, "files", scan[s].files \ {b}, scan[s].names, scan[s].bucket,
                              scan[s].since, scan[s].name)
    BY <1>s, <1>t, <1>1, ScanOpenDoes
  <2>2. LastModified[n] >= scan[s].since /\ FqiCreateFileNameHash[n] \in scan[s].files
    BY <2>1 DEF ToCome
  <2>3. CASE ScanIs(s, "lock", scan[s].files \ {b}, scan[s].names, b, scan[s].since, scan[s].name)
    <3>1. /\ scan'[s].at = "lock" /\ scan'[s].files = scan[s].files \ {b} /\ scan'[s].bucket = b
          /\ scan'[s].since = scan[s].since
      BY <2>3 DEF ScanIs
    <3> QED BY <1>r, <2>2, <3>1 DEF ToCome
  <2>4. CASE /\ (files[b] # "present" /\ UNCHANGED failures) \/ Fails
             /\ ScanIs(s, "files", scan[s].files \ {b}, scan[s].names, scan[s].bucket,
                       scan[s].since, scan[s].name)
    <3>1. scan'[s].files = scan[s].files \ {b} /\ scan'[s].since = scan[s].since BY <2>4 DEF ScanIs
    <3>2. b # FqiCreateFileNameHash[n] BY <1>p, <2>4 DEF Fails
    <3> QED BY <1>r, <2>2, <3>1, <3>2 DEF ToCome
  <2> QED BY <2>1, <2>3, <2>4
<1>2. CASE ScanLock(s)
  <2>1. PICK names \in SUBSET Names :
              /\ scan[s].at = "lock"
              /\ Readable(scan[s].bucket) =>
                    \A m \in Names :
                       /\ LastModified[m] > 0 /\ LastModified[m] >= scan[s].since
                       /\ FqiCreateFileNameHash[m] = scan[s].bucket
                       => m \in names
              /\ ScanIs(s, "read", scan[s].files, names, scan[s].bucket, scan[s].since, scan[s].name)
    BY <1>s, <1>t, <1>2, ScanLockDoes
  <2>2. /\ scan'[s].at = "read" /\ scan'[s].files = scan[s].files /\ scan'[s].names = names
        /\ scan'[s].since = scan[s].since
    BY <2>1 DEF ScanIs
  <2>3. FqiCreateFileNameHash[n] = scan[s].bucket /\ LastModified[n] >= scan[s].since => n \in names
    BY <1>c, <1>p, <2>1 DEF Readable
  <2> QED BY <1>r, <2>1, <2>2, <2>3 DEF ToCome
<1>3. CASE ScanClose(s)
  <2>1. /\ scan[s].at \in {"read", "cancelled"} /\ scan[s].names = {}
        /\ IF scan[s].at = "read" /\ ~Readable(scan[s].bucket)
           THEN ScanIs(s, "delete", scan[s].files, scan[s].names, scan[s].bucket,
                       scan[s].since, scan[s].name)
           ELSE ScanIs(s, "files", scan[s].files, scan[s].names, None, scan[s].since, scan[s].name)
    BY <1>s, <1>t, <1>3, ScanCloseDoes
  <2>2. scan'[s].files = scan[s].files /\ scan'[s].since = scan[s].since BY <2>1 DEF ScanIs
  <2> QED BY <1>r, <2>1, <2>2 DEF ToCome
<1>4. CASE ScanDelete(s)
  <2>1. /\ scan[s].at = "delete"
        /\ ScanIs(s, "files", scan[s].files, scan[s].names, None, scan[s].since, scan[s].name)
    BY <1>s, <1>t, <1>4, ScanDeleteDoes
  <2>2. scan'[s].files = scan[s].files /\ scan'[s].since = scan[s].since BY <2>1 DEF ScanIs
  <2> QED BY <1>r, <2>1, <2>2 DEF ToCome
<1> QED BY <1>1, <1>2, <1>3, <1>4 DEF ScanStep

\* The notifier scans from the time of the scan before, tells of every record it
\* has read, and ends the scan when there is nothing to come.
LEMMA NotifierNews ==
    ASSUME QueueTypes, Times, Registered, ContextsCounted, NEW p \in Processes, Notify(p),
           failures' = 0, failures = 0, NEW n \in Names, NewsOf(p, n)
    PROVE  NewsOf(p, n)'
<1> DEFINE s == Notifier(p)
<1>s. s \in Scanners BY ThreadsApart
<1>t. /\ scan \in [Scanners -> Scans] /\ clock \in Nat /\ LastModified \in [Names -> Nat]
      /\ scan[s] \in Scans /\ FqiCreateFileNameHash[n] \in Buckets
  BY <1>s, BucketOf DEF QueueTypes, ScanTypes, FileTypes
<1>w. /\ notifier \in [Processes -> {"none", "starting", "scan", "scanning", "wait", "exit"}]
      /\ StartTime \in [Processes -> Nat] /\ told \in [Processes -> [Names -> Nat]]
  BY DEF QueueTypes, NotifyTypes
<1>k. UNCHANGED <<handle, files, LastModified>>
  BY DEF Notify, NotifierStarts, NotifierScans, NotifierChecks, NotificationCallback,
     NotifierScanned, NotifierWaits, NotifierExits, notifierOther, fileVars
<1>r. Recorded(n)' <=> Recorded(n) BY <1>k DEF Recorded
<1> SUFFICES ASSUME handle[p] # "released", Recorded(n) PROVE NewsOf(p, n)' BY <1>k, <1>r DEF NewsOf
<1>p. files[FqiCreateFileNameHash[n]] = "present" /\ LastModified[n] > 0 BY DEF Recorded
<1>1. CASE NotifierStarts(p)
  <2>1. notifier[p] = "starting" /\ notifier'[p] = "scan" /\ UNCHANGED <<StartTime, told>>
    BY <1>w, <1>1 DEF NotifierStarts, NotifierAt
  <2>2. Told(p, n)' <=> Told(p, n) BY <1>k, <2>1 DEF Told
  <2> QED BY <1>k, <2>1, <2>2 DEF NewsOf
<1>2. CASE NotifierScans(p)
  <2>1. notifier[p] = "scan" /\ notifier'[p] = "scanning" /\ UNCHANGED told
    BY <1>w, <1>2 DEF NotifierScans, NotifierAt
  <2>2. Told(p, n)' <=> Told(p, n) BY <1>k, <2>1 DEF Told
  <2>3. PICK since \in Nat :
           /\ since <= StartTime[p]
           /\ ScanIs(s, "files", {b \in Buckets : files[b] # "none"}, scan[s].names,
                     scan[s].bucket, since, scan[s].name)
    <3>1. Slack \in Nat BY QueueAssumption
    <3>2. ~Fails BY DEF Fails
    <3> HIDE DEF s
    <3>3. s = Notifier(p) BY DEF s
    <3> QED BY <1>t, <1>w, <1>2, <3>1, <3>2, <3>3, NotifierScansDoes
  <2>4. scan'[s].files = {b \in Buckets : files[b] # "none"} /\ scan'[s].since = since BY <2>3 DEF ScanIs
  <2>5. LastModified[n] >= StartTime[p] => ToCome(p, n)'
    <3>1. LastModified[n] >= StartTime[p] => LastModified[n] >= since BY <1>t, <1>w, <2>3
    <3> QED BY <1>k, <1>t, <1>p, <2>4, <3>1 DEF ToCome
  <2> QED BY <2>1, <2>2, <2>5 DEF NewsOf
<1>3. CASE NotifierChecks(p)
  <2>1. UNCHANGED <<notifier, StartTime, told>> BY <1>3 DEF NotifierChecks
  <2>2. Told(p, n)' <=> Told(p, n) BY <1>k, <2>1 DEF Told
  <2>3. scan[s].at = "read" BY <1>3, <1>t, NotifierChecksDoes
  <2>4. notifier[p] = "scanning" BY <2>3 DEF Registered
  <2>5. NotifyRefs[p] # 1
    <3>1. NotifyRefs[p] = Count(handle[p] \in {"held", "leaked"}) + 2 * Count(client[p] = "registering")
                          + Count(notifier[p] \notin {"none", "starting"})
      BY DEF ContextsCounted
    <3>2. Count(notifier[p] \notin {"none", "starting"}) = 1 BY <2>4 DEF Count
    <3>3. Count(handle[p] \in {"held", "leaked"}) \in {0, 1} /\ Count(client[p] = "registering") \in {0, 1}
      BY DEF Count
    <3>4. handle[p] = "held" \/ client[p] = "registering"
      BY <2>4 DEF Registered, QueueTypes, NotifyTypes
    <3>5. Count(handle[p] \in {"held", "leaked"}) = 1 \/ Count(client[p] = "registering") = 1
      BY <3>4 DEF Count
    <3> QED BY <3>1, <3>2, <3>3, <3>5
  <2>6. PICK m \in Names :
           /\ m \in scan[s].names
           /\ ScanIs(s, "callback", scan[s].files, scan[s].names \ {m}, scan[s].bucket,
                     scan[s].since, m)
    BY <1>t, <1>3, <2>5, NotifierChecksDoes
  <2>7. /\ scan'[s].at = "callback" /\ scan'[s].files = scan[s].files /\ scan'[s].names = scan[s].names \ {m}
        /\ scan'[s].since = scan[s].since /\ scan'[s].name = m
    BY <2>6 DEF ScanIs
  <2>8. ToCome(p, n) => ToCome(p, n)' BY <1>k, <2>3, <2>7 DEF ToCome
  <2> QED BY <1>k, <2>1, <2>2, <2>8 DEF NewsOf
<1>4. CASE NotificationCallback(p)
  <2>1. /\ UNCHANGED <<notifier, StartTime>> /\ scan[s].at = "callback"
        /\ CallbackReturns(s, TRUE) /\ told' = [told EXCEPT ![p][scan[s].name] = LastModified[scan[s].name]]
    BY <1>4 DEF NotificationCallback
  <2>2. ScanIs(s, "read", scan[s].files, scan[s].names, scan[s].bucket, scan[s].since, None)
    BY <1>s, <1>t, <2>1, CallbackReturnsDoes
  <2>3. /\ scan'[s].at = "read" /\ scan'[s].files = scan[s].files /\ scan'[s].names = scan[s].names
        /\ scan'[s].since = scan[s].since
    BY <2>2 DEF ScanIs
  <2>4. CASE n = scan[s].name
    <3>1. told'[p][n] = LastModified[n] BY <1>w, <2>1, <2>4
    <3>2. Told(p, n)' BY <1>k, <1>t, <3>1 DEF Told
    <3> QED BY <3>2 DEF NewsOf
  <2>5. CASE n # scan[s].name
    <3>1. told'[p][n] = told[p][n] BY <1>w, <2>1, <2>5
    <3>2. Told(p, n)' <=> Told(p, n) BY <1>k, <3>1 DEF Told
    <3>3. ToCome(p, n) => ToCome(p, n)' BY <1>k, <2>1, <2>3, <2>5 DEF ToCome
    <3> QED BY <1>k, <2>1, <3>2, <3>3 DEF NewsOf
  <2> QED BY <2>4, <2>5
<1>5. CASE NotifierScanned(p)
  <2>1. /\ notifier[p] = "scanning" /\ notifier'[p] = "wait" /\ UNCHANGED <<StartTime, told>>
        /\ scan[s].at = "files" /\ scan[s].files = {}
    BY <1>w, <1>5 DEF NotifierScanned, NotifierAt, ScanEnds
  <2>2. Told(p, n)' <=> Told(p, n) BY <1>k, <2>1 DEF Told
  <2>3. ~ToCome(p, n) BY <2>1 DEF ToCome
  <2> QED BY <1>k, <2>1, <2>2, <2>3 DEF NewsOf
<1>6. CASE NotifierWaits(p)
  <2>1. notifier[p] = "wait" /\ notifier'[p] \in {"exit", "scan"} /\ UNCHANGED <<StartTime, told>>
    BY <1>w, <1>6 DEF NotifierWaits, NotifierAt
  <2>2. Told(p, n)' <=> Told(p, n) BY <1>k, <2>1 DEF Told
  <2>3. LastModified[n] > StartTime[p] => LastModified'[n] >= StartTime'[p] BY <1>k, <1>t, <1>w, <2>1
  <2> QED BY <1>k, <2>1, <2>2, <2>3 DEF NewsOf
<1>7. CASE NotifierExits(p)
  <2>1. notifier'[p] = "none" BY <1>w, <1>7 DEF NotifierExits, NotifierAt
  <2> QED BY <2>1 DEF NewsOf
<1> QED BY <1>1, <1>2, <1>3, <1>4, <1>5, <1>6, <1>7 DEF Notify

\* A client that registers with a time knows what there is, one without a time
\* has everything to come.
LEMMA RegisterNews ==
    ASSUME QueueTypes, Times, Registered, NEW p \in Processes, RegisterStep(p), NEW n \in Names,
           NewsOf(p, n), OldOrNew(n)
    PROVE  NewsOf(p, n)'
<1>w. /\ notifier \in [Processes -> {"none", "starting", "scan", "scanning", "wait", "exit"}]
      /\ StartTime \in [Processes -> Nat] /\ told \in [Processes -> [Names -> Nat]]
      /\ handle \in [Processes -> {"none", "held", "leaked", "released"}]
      /\ clock \in Nat /\ LastModified \in [Names -> Nat] /\ LastModified[n] <= clock
  BY DEF QueueTypes, NotifyTypes, FileTypes, Times
<1>s. UNCHANGED scan BY OthersKeepScans
<1>1. CASE FqRegisterQueueNotification(p) /\ UNCHANGED StartTime /\ UNCHANGED <<told, notifier>>
  <2>1. handle[p] = "none" BY <1>1 DEF FqRegisterQueueNotification
  <2> QED BY <1>s, <1>1, <2>1, NewsStay
<1>2. CASE FqRegisterQueueNotification(p) /\ NotifierAt(p, "starting")
  <2>1. /\ notifier'[p] = "starting" /\ UNCHANGED LastModified
        /\ \/ UNCHANGED <<StartTime, told, notifier>>
           \/ clock' = clock + 1 /\ StartTime'[p] = clock' /\ told'[p][n] = StartTime'[p]
           \/ StartTime'[p] = 0
    BY <1>w, <1>2 DEF FqRegisterQueueNotification, NotifierAt, FqGetLastModifiedTime
  <2>2. CASE UNCHANGED <<StartTime, told, notifier>>
    <3>1. handle[p] = "none" BY <1>2 DEF FqRegisterQueueNotification
    <3> QED BY <1>s, <2>2, <3>1, NewsStay
  <2>3. CASE clock' = clock + 1 /\ StartTime'[p] = clock' /\ told'[p][n] = StartTime'[p]
    <3>1. Told(p, n)' BY <1>w, <2>1, <2>3 DEF Told
    <3> QED BY <2>1, <3>1 DEF NewsOf
  <2>4. CASE StartTime'[p] = 0
    <3>1. LastModified'[n] >= StartTime'[p] BY <1>w, <2>1, <2>4
    <3> QED BY <2>1, <3>1 DEF NewsOf
  <2> QED BY <2>1, <2>2, <2>3, <2>4
<1>3. CASE RegisterReturns(p)
  <2>1. handle[p] = "none" BY <1>3 DEF RegisterReturns, Registered
  <2> QED BY <1>s, <1>3, <2>1, NewsStay DEF RegisterReturns
<1>4. CASE FqUnregisterQueueNotification(p)
  <2>1. handle'[p] = "released" BY <1>w, <1>4 DEF FqUnregisterQueueNotification
  <2> QED BY <2>1 DEF NewsOf
<1>5. CASE FqUninitialize(p)
  BY <1>s, <1>5, NewsStay DEF FqUninitialize, notifyVars
<1>6. CASE FqRegisterQueueNotification(p) BY <1>1, <1>2, <1>6 DEF FqRegisterQueueNotification
<1> QED BY <1>3, <1>4, <1>5, <1>6 DEF RegisterStep

\* Without failures nothing is missed.
LEMMA NewsStep ==
    /\ QueueTypes /\ ItemsOwned /\ EmptyFiles /\ Registered /\ ContextsCounted /\ Times /\ News
    /\ [QueueNext]_queueVars
    => News'
<1> SUFFICES ASSUME QueueTypes, ItemsOwned, EmptyFiles, Registered, ContextsCounted, Times, News,
                    [QueueNext]_queueVars
             PROVE  News'
  OBVIOUS
<1>1. ASSUME NEW p \in Processes,
             \/ QueueStep(p) \/ EnumerateStep(p) \/ RegisterStep(p) \/ Notify(p) \/ WorkerStep(p)
             \/ ScanStep(Client(p)) \/ ScanStep(Notifier(p))
      PROVE  News'
  <2>c. ClockRuns BY <1>1, StepClock
  <2>0. failures' = 0 => failures = 0 BY <2>c DEF ClockRuns, QueueTypes, FileTypes
  <2> SUFFICES ASSUME failures' = 0 PROVE \A q \in Processes, n \in Names : NewsOf(q, n)'
    BY DEF News, NewsOf
  <2> TAKE q \in Processes, n \in Names
  <2>1. NewsOf(q, n) BY <2>0 DEF News, NewsOf
  <2>2. OldOrNew(n)
    <3>1. CASE WorkerStep(p) BY <3>1, WorkersWrite
    <3>2. CASE ~WorkerStep(p) BY <1>1, <3>2, OthersWriteNothing DEF Old, OldOrNew
    <3> QED BY <3>1, <3>2
  <2>3. CASE q = p /\ RegisterStep(p) BY <2>1, <2>2, <2>3, RegisterNews
  <2>4. CASE q = p /\ Notify(p) BY <2>0, <2>1, <2>4, NotifierNews
  <2>5. CASE q = p /\ ScanStep(Notifier(p)) BY <2>0, <2>1, <2>5, ScanMisses
  <2>6. CASE q # p \/ ~(RegisterStep(p) \/ Notify(p) \/ ScanStep(Notifier(p)))
    <3>1. StartTime'[q] = StartTime[q] /\ told'[q] = told[q] /\ notifier'[q] = notifier[q]
      BY <1>1, <2>6, NewsKept
    <3>2. scan'[Notifier(q)] = scan[Notifier(q)] /\ handle'[q] = handle[q]
      <4>1. CASE q # p BY <1>1, <4>1, ElsewhereKept DEF Elsewhere
      <4>2. CASE q = p
        <5>1. UNCHANGED handle
          BY <1>1, <2>6, <4>2 DEF QueueStep, EnumerateStep, FqEnumerateQueue, EnumCallback,
             EnumCallbackReturns, EnumReturns, WorkerStep, ScanStep, notifyVars
        <5>2. CASE QueueStep(p) \/ WorkerStep(p) BY <4>2, <5>1, <5>2, OthersKeepScans
        <5>3. CASE EnumerateStep(p) \/ ScanStep(Client(p))
          BY <4>2, <5>1, <5>3, EnumerationGoesOn, ScanGoesOn, ThreadsApart DEF QueueTypes
        <5> QED BY <1>1, <2>6, <4>2, <5>2, <5>3
      <4> QED BY <4>1, <4>2
    <3> QED BY <2>1, <2>2, <3>1, <3>2, NewsStay
  <2> QED BY <2>3, <2>4, <2>5, <2>6
<1>2. CASE UNCHANGED queueVars
  BY <1>2 DEF queueVars, fileVars, notifyVars, News, Told, ToCome, Recorded
<1> QED BY <1>1, <1>2, QueueSteps

\* A thread that waits and is not to look again has told of everything.
LEMMA NewsTold == Times /\ News /\ NotifyTypes /\ FileTypes => AllTold
<1> SUFFICES ASSUME Times, News, NotifyTypes, FileTypes,
                    NEW p \in Watchers, NEW n \in Names, notifier[p] = "wait", p \notin changed,
                    handle[p] = "held", failures = 0, Recorded(n)
             PROVE  told[p][n] >= LastModified[n]
  BY DEF AllTold
<1>p. p \in Processes BY QueueAssumption
<1>1. ~(LastModified[n] > StartTime[p]) BY <1>p DEF Times
<1>2. Told(p, n) \/ LastModified[n] > StartTime[p] BY <1>p DEF News
<1> QED BY <1>1, <1>2 DEF Told

-----------------------------------------------------------------------------
(* The theorems.                                                           *)

\* The inductive invariant.
QueueInv ==
    /\ QueueTypes /\ ItemsOwned /\ Registered /\ ContextsCounted /\ LateCallbacks
    /\ EmptyFiles /\ WorkerHolds /\ Executed /\ LastAsked /\ FilesAsAsked /\ Times /\ News

\* It holds at first: an earlier session's records are taken for asked.
LEMMA QueueInitTypes == QueueInit => QueueTypes
<1> SUFFICES ASSUME QueueInit PROVE QueueTypes OBVIOUS
<1>1. ScanTypes
  <2>1. NoScan \in Scans BY DEF NoScan, Scans
  <2>2. NoScan.at = "idle" BY DEF NoScan
  <2> QED BY <2>1, <2>2 DEF QueueInit, FileInit, ScanTypes
<1>2. FileTypes BY DEF QueueInit, FileInit, FileTypes
<1>3. ThreadTypes /\ WorkTypes BY DEF QueueInit, FileInit, WorkInit, ThreadTypes, WorkTypes
<1>4. NotifyTypes BY DEF QueueInit, NotifyTypes
<1> QED BY <1>1, <1>2, <1>3, <1>4 DEF QueueTypes

LEMMA QueueInitInv == QueueInit => QueueInv
<1> SUFFICES ASSUME QueueInit PROVE QueueInv OBVIOUS
<1>1. QueueTypes BY QueueInitTypes
<1>i. \A p \in Processes :
         /\ client[p] = "idle" /\ item[p] = None /\ worker[p] = "none" /\ WorkQueue[p] = <<>>
         /\ p \in opened /\ QueueRefs[p] = 1 /\ NotifyRefs[p] = 0 /\ notifier[p] = "none"
         /\ handle[p] = "none" /\ late[p] = 0 /\ StartTime[p] = 0
  BY DEF QueueInit, FileInit, WorkInit
<1>s. \A p \in Processes : scan[Client(p)].at = "idle" /\ scan[Notifier(p)].at = "idle"
  BY ThreadsApart DEF QueueInit, FileInit, NoScan
<1>f. /\ LastModified = [n \in Names |-> IF n \in Earlier THEN 1 ELSE 0]
      /\ files = [b \in Buckets |-> IF \E n \in NamesIn(b) : LastModified[n] > 0 THEN "present" ELSE "none"]
      /\ clock = 1 /\ corrupt = {} /\ handles = [b \in Buckets |-> {}]
  BY DEF QueueInit, FileInit
<1>2. ItemsOwned BY <1>i DEF ItemsOwned, Executing
<1>3. Registered BY <1>i, <1>s DEF Registered
<1>4. ContextsCounted
  <2>1. \A p \in Processes : Len(WorkQueue[p]) = 0 BY <1>i
  <2>2. ASSUME NEW p \in Processes PROVE CountedFor(p)
    <3>1. OpenUse(p) = 1 BY <1>i DEF OpenUse, Count
    <3>2. ScanUse(p) = 0 BY <1>s DEF ScanUse, Count
    <3>3. CallUse(p) = 0 /\ EnterUse(p) = 0 BY <1>i DEF CallUse, EnterUse, Count
    <3>4. QueueUse(p) = 0 /\ ItemUse(p) = 0 /\ NotifyUse(p) = 0
      BY <1>i, <2>1 DEF QueueUse, ItemUse, NotifyUse, Count
    <3>5. HandleUse(p) = 0 /\ RegisterUse(p) = 0 /\ ThreadUse(p) = 0
      BY <1>i DEF HandleUse, RegisterUse, ThreadUse, Count
    <3> QED BY <1>i, <3>1, <3>2, <3>3, <3>4, <3>5 DEF CountedFor
  <2> QED BY <2>2, CountedForEach
<1>5. LateCallbacks BY <1>i DEF LateCallbacks
<1>6. EmptyFiles
  <2> SUFFICES ASSUME NEW b \in Buckets, files[b] = "none"
               PROVE  handles[b] = {} /\ \A n \in NamesIn(b) : LastModified[n] = 0
    BY DEF EmptyFiles
  <2>1. ~ \E n \in NamesIn(b) : LastModified[n] > 0 BY <1>f
  <2> QED BY <1>f, <2>1 DEF NamesIn
<1>7. WorkerHolds /\ Executed BY <1>i DEF WorkerHolds, Executed
<1>8. LastAsked BY <1>i DEF LastAsked
<1>9. FilesAsAsked
  <2> SUFFICES ASSUME NEW n \in Names PROVE Recorded(n) <=> asked[n] = "WRITERECORD"
    BY DEF FilesAsAsked
  <2>1. asked[n] = IF LastModified[n] > 0 THEN "WRITERECORD" ELSE "DELETERECORD"
    BY DEF QueueInit, WorkInit
  <2>2. LastModified[n] > 0 => files[FqiCreateFileNameHash[n]] = "present"
    BY <1>f, BucketOf DEF NamesIn
  <2> QED BY <2>1, <2>2 DEF Recorded
<1>10. Times BY <1>f, <1>i DEF Times
<1>11. News BY <1>i DEF News
<1> QED BY <1>1, <1>2, <1>3, <1>4, <1>5, <1>6, <1>7, <1>8, <1>9, <1>10, <1>11 DEF QueueInv

\* It is kept by every step.
LEMMA QueueStepInv == QueueInv /\ [QueueNext]_queueVars => QueueInv'
<1> SUFFICES ASSUME QueueInv, [QueueNext]_queueVars PROVE QueueInv' OBVIOUS
<1>0. /\ QueueTypes /\ ItemsOwned /\ Registered /\ ContextsCounted /\ LateCallbacks
      /\ EmptyFiles /\ WorkerHolds /\ Executed /\ LastAsked /\ FilesAsAsked /\ Times /\ News
  BY DEF QueueInv
<1>1. QueueTypes'
  BY <1>0, ScanTypesStep, FileTypesStep, ThreadTypesStep, WorkTypesStep, NotifyTypesStep DEF QueueTypes
<1>2. ItemsOwned' /\ Registered' /\ ContextsCounted'
  BY <1>0, ItemsOwnedStep, RegisteredStep, ContextsCountedStep
<1>3. LateCallbacks' /\ EmptyFiles' /\ WorkerHolds'
  BY <1>0, LateCallbacksStep, EmptyFilesStep, WorkerHoldsStep
<1>4. Executed' /\ LastAsked' /\ FilesAsAsked'
  BY <1>0, ExecutedStep, LastAskedStep, FilesAsAskedStep
<1>5. Times' /\ News' BY <1>0, TimesStep, NewsStep
<1> QED BY <1>1, <1>2, <1>3, <1>4, <1>5 DEF QueueInv

\* The invariant, types included, holds in every reachable state.
THEOREM QueueInvariance == QueueSpec => []QueueInv
BY QueueInitInv, QueueStepInv, PTL DEF QueueSpec

\* Neither the queue context nor the notification context is freed while a call, a
\* work item or a thread uses it, and neither is kept without a user
\* (FqiReleaseQueueContext and FqiReleaseNotificationContext).
THEOREM ContextsAreCounted == QueueSpec => []ContextsCounted
<1>1. QueueInv => ContextsCounted BY DEF QueueInv
<1> QED BY <1>1, QueueInvariance, PTL

\* After FqUnregisterQueueNotification at most one more callback arrives: the check in
\* FqiNotificationThreadEnumQueueRoutine may have been passed, and no other is.
THEOREM CallbacksEnd == QueueSpec => []LateOnce
<1>1. QueueInv => LateOnce BY DEF QueueInv, LateCallbacks, LateOnce
<1> QED BY <1>1, QueueInvariance, PTL

\* When the worker is done with a file it is queued if and only if the client asked for
\* that last, unless the item was lost, whatever the workers of other processes and
\* the scans do to the same file of records (FqiQueueWorkItem, FqiExecuteWorkItem).
THEOREM FilesAreAsAsked == QueueSpec => []FilesAsAsked
<1>1. QueueInv => FilesAsAsked BY DEF QueueInv
<1> QED BY <1>1, QueueInvariance, PTL

\* Without failures a notification thread that waits with nothing to look at has told
\* its client of every record (FqiNotificationThread): what is written while it scans
\* is newer than the time it took before, and wakes it again.
THEOREM AllAreTold == QueueSpec => []AllTold
<1>1. QueueInv => AllTold BY NewsTold DEF QueueInv, QueueTypes
<1> QED BY <1>1, QueueInvariance, PTL

=============================================================================
