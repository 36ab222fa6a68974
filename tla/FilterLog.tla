----------------------------- MODULE FilterLog ------------------------------
(***************************************************************************)
(* The log of the FragFlt mini-filter, FragFlt.Sys/FragFlt.c: the records  *)
(* that I/O threads add to FKxData.KLogRecordList, the client that reads   *)
(* them through the filter's port and sets the limit and the trigger, and  *)
(* the unload of the driver.                                               *)
(*                                                                         *)
(* A step is what one thread does up to its next access to FKxData; a      *)
(* section under KLogRecordListLock is one step.  A record is the number   *)
(* of its insertion and takes one unit of the reader's buffer.  The log is *)
(* written at PASSIVE_LEVEL on every path of the driver, so the work item  *)
(* of FKxNotifyLogger never comes into play; record notification is on, as *)
(* by default.  The client's handler runs in one thread at a time.         *)
(***************************************************************************)
EXTENDS Naturals, Sequences, FiniteSets

CONSTANTS
    Writers,        \* threads that log a file
    Client,         \* the thread of the client that sends messages
    Events,         \* event objects the client creates
    None,           \* NULL: no event, no record
    MaxLimit,       \* bound: the record limits and trigger counts the client sets
    MaxRoom,        \* bound: the records a reader's buffer takes
    MaxCaptures     \* bound: the records inserted

ASSUME ConstantsAssumption ==
    /\ IsFiniteSet(Writers) /\ Writers # {} /\ Client \notin Writers
    /\ None \notin Events
    /\ MaxLimit \in Nat /\ MaxRoom \in Nat /\ MaxCaptures \in Nat \ {0}
    /\ None \notin Nat

Threads == Writers \union {Client}

VARIABLES
    KLogRecordList,
    RecordsAllocated,
    MaxRecordsToAllocate,
    highLimit,              \* the highest MaxRecordsToAllocate there has been
    LoggerTriggerEvent,
    LoggerTriggerCount,
    refs,                   \* refs[e]: the driver's references on event e
    signaled,               \* signaled[e]: the state of event e
    at,                     \* at[t]: where thread t is
    event,                  \* event[t]: the event thread t holds
    captured,               \* the number of records inserted
    delivered,              \* the last record returned to the client
    held,                   \* the record the reader has taken off the list
    room,                   \* what is left of the reader's buffer
    found,                  \* this read has seen a record (BytesRequired > 0)
    awake,                  \* the client was signaled and has not seen an empty log
    driver                  \* how far FKxFltUnload has come

recordVars == <<KLogRecordList, RecordsAllocated, captured, delivered, held>>
limitVars == <<MaxRecordsToAllocate, highLimit>>
triggerVars == <<LoggerTriggerEvent, LoggerTriggerCount, refs, signaled, event>>
readerVars == <<room, found, awake>>
vars == <<recordVars, limitVars, triggerVars, readerVars, at, driver>>

NotifyPCs == {"swap", "set", "back"}
WriterPCs == {"idle", "allocate", "insert", "trigger"} \union NotifyPCs
ClientPCs == {"idle", "read", "copy", "exchange", "count", "check"} \union NotifyPCs
DriverStates == {"loaded", "closed", "unregistered", "unloaded"}

\* Closing the server port cuts no connection: FltUnregisterFilter does.
Connected == driver \in {"loaded", "closed"}

Goto(t, to) == at' = [at EXCEPT ![t] = to]

Init ==
    /\ KLogRecordList = <<>> /\ RecordsAllocated = 0
    /\ MaxRecordsToAllocate = MaxLimit /\ highLimit = MaxLimit
    /\ LoggerTriggerEvent = None /\ LoggerTriggerCount = 0
    /\ refs = [e \in Events |-> 0] /\ signaled = [e \in Events |-> FALSE]
    /\ at = [t \in Threads |-> "idle"] /\ event = [t \in Threads |-> None]
    /\ captured = 0 /\ delivered = 0 /\ held = None
    /\ room = 0 /\ found = FALSE /\ awake = FALSE
    /\ driver = "loaded"

-----------------------------------------------------------------------------
(* FKxFltRecordLogWrite and FKxFltRecordAllocate, in an I/O thread.        *)

\* Mutant: one record more than the limit.
LogWriteAtLimit(w) ==
    /\ at[w] = "idle" /\ Connected
    /\ RecordsAllocated <= MaxRecordsToAllocate
    /\ Goto(w, "allocate")
    /\ UNCHANGED <<recordVars, limitVars, triggerVars, readerVars, driver>>

\* The limit is tested before the count is raised, in two accesses.
LogWrite(w) ==
    /\ at[w] = "idle" /\ Connected
    /\ RecordsAllocated < MaxRecordsToAllocate
    /\ Goto(w, "allocate")
    /\ UNCHANGED <<recordVars, limitVars, triggerVars, readerVars, driver>>

RecordAllocate(w) ==
    /\ at[w] = "allocate"
    /\ RecordsAllocated' = RecordsAllocated + 1
    /\ Goto(w, "insert")
    /\ UNCHANGED <<KLogRecordList, captured, delivered, held, limitVars, triggerVars,
                   readerVars, driver>>

\* The lookaside list has no memory.
AllocateFails(w) ==
    /\ at[w] = "insert"
    /\ RecordsAllocated' = RecordsAllocated - 1
    /\ Goto(w, "idle")
    /\ UNCHANGED <<KLogRecordList, captured, delivered, held, limitVars, triggerVars,
                   readerVars, driver>>

InsertRecord(w) ==
    /\ at[w] = "insert" /\ captured < MaxCaptures
    /\ captured' = captured + 1
    /\ KLogRecordList' = Append(KLogRecordList, captured + 1)
    /\ Goto(w, "trigger")
    /\ UNCHANGED <<RecordsAllocated, delivered, held, limitVars, triggerVars,
                   readerVars, driver>>

AtHighwater == RecordsAllocated >= LoggerTriggerCount

TestTrigger(w) ==
    /\ at[w] = "trigger"
    /\ IF LoggerTriggerEvent # None /\ AtHighwater
       THEN Goto(w, "swap")
       ELSE Goto(w, "idle")
    /\ UNCHANGED <<recordVars, limitVars, triggerVars, readerVars, driver>>

-----------------------------------------------------------------------------
(* FKxNotifyLogger and FKxNotifyLoggerWorkRoutine, in either thread.       *)

SwapOut(t) ==
    /\ at[t] = "swap"
    /\ event' = [event EXCEPT ![t] = LoggerTriggerEvent]
    /\ LoggerTriggerEvent' = None
    /\ Goto(t, IF LoggerTriggerEvent = None THEN "idle" ELSE "set")
    /\ UNCHANGED <<recordVars, limitVars, LoggerTriggerCount, refs, signaled,
                   readerVars, driver>>

SetEvent(t) ==
    /\ at[t] = "set"
    /\ signaled' = [signaled EXCEPT ![event[t]] = TRUE]
    /\ Goto(t, "back")
    /\ UNCHANGED <<recordVars, limitVars, LoggerTriggerEvent, LoggerTriggerCount, refs,
                   event, readerVars, driver>>

\* Mutant: the reference is forgotten when another event is there.
SwapBackForgotten(t) ==
    /\ at[t] = "back"
    /\ LoggerTriggerEvent' = IF LoggerTriggerEvent = None THEN event[t] ELSE LoggerTriggerEvent
    /\ event' = [event EXCEPT ![t] = None]
    /\ Goto(t, "idle")
    /\ UNCHANGED <<recordVars, limitVars, LoggerTriggerCount, refs, signaled, readerVars,
                   driver>>

\* The event is put back; when another one is there by now, the reference
\* goes.
SwapBack(t) ==
    /\ at[t] = "back"
    /\ IF LoggerTriggerEvent = None
       THEN LoggerTriggerEvent' = event[t] /\ UNCHANGED refs
       ELSE refs' = [refs EXCEPT ![event[t]] = @ - 1] /\ UNCHANGED LoggerTriggerEvent
    /\ event' = [event EXCEPT ![t] = None]
    /\ Goto(t, "idle")
    /\ UNCHANGED <<recordVars, limitVars, LoggerTriggerCount, signaled, readerVars, driver>>

-----------------------------------------------------------------------------
(* FKxFltMessageNotify: the commands of the client.                        *)

SetRecordLimit ==
    /\ at[Client] = "idle" /\ Connected
    /\ \E limit \in 0 .. MaxLimit :
           /\ MaxRecordsToAllocate' = limit
           /\ highLimit' = IF limit > highLimit THEN limit ELSE highLimit
    /\ UNCHANGED <<recordVars, triggerVars, readerVars, at, driver>>

\* FKxCommandSetTriggerCount takes a reference on the new event, if any, ...
SetTrigger ==
    /\ at[Client] = "idle" /\ Connected
    /\ \E e \in Events \union {None} :
           /\ event' = [event EXCEPT ![Client] = e]
           /\ refs' = IF e = None THEN refs ELSE [refs EXCEPT ![e] = @ + 1]
    /\ Goto(Client, "exchange")
    /\ UNCHANGED <<recordVars, limitVars, LoggerTriggerEvent, LoggerTriggerCount,
                   signaled, readerVars, driver>>

\* ... installs it and drops the old one, ...
ExchangeTrigger ==
    /\ at[Client] = "exchange"
    /\ LoggerTriggerEvent' = event[Client]
    /\ refs' = IF LoggerTriggerEvent = None THEN refs
               ELSE [refs EXCEPT ![LoggerTriggerEvent] = @ - 1]
    /\ event' = [event EXCEPT ![Client] = None]
    /\ Goto(Client, "count")
    /\ UNCHANGED <<recordVars, limitVars, LoggerTriggerCount, signaled, readerVars, driver>>

\* ... sets the count, ...
SetCount ==
    /\ at[Client] = "count"
    /\ LoggerTriggerCount' \in 0 .. MaxLimit
    /\ Goto(Client, "check")
    /\ UNCHANGED <<recordVars, limitVars, LoggerTriggerEvent, refs, signaled, event,
                   readerVars, driver>>

\* ... and triggers the event when the log is beyond it already.
CheckTrigger ==
    /\ at[Client] = "check"
    /\ Goto(Client, IF AtHighwater THEN "swap" ELSE "idle")
    /\ UNCHANGED <<recordVars, limitVars, triggerVars, readerVars, driver>>

QueryLog ==
    /\ at[Client] = "idle" /\ Connected
    /\ room' \in 0 .. MaxRoom /\ found' = FALSE
    /\ Goto(Client, "read")
    /\ UNCHANGED <<recordVars, limitVars, triggerVars, awake, driver>>

-----------------------------------------------------------------------------
(* FKxFltRecordLogRead, in the client's thread.                            *)

\* A record that does not fit is put back at the head before the lock goes.
\* room = 0 also stands for a buffer that is too small for the first record.
TakeRecord ==
    /\ at[Client] = "read" /\ KLogRecordList # <<>> /\ room > 0
    /\ held' = Head(KLogRecordList)
    /\ KLogRecordList' = Tail(KLogRecordList)
    /\ found' = TRUE
    /\ Goto(Client, "copy")
    /\ UNCHANGED <<RecordsAllocated, captured, delivered, limitVars, triggerVars,
                   room, awake, driver>>

\* The record is in the buffer; FKxFltRecordFree.
CopyRecord ==
    /\ at[Client] = "copy"
    /\ delivered' = held
    /\ RecordsAllocated' = RecordsAllocated - 1
    /\ held' = None
    /\ room' = room - 1
    /\ Goto(Client, "read")
    /\ UNCHANGED <<KLogRecordList, captured, limitVars, triggerVars, found, awake, driver>>

\* Mutant: the record is freed as well.
CopyFaultsAndFrees ==
    /\ at[Client] = "copy"
    /\ KLogRecordList' = <<held>> \o KLogRecordList
    /\ RecordsAllocated' = RecordsAllocated - 1
    /\ held' = None
    /\ Goto(Client, "idle")
    /\ UNCHANGED <<captured, delivered, limitVars, triggerVars, readerVars, driver>>

\* Mutant: the record goes to the tail.
CopyFaultsToTail ==
    /\ at[Client] = "copy"
    /\ KLogRecordList' = Append(KLogRecordList, held)
    /\ held' = None
    /\ Goto(Client, "idle")
    /\ UNCHANGED <<RecordsAllocated, captured, delivered, limitVars, triggerVars,
                   readerVars, driver>>

\* The buffer raises an exception before BytesWritten counts the record: the record
\* goes back to the head and the read ends.
CopyFaults ==
    /\ at[Client] = "copy"
    /\ KLogRecordList' = <<held>> \o KLogRecordList
    /\ held' = None
    /\ Goto(Client, "idle")
    /\ UNCHANGED <<RecordsAllocated, captured, delivered, limitVars, triggerVars,
                   readerVars, driver>>

\* The exception is raised after BytesWritten counts the record, while it is padded or
\* gets its NextEntryOffset: the client has the record, and it goes back as well.
CopyFaultsLate ==
    /\ at[Client] = "copy"
    /\ delivered' = held
    /\ KLogRecordList' = <<held>> \o KLogRecordList
    /\ held' = None
    /\ Goto(Client, "idle")
    /\ UNCHANGED <<RecordsAllocated, captured, limitVars, triggerVars, readerVars, driver>>

\* The status is STATUS_SUCCESS only for a read that has seen no record at all:
\* a client goes on until then.
ReadEnds ==
    /\ at[Client] = "read" /\ (KLogRecordList = <<>> \/ room = 0)
    /\ awake' = (awake /\ (found \/ KLogRecordList # <<>>))
    /\ Goto(Client, "idle")
    /\ UNCHANGED <<recordVars, limitVars, triggerVars, room, found, driver>>

\* The client's wait for an event ends; the event resets itself.
ClientWakes ==
    /\ at[Client] = "idle" /\ Connected
    /\ \E e \in Events : signaled[e] /\ signaled' = [signaled EXCEPT ![e] = FALSE]
    /\ awake' = TRUE
    /\ UNCHANGED <<recordVars, limitVars, LoggerTriggerEvent, LoggerTriggerCount, refs,
                   event, room, found, at, driver>>

-----------------------------------------------------------------------------
(* FKxFltUnload.                                                           *)

ClosePort ==
    /\ driver = "loaded"
    /\ driver' = "closed"
    /\ UNCHANGED <<recordVars, limitVars, triggerVars, readerVars, at>>

\* FltUnregisterFilter returns when no callback of the filter is running.
UnregisterFilter ==
    /\ driver = "closed" /\ \A t \in Threads : at[t] = "idle"
    /\ driver' = "unregistered"
    /\ UNCHANGED <<recordVars, limitVars, triggerVars, readerVars, at>>

\* Mutant: the log is emptied before the filter is unregistered.
FreeRecordEarly ==
    /\ driver = "closed" /\ KLogRecordList # <<>>
    /\ KLogRecordList' = Tail(KLogRecordList)
    /\ RecordsAllocated' = RecordsAllocated - 1
    /\ UNCHANGED <<captured, delivered, held, limitVars, triggerVars, readerVars, at, driver>>

\* FKxFltRecordLogEmpty.
FreeRecord ==
    /\ driver = "unregistered" /\ KLogRecordList # <<>>
    /\ KLogRecordList' = Tail(KLogRecordList)
    /\ RecordsAllocated' = RecordsAllocated - 1
    /\ UNCHANGED <<captured, delivered, held, limitVars, triggerVars, readerVars, at, driver>>

Unloaded ==
    /\ driver = "unregistered" /\ KLogRecordList = <<>>
    /\ driver' = "unloaded"
    /\ UNCHANGED <<recordVars, limitVars, triggerVars, readerVars, at>>

-----------------------------------------------------------------------------

WriterNext(w) ==
    \/ LogWrite(w) \/ RecordAllocate(w) \/ AllocateFails(w) \/ InsertRecord(w)
    \/ TestTrigger(w)

Notify(t) == SwapOut(t) \/ SetEvent(t) \/ SwapBack(t)

ClientNext ==
    \/ SetRecordLimit \/ SetTrigger \/ ExchangeTrigger \/ SetCount \/ CheckTrigger
    \/ QueryLog \/ TakeRecord \/ CopyRecord \/ CopyFaults
    \/ CopyFaultsLate \/ ReadEnds \/ ClientWakes

UnloadNext == ClosePort \/ UnregisterFilter \/ FreeRecord \/ Unloaded

Next ==
    \/ \E w \in Writers : WriterNext(w)
    \/ \E t \in Threads : Notify(t)
    \/ ClientNext
    \/ UnloadNext

Spec == Init /\ [][Next]_vars

-----------------------------------------------------------------------------
(* Properties.                                                             *)

\* Every variable has its type.
TypeOK ==
    /\ KLogRecordList \in Seq(1 .. MaxCaptures)
    /\ RecordsAllocated \in Nat
    /\ MaxRecordsToAllocate \in 0 .. MaxLimit /\ highLimit \in 0 .. MaxLimit
    /\ LoggerTriggerEvent \in Events \union {None}
    /\ LoggerTriggerCount \in 0 .. MaxLimit
    /\ refs \in [Events -> Nat] /\ signaled \in [Events -> BOOLEAN]
    /\ at \in [Threads -> WriterPCs \union ClientPCs]
    /\ \A w \in Writers : at[w] \in WriterPCs
    /\ at[Client] \in ClientPCs
    /\ event \in [Threads -> Events \union {None}]
    /\ captured \in 0 .. MaxCaptures /\ delivered \in 0 .. MaxCaptures
    /\ held \in 1 .. MaxCaptures \union {None}
    /\ room \in 0 .. MaxRoom /\ found \in BOOLEAN /\ awake \in BOOLEAN
    /\ driver \in DriverStates

WritersAt(pc) == {w \in Writers : at[w] = pc}
Copying == IF held = None THEN 0 ELSE 1

\* RecordsAllocated counts exactly the records there are: those on the list,
\* the one the reader copies, and those the I/O threads are filling in.  So
\* the throttle neither tightens nor loosens with time, and when the driver
\* is unloaded no record is left.
RecordsCounted ==
    RecordsAllocated = Len(KLogRecordList) + Copying + Cardinality(WritersAt("insert"))

\* RecordAllocate tests the limit before it raises the count, so threads that
\* test together go over the limit, but by no more than one record each,
\* whatever the client sets the limit to in the meantime.
LimitOvershoot ==
    RecordsAllocated + Cardinality(WritersAt("allocate"))
        < highLimit + Cardinality(Writers)

\* What the client has not got, or gets again because the exception came late: the
\* record being copied and the list, numbered on from the last record delivered, or
\* from that one itself.  So no record is skipped or out of order, and only the last
\* one delivered can be delivered once more.
DeliveredInOrder ==
    Connected => \E again \in {0, 1} :
        /\ again <= delivered
        /\ held \in {None, delivered - again + 1}
        /\ captured = delivered - again + Copying + Len(KLogRecordList)
        /\ \A i \in 1 .. Len(KLogRecordList) :
               KLogRecordList[i] = delivered - again + Copying + i

\* The records that have not left the driver, the one being copied first.
Pending == (IF held = None THEN <<>> ELSE <<held>>) \o KLogRecordList

Log == INSTANCE RecordLog WITH
    Capacity <- MaxLimit + Cardinality(Writers) - 1,
    pending <- Pending, entered <- captured, got <- delivered, open <- Connected

\* To those who log files and to the client the list, with its lock, its counts and
\* its copies that fail, is a queue: RecordLog.  The client gets the records in order,
\* none is skipped, and only the first one can come again, after a late exception.
\* The queue holds less than one record for each I/O thread beyond the limit, and is
\* emptied when nobody can enter any more.
ImplementsRecordLog == Log!LogSpec

Holders(e) == {t \in Threads : event[t] = e}

\* The driver has one reference on an event for each place that names it, the
\* trigger and the threads that notify or install it, whichever way these
\* swap it between them: no thread sets an event without a reference and no
\* reference is lost.
EventRefsExact ==
    \A e \in Events :
        refs[e] = Cardinality(Holders(e)) + (IF LoggerTriggerEvent = e THEN 1 ELSE 0)

Quiet == \A t \in Threads : at[t] = "idle"

\* "Trigger the user event, if there is one and we hit the highwater mark": a
\* client that waits, having read the log to its end since it was last woken,
\* has been signaled when the log is at the mark and no thread is at work.
LoggerTriggered ==
    Quiet /\ Connected /\ ~awake /\ LoggerTriggerEvent # None /\ AtHighwater
        => signaled[LoggerTriggerEvent] \/ KLogRecordList = <<>>
=============================================================================
