--------------------------- MODULE FilterCapture ----------------------------
(***************************************************************************)
(* How the FragFlt mini-filter, FragFlt.Sys/FragFlt.c, follows one file:   *)
(* the callbacks on create, set information and cleanup, the stream        *)
(* context they share and the references they take.                        *)
(*                                                                         *)
(* A thread opens the file, writes it, renames or deletes it, and closes   *)
(* its handle; the filter's callbacks run inside these operations, any     *)
(* number at once.  A step is what one thread does up to its next access   *)
(* to the stream context or to the file.  Writing the log (FilterLog)      *)
(* succeeds or fails.  File names are the numbers of the file's renames.   *)
(* The filter manager, which attaches, references and frees contexts, is   *)
(* modelled from its use: FltSetStreamContext adds its reference even when *)
(* it fails, as FragFlt.c says, and the context of a file goes when the    *)
(* last handle is closed.                                                  *)
(***************************************************************************)
EXTENDS Naturals, FiniteSets

CONSTANTS
    Threads,        \* threads that use the file, each with a handle of its own
    Contexts,       \* stream contexts that can exist at once
    NoContext,      \* no stream context
    NoName,         \* NULL for FileNameInformation
    MaxName,        \* bound: the renames of the file
    MaxTime,        \* bound: the writes that change LastWriteTime
    MaxRefs,        \* bound: the references on one name, which leak
    MaxCount        \* bound: the value of LoggedCount

ASSUME ConstantsAssumption ==
    /\ IsFiniteSet(Threads) /\ Threads # {}
    /\ IsFiniteSet(Contexts) /\ NoContext \notin Contexts
    /\ MaxName \in Nat /\ MaxTime \in Nat /\ MaxRefs \in Nat /\ MaxCount \in Nat
    /\ NoName \notin Nat

Names == 0 .. MaxName

VARIABLES
    fileName, fileTime,     \* of the file: its name and LastWriteTime
    streamContext,          \* the context attached to the file
    captureRead,            \* FKxFeatureCaptureRead of RuntimeControls
    refs,                   \* refs[c]: references on context c; 0: it is free
    Volume,                 \* Volume[c]: c has a volume
    FileNameInformation,    \* FileNameInformation[c]: its name or NoName
    LoggedCount,
    LastWriteTime,
    logs,                   \* logs[c]: the records written for c
    direct,                 \* direct[c]: those of creates, since c was attached
    renames,                \* renames[c]: the times PostSetInformation reset LoggedCount
    current,                \* current[c]: the name c was given last
    nameLogged,             \* nameLogged[c]: that name has been written to the log
    given,                  \* given[c]: its count was raised for a delete or a lost item
    nameRefs,               \* nameRefs[n]: the filter's references on name n
    at,                     \* at[t]: where thread t is
    ctx,                    \* ctx[t]: the context thread t holds
    name,                   \* name[t]: the name thread t holds
    logging,                \* logging[t]: the name thread t writes to the log
    closing,                \* thread t is in PreCleanup
    item,                   \* the log of t's context is a work item, t's handle is closed
    bugcheck                \* the log was to be written without volume or name

fileVars == <<fileName, fileTime>>
historyVars == <<logs, direct, renames, current, nameLogged, given>>
contextVars == <<refs, Volume, FileNameInformation, LoggedCount, LastWriteTime,
                 historyVars>>
threadVars == <<ctx, name, logging, closing, item>>
vars == <<fileVars, streamContext, captureRead, contextVars, nameRefs, at, threadVars,
          bugcheck>>

PCs == {"closed", "named", "found", "raise", "won", "log", "stale", "staleName",
        "done", "attach", "fallback", "open", "rename", "renamed", "swapName",
        "swapVolume", "reset", "cleanup"}

Goto(t, to) == at' = [at EXCEPT ![t] = to]

\* After a bug check nothing runs.
At(t, pc) == at[t] = pc /\ ~bugcheck

Init ==
    /\ fileName = 0 /\ fileTime = 0
    /\ streamContext = NoContext /\ captureRead = FALSE
    /\ refs = [c \in Contexts |-> 0]
    /\ Volume = [c \in Contexts |-> FALSE]
    /\ FileNameInformation = [c \in Contexts |-> NoName]
    /\ LoggedCount = [c \in Contexts |-> 0]
    /\ LastWriteTime = [c \in Contexts |-> 0]
    /\ logs = [c \in Contexts |-> 0] /\ direct = [c \in Contexts |-> 0]
    /\ renames = [c \in Contexts |-> 0]
    /\ current = [c \in Contexts |-> NoName]
    /\ nameLogged = [c \in Contexts |-> FALSE]
    /\ given = [c \in Contexts |-> FALSE]
    /\ nameRefs = [n \in Names |-> 0]
    /\ at = [t \in Threads |-> "closed"]
    /\ ctx = [t \in Threads |-> NoContext]
    /\ name = [t \in Threads |-> NoName] /\ logging = [t \in Threads |-> NoName]
    /\ closing = [t \in Threads |-> FALSE] /\ item = [t \in Threads |-> FALSE]
    /\ bugcheck = FALSE

\* FltReleaseFileNameInformation of n, which may be NULL.
ReleaseName(n) ==
    nameRefs' = IF n = NoName THEN nameRefs ELSE [nameRefs EXCEPT ![n] = @ - 1]

\* The last reference on c goes: FKxFltContextCleanup drops volume and name,
\* and the context is free.
FreeContext(c) ==
    /\ refs' = [refs EXCEPT ![c] = 0]
    /\ Volume' = [Volume EXCEPT ![c] = FALSE]
    /\ FileNameInformation' = [FileNameInformation EXCEPT ![c] = NoName]
    /\ ReleaseName(FileNameInformation[c])
    /\ LoggedCount' = [LoggedCount EXCEPT ![c] = 0]
    /\ LastWriteTime' = [LastWriteTime EXCEPT ![c] = 0]
    /\ logs' = [logs EXCEPT ![c] = 0] /\ direct' = [direct EXCEPT ![c] = 0]
    /\ renames' = [renames EXCEPT ![c] = 0]
    /\ current' = [current EXCEPT ![c] = NoName]
    /\ nameLogged' = [nameLogged EXCEPT ![c] = FALSE]
    /\ given' = [given EXCEPT ![c] = FALSE]

\* FltReleaseContext.
ReleaseContext(c) ==
    IF refs[c] = 1
    THEN FreeContext(c)
    ELSE /\ refs' = [refs EXCEPT ![c] = @ - 1]
         /\ UNCHANGED <<Volume, FileNameInformation, LoggedCount, LastWriteTime,
                        historyVars, nameRefs>>

\* FltGetStreamContext finds a context.
HoldContext(t) ==
    /\ streamContext # NoContext
    /\ refs' = [refs EXCEPT ![streamContext] = @ + 1]
    /\ ctx' = [ctx EXCEPT ![t] = streamContext]
    /\ UNCHANGED <<Volume, FileNameInformation, LoggedCount, LastWriteTime, historyVars>>

-----------------------------------------------------------------------------
(* Create: FKxFltPreCreate and FKxFltPostCreate.                           *)

\* A create the filter ignores (delete on close, a registered process, no
\* access of interest), or one whose name cannot be had.
CreateIgnored(t) ==
    /\ At(t, "closed")
    /\ Goto(t, "open")
    /\ UNCHANGED <<fileVars, streamContext, captureRead, contextVars, nameRefs,
                   threadVars, bugcheck>>

PostCreate(t) ==
    /\ At(t, "closed") /\ nameRefs[fileName] < MaxRefs
    /\ name' = [name EXCEPT ![t] = fileName]
    /\ nameRefs' = [nameRefs EXCEPT ![fileName] = @ + 1]
    /\ Goto(t, "named")
    /\ UNCHANGED <<fileVars, streamContext, captureRead, contextVars, ctx, logging,
                   closing, item, bugcheck>>

\* The end of PostCreate at __CLEANUP.
LeaveCreate(t) ==
    /\ ReleaseName(name[t])
    /\ name' = [name EXCEPT ![t] = NoName]
    /\ Goto(t, "open")

\* The name does not parse, or the file's times cannot be queried.
PostCreateFails(t) ==
    /\ At(t, "named")
    /\ LeaveCreate(t)
    /\ UNCHANGED <<fileVars, streamContext, captureRead, contextVars, ctx, logging,
                   closing, item, bugcheck>>

\* FltGetStreamContext fails, but not for want of a context: the function
\* returns with the name.
GetContextFails(t) ==
    /\ At(t, "named")
    /\ name' = [name EXCEPT ![t] = NoName]
    /\ Goto(t, "open")
    /\ UNCHANGED <<fileVars, streamContext, captureRead, contextVars, nameRefs, ctx,
                   logging, closing, item, bugcheck>>

FoundContext(t) ==
    /\ At(t, "named")
    /\ HoldContext(t)
    /\ Goto(t, "found")
    /\ UNCHANGED <<fileVars, streamContext, captureRead, nameRefs, name, logging, closing,
                   item, bugcheck>>

\* Returns with the name, too, once the context is released ("done").
TestFound(t) ==
    /\ At(t, "found")
    /\ Goto(t, IF captureRead /\ LoggedCount[ctx[t]] = 0 THEN "raise" ELSE "done")
    /\ UNCHANGED <<fileVars, streamContext, captureRead, contextVars, nameRefs,
                   threadVars, bugcheck>>

\* Mutant: a context is allocated although the file has one.
AllocateAnyway(t) ==
    /\ At(t, "named") /\ nameRefs[name[t]] < MaxRefs
    /\ \E c \in Contexts :
           /\ refs[c] = 0
           /\ ctx' = [ctx EXCEPT ![t] = c]
           /\ refs' = [refs EXCEPT ![c] = 1]
           /\ Volume' = [Volume EXCEPT ![c] = TRUE]
           /\ FileNameInformation' = [FileNameInformation EXCEPT ![c] = name[t]]
           /\ current' = [current EXCEPT ![c] = name[t]]
           /\ LastWriteTime' = [LastWriteTime EXCEPT ![c] = fileTime]
    /\ nameRefs' = [nameRefs EXCEPT ![name[t]] = @ + 1]
    /\ Goto(t, "attach")
    /\ UNCHANGED <<fileVars, streamContext, captureRead, LoggedCount, logs, direct,
                   renames, nameLogged, given, name, logging, closing, item, bugcheck>>

\* FltAllocateContext and FKxFltInitializeStreamContext.
Allocate(t) ==
    /\ At(t, "named") /\ streamContext = NoContext /\ nameRefs[name[t]] < MaxRefs
    /\ \E c \in Contexts :
           /\ refs[c] = 0
           /\ ctx' = [ctx EXCEPT ![t] = c]
           /\ refs' = [refs EXCEPT ![c] = 1]
           /\ Volume' = [Volume EXCEPT ![c] = TRUE]
           /\ FileNameInformation' = [FileNameInformation EXCEPT ![c] = name[t]]
           /\ current' = [current EXCEPT ![c] = name[t]]
           /\ LastWriteTime' = [LastWriteTime EXCEPT ![c] = fileTime]
    /\ nameRefs' = [nameRefs EXCEPT ![name[t]] = @ + 1]
    /\ Goto(t, "attach")
    /\ UNCHANGED <<fileVars, streamContext, captureRead, LoggedCount, logs, direct,
                   renames, nameLogged, given, name, logging, closing, item, bugcheck>>

\* There is no memory for a context, or its volume cannot be referenced.
AllocateFails(t) ==
    /\ At(t, "named") /\ streamContext = NoContext
    /\ Goto(t, "fallback")
    /\ UNCHANGED <<fileVars, streamContext, captureRead, contextVars, nameRefs,
                   threadVars, bugcheck>>

\* FltSetStreamContext, then the release of the allocation's reference.
Attach(t) ==
    /\ At(t, "attach") /\ streamContext = NoContext
    /\ streamContext' = ctx[t]
    /\ ctx' = [ctx EXCEPT ![t] = NoContext]
    /\ direct' = [direct EXCEPT ![ctx[t]] = 0]
    /\ LeaveCreate(t)
    /\ UNCHANGED <<fileVars, captureRead, refs, Volume, FileNameInformation, LoggedCount,
                   LastWriteTime, logs, renames, current, nameLogged, given, logging,
                   closing, item, bugcheck>>

\* Another context is attached already, or the call fails: both references go.
AttachFails(t) ==
    /\ At(t, "attach")
    /\ FreeContext(ctx[t])
    /\ ctx' = [ctx EXCEPT ![t] = NoContext]
    /\ Goto(t, "fallback")
    /\ UNCHANGED <<fileVars, streamContext, captureRead, name, logging, closing, item,
                   bugcheck>>

\* The file is logged at once, or the log has no room.  The comment has it that no
\* context could be had; but the context of another create may be attached, and log it.
Fallback(t) ==
    /\ At(t, "fallback")
    /\ \E written \in BOOLEAN :
           direct' = IF written /\ streamContext # NoContext
                     THEN [direct EXCEPT ![streamContext] = @ + 1] ELSE direct
    /\ LeaveCreate(t)
    /\ UNCHANGED <<fileVars, streamContext, captureRead, refs, Volume,
                   FileNameInformation, LoggedCount, LastWriteTime, logs, renames,
                   current, nameLogged, given, ctx, logging, closing, item, bugcheck>>

-----------------------------------------------------------------------------
(* A capture: the first to raise LoggedCount writes the log.               *)

\* Mutant: the result of the increment is not looked at.
RaiseAlways(t) ==
    /\ At(t, "raise") /\ LoggedCount[ctx[t]] < MaxCount
    /\ LoggedCount' = [LoggedCount EXCEPT ![ctx[t]] = @ + 1]
    /\ Goto(t, "won")
    /\ UNCHANGED <<fileVars, streamContext, captureRead, refs, Volume,
                   FileNameInformation, LastWriteTime, historyVars, nameRefs, threadVars,
                   bugcheck>>

Raise(t) ==
    /\ At(t, "raise") /\ LoggedCount[ctx[t]] < MaxCount
    /\ LoggedCount' = [LoggedCount EXCEPT ![ctx[t]] = @ + 1]
    /\ Goto(t, IF LoggedCount'[ctx[t]] = 1 THEN "won" ELSE "done")
    /\ UNCHANGED <<fileVars, streamContext, captureRead, refs, Volume,
                   FileNameInformation, LastWriteTime, historyVars, nameRefs, threadVars,
                   bugcheck>>

\* PreCleanup above PASSIVE_LEVEL queues the log; the reference on the context
\* goes to the work item.
QueueItem(t) ==
    /\ At(t, "won") /\ closing[t] /\ ~item[t]
    /\ item' = [item EXCEPT ![t] = TRUE]
    /\ UNCHANGED <<fileVars, streamContext, captureRead, contextVars, nameRefs, at, ctx,
                   name, logging, closing, bugcheck>>

\* Mutant: LoggedCount stays raised.
QueueItemFailsRaised(t) ==
    /\ At(t, "won") /\ closing[t] /\ ~item[t]
    /\ Goto(t, "done")
    /\ UNCHANGED <<fileVars, streamContext, captureRead, contextVars, nameRefs,
                   threadVars, bugcheck>>

QueueItemFails(t) ==
    /\ At(t, "won") /\ closing[t] /\ ~item[t]
    /\ LoggedCount' = [LoggedCount EXCEPT ![ctx[t]] = 0]
    /\ given' = [given EXCEPT ![ctx[t]] = FALSE]
    /\ Goto(t, "done")
    /\ UNCHANGED <<fileVars, streamContext, captureRead, refs, Volume,
                   FileNameInformation, LastWriteTime, logs, direct, renames, current,
                   nameLogged, nameRefs, threadVars, bugcheck>>

\* No memory for the work item: LoggedCount stays raised.
AllocateItemFails(t) ==
    /\ At(t, "won") /\ closing[t] /\ ~item[t]
    /\ given' = [given EXCEPT ![ctx[t]] = LoggedCount[ctx[t]] > 0]
    /\ Goto(t, "done")
    /\ UNCHANGED <<fileVars, streamContext, captureRead, refs, Volume,
                   FileNameInformation, LoggedCount, LastWriteTime, logs, direct, renames,
                   current, nameLogged, nameRefs, threadVars, bugcheck>>

\* KFxFltLogStreamContext asserts that volume and name are there.
LogStreamContext(t) ==
    /\ At(t, "won")
    /\ IF Volume[ctx[t]] /\ FileNameInformation[ctx[t]] # NoName
       THEN /\ logging' = [logging EXCEPT ![t] = FileNameInformation[ctx[t]]]
            /\ Goto(t, "log") /\ UNCHANGED bugcheck
       ELSE bugcheck' = TRUE /\ UNCHANGED <<logging, at>>
    /\ UNCHANGED <<fileVars, streamContext, captureRead, contextVars, nameRefs, ctx, name,
                   closing, item>>

LogWritten(t) ==
    /\ At(t, "log")
    /\ logs' = [logs EXCEPT ![ctx[t]] = @ + 1]
    /\ nameLogged' = [nameLogged EXCEPT ![ctx[t]] = @ \/ logging[t] = current[ctx[t]]]
    /\ logging' = [logging EXCEPT ![t] = NoName]
    /\ Goto(t, "stale")
    /\ UNCHANGED <<fileVars, streamContext, captureRead, refs, Volume,
                   FileNameInformation, LoggedCount, LastWriteTime, direct, renames,
                   current, given, nameRefs, ctx, name, closing, item, bugcheck>>

LogFails(t) ==
    /\ At(t, "log")
    /\ LoggedCount' = [LoggedCount EXCEPT ![ctx[t]] = 0]
    /\ given' = [given EXCEPT ![ctx[t]] = FALSE]
    /\ logging' = [logging EXCEPT ![t] = NoName]
    /\ Goto(t, "done")
    /\ UNCHANGED <<fileVars, streamContext, captureRead, refs, Volume,
                   FileNameInformation, LastWriteTime, logs, direct, renames, current,
                   nameLogged, nameRefs, ctx, name, closing, item, bugcheck>>

\* FKxFltMarkStreamContextStale.
StaleVolume(t) ==
    /\ At(t, "stale")
    /\ Volume' = [Volume EXCEPT ![ctx[t]] = FALSE]
    /\ Goto(t, "staleName")
    /\ UNCHANGED <<fileVars, streamContext, captureRead, refs, FileNameInformation,
                   LoggedCount, LastWriteTime, historyVars, nameRefs, threadVars,
                   bugcheck>>

StaleName(t) ==
    /\ At(t, "staleName")
    /\ FileNameInformation' = [FileNameInformation EXCEPT ![ctx[t]] = NoName]
    /\ ReleaseName(FileNameInformation[ctx[t]])
    /\ Goto(t, "done")
    /\ UNCHANGED <<fileVars, streamContext, captureRead, refs, Volume, LoggedCount,
                   LastWriteTime, historyVars, threadVars, bugcheck>>

\* The callback or the work item releases the context and ends.
Done(t) ==
    /\ At(t, "done")
    /\ ReleaseContext(ctx[t])
    /\ ctx' = [ctx EXCEPT ![t] = NoContext]
    /\ name' = [name EXCEPT ![t] = NoName]
    /\ closing' = [closing EXCEPT ![t] = FALSE]
    /\ item' = [item EXCEPT ![t] = FALSE]
    /\ Goto(t, IF closing[t] THEN "closed" ELSE "open")
    /\ UNCHANGED <<fileVars, streamContext, captureRead, logging, bugcheck>>

-----------------------------------------------------------------------------
(* FKxFltPreSetInformation and FKxFltPostSetInformation.                   *)

\* A rename without a context.
RenameIgnored(t) ==
    /\ At(t, "open") /\ fileName < MaxName
    /\ fileName' = fileName + 1
    /\ UNCHANGED <<fileTime, streamContext, captureRead, contextVars, nameRefs, at,
                   threadVars, bugcheck>>

PreRename(t) ==
    /\ At(t, "open")
    /\ HoldContext(t)
    /\ Goto(t, "rename")
    /\ UNCHANGED <<fileVars, streamContext, captureRead, nameRefs, name, logging, closing,
                   item, bugcheck>>

Rename(t) ==
    /\ At(t, "rename") /\ fileName < MaxName
    /\ fileName' = fileName + 1
    /\ name' = [name EXCEPT ![t] = fileName + 1]
    /\ Goto(t, "renamed")
    /\ UNCHANGED <<fileTime, streamContext, captureRead, contextVars, nameRefs, ctx,
                   logging, closing, item, bugcheck>>

\* Mutant: the function returns without releasing the context.
RenameFailsReturns(t) ==
    /\ At(t, "rename") \/ At(t, "renamed")
    /\ ctx' = [ctx EXCEPT ![t] = NoContext]
    /\ name' = [name EXCEPT ![t] = NoName]
    /\ Goto(t, "open")
    /\ UNCHANGED <<fileVars, streamContext, captureRead, contextVars, nameRefs, logging,
                   closing, item, bugcheck>>

\* The rename fails, or PostSetInformation cannot get the name or the volume.
RenameFails(t) ==
    /\ At(t, "rename") \/ At(t, "renamed")
    /\ name' = [name EXCEPT ![t] = NoName]
    /\ Goto(t, "done")
    /\ UNCHANGED <<fileVars, streamContext, captureRead, contextVars, nameRefs, ctx,
                   logging, closing, item, bugcheck>>

PostRename(t) ==
    /\ At(t, "renamed") /\ nameRefs[name[t]] < MaxRefs
    /\ nameRefs' = [nameRefs EXCEPT ![name[t]] = @ + 1]
    /\ Goto(t, "swapName")
    /\ UNCHANGED <<fileVars, streamContext, captureRead, contextVars, threadVars,
                   bugcheck>>

\* Mutant: the new name is stored, and released at the end in place of the old.
SwapNameStored(t) ==
    /\ At(t, "swapName")
    /\ FileNameInformation' = [FileNameInformation EXCEPT ![ctx[t]] = name[t]]
    /\ Goto(t, "swapVolume")
    /\ UNCHANGED <<fileVars, streamContext, captureRead, refs, Volume, LoggedCount,
                   LastWriteTime, historyVars, nameRefs, threadVars, bugcheck>>

SwapName(t) ==
    /\ At(t, "swapName")
    /\ FileNameInformation' = [FileNameInformation EXCEPT ![ctx[t]] = name[t]]
    /\ name' = [name EXCEPT ![t] = FileNameInformation[ctx[t]]]
    /\ current' = [current EXCEPT ![ctx[t]] = name[t]]
    /\ nameLogged' = [nameLogged EXCEPT ![ctx[t]] = FALSE]
    /\ Goto(t, "swapVolume")
    /\ UNCHANGED <<fileVars, streamContext, captureRead, refs, Volume, LoggedCount,
                   LastWriteTime, logs, direct, renames, given, nameRefs, ctx, logging,
                   closing, item, bugcheck>>

SwapVolume(t) ==
    /\ At(t, "swapVolume")
    /\ Volume' = [Volume EXCEPT ![ctx[t]] = TRUE]
    /\ Goto(t, "reset")
    /\ UNCHANGED <<fileVars, streamContext, captureRead, refs, FileNameInformation,
                   LoggedCount, LastWriteTime, historyVars, nameRefs, threadVars,
                   bugcheck>>

\* "Force the record to be scheduled for logging", and release the old name.
ResetCount(t) ==
    /\ At(t, "reset")
    /\ LoggedCount' = [LoggedCount EXCEPT ![ctx[t]] = 0]
    /\ given' = [given EXCEPT ![ctx[t]] = FALSE]
    /\ renames' = [renames EXCEPT ![ctx[t]] = @ + 1]
    /\ ReleaseName(name[t])
    /\ name' = [name EXCEPT ![t] = NoName]
    /\ Goto(t, "done")
    /\ UNCHANGED <<fileVars, streamContext, captureRead, refs, Volume,
                   FileNameInformation, LastWriteTime, logs, direct, current, nameLogged,
                   ctx, logging, closing, item, bugcheck>>

\* A request to delete, before it is carried out; the context is held and
\* released around it.
PreDelete(t) ==
    /\ At(t, "open") /\ streamContext # NoContext
    /\ LoggedCount[streamContext] < MaxCount
    /\ LoggedCount' = [LoggedCount EXCEPT ![streamContext] = @ + 1]
    /\ given' = [given EXCEPT ![streamContext] = TRUE]
    /\ UNCHANGED <<fileVars, streamContext, captureRead, refs, Volume,
                   FileNameInformation, LastWriteTime, logs, direct, renames, current,
                   nameLogged, nameRefs, at, threadVars, bugcheck>>

-----------------------------------------------------------------------------
(* FKxFltPreCleanup.                                                       *)

CleanupIgnored(t) ==
    /\ At(t, "open")
    /\ Goto(t, "closed")
    /\ UNCHANGED <<fileVars, streamContext, captureRead, contextVars, nameRefs,
                   threadVars, bugcheck>>

PreCleanup(t) ==
    /\ At(t, "open")
    /\ HoldContext(t)
    /\ closing' = [closing EXCEPT ![t] = TRUE]
    /\ Goto(t, "cleanup")
    /\ UNCHANGED <<fileVars, streamContext, captureRead, nameRefs, name, logging, item,
                   bugcheck>>

Modified(c) == LastWriteTime[c] # fileTime

CompareTimes(t) ==
    /\ At(t, "cleanup")
    /\ Goto(t, IF Modified(ctx[t]) /\ LoggedCount[ctx[t]] = 0 THEN "raise" ELSE "done")
    /\ UNCHANGED <<fileVars, streamContext, captureRead, contextVars, nameRefs,
                   threadVars, bugcheck>>

\* FltQueryInformationFile fails.
CompareFails(t) ==
    /\ At(t, "cleanup")
    /\ Goto(t, "done")
    /\ UNCHANGED <<fileVars, streamContext, captureRead, contextVars, nameRefs,
                   threadVars, bugcheck>>

-----------------------------------------------------------------------------
(* The file system, the filter manager and the filter's client.            *)

Write(t) ==
    /\ At(t, "open") /\ fileTime < MaxTime
    /\ fileTime' = fileTime + 1
    /\ UNCHANGED <<fileName, streamContext, captureRead, contextVars, nameRefs, at,
                   threadVars, bugcheck>>

\* The file's last handle is closed and the filter manager lets go of its
\* context.
StreamClosed ==
    /\ ~bugcheck /\ streamContext # NoContext
    /\ \A t \in Threads : at[t] = "closed" \/ item[t]
    /\ ReleaseContext(streamContext)
    /\ streamContext' = NoContext
    /\ UNCHANGED <<fileVars, captureRead, at, threadVars, bugcheck>>

\* FKxCommandSetFeatureControls.
SetFeatureControls ==
    /\ ~bugcheck
    /\ captureRead' = ~captureRead
    /\ UNCHANGED <<fileVars, streamContext, contextVars, nameRefs, at, threadVars,
                   bugcheck>>

-----------------------------------------------------------------------------

Create(t) ==
    \/ CreateIgnored(t) \/ PostCreate(t) \/ PostCreateFails(t) \/ GetContextFails(t)
    \/ FoundContext(t) \/ TestFound(t) \/ Allocate(t) \/ AllocateFails(t) \/ Attach(t)
    \/ AttachFails(t) \/ Fallback(t)

Capture(t) ==
    \/ Raise(t) \/ QueueItem(t) \/ QueueItemFails(t) \/ AllocateItemFails(t)
    \/ LogStreamContext(t) \/ LogWritten(t) \/ LogFails(t) \/ StaleVolume(t)
    \/ StaleName(t) \/ Done(t)

SetInformation(t) ==
    \/ RenameIgnored(t) \/ PreRename(t) \/ Rename(t) \/ RenameFails(t) \/ PostRename(t)
    \/ SwapName(t) \/ SwapVolume(t) \/ ResetCount(t) \/ PreDelete(t)

Cleanup(t) ==
    CleanupIgnored(t) \/ PreCleanup(t) \/ CompareTimes(t) \/ CompareFails(t)

Next ==
    \/ \E t \in Threads :
           Create(t) \/ Capture(t) \/ SetInformation(t) \/ Cleanup(t) \/ Write(t)
    \/ StreamClosed
    \/ SetFeatureControls

Spec == Init /\ [][Next]_vars

-----------------------------------------------------------------------------
(* Properties.                                                             *)

\* Every variable has its type.
TypeOK ==
    /\ fileName \in Names /\ fileTime \in 0 .. MaxTime
    /\ streamContext \in Contexts \union {NoContext} /\ captureRead \in BOOLEAN
    /\ refs \in [Contexts -> Nat] /\ Volume \in [Contexts -> BOOLEAN]
    /\ FileNameInformation \in [Contexts -> Names \union {NoName}]
    /\ LoggedCount \in [Contexts -> 0 .. MaxCount]
    /\ LastWriteTime \in [Contexts -> 0 .. MaxTime]
    /\ logs \in [Contexts -> Nat] /\ direct \in [Contexts -> Nat]
    /\ renames \in [Contexts -> Nat]
    /\ current \in [Contexts -> Names \union {NoName}]
    /\ nameLogged \in [Contexts -> BOOLEAN]
    /\ given \in [Contexts -> BOOLEAN] /\ nameRefs \in [Names -> Nat]
    /\ at \in [Threads -> PCs] /\ ctx \in [Threads -> Contexts \union {NoContext}]
    /\ name \in [Threads -> Names \union {NoName}]
    /\ logging \in [Threads -> Names \union {NoName}]
    /\ closing \in [Threads -> BOOLEAN] /\ item \in [Threads -> BOOLEAN]
    /\ bugcheck \in BOOLEAN

Users(c) == {t \in Threads : ctx[t] = c}

\* A context has one reference for each callback or work item that uses it and
\* one for being attached, so no one uses a context that is free and none stays
\* behind, however creates race to attach theirs and cleanups hand theirs on.
ContextRefsExact ==
    \A c \in Contexts :
        refs[c] = Cardinality(Users(c)) + (IF streamContext = c THEN 1 ELSE 0)

\* What the threads hold, in and after the steps that reference a name.
NameHolders(n) == {t \in Threads : name[t] = n /\ at[t] # "renamed"}

\* A name a context or a callback holds has a reference for each of them: the
\* exchanges of MarkStreamContextStale and PostSetInformation release each name
\* once.  (There can be more: see README on the names that leak.)
NamesHeld ==
    \A n \in Names :
        nameRefs[n] >= Cardinality(NameHolders(n))
                           + Cardinality({c \in Contexts : FileNameInformation[c] = n})

\* What the captures of a context write is at most one record, and one more for each
\* rename that reset LoggedCount, whoever races to log it and whichever attempts fail.
\* This bounds the records of a context, not those of a name: a capture that overlaps a
\* rename can log the new name before the reset, which makes for another record of it.
LoggedOncePerReset ==
    \A c \in Contexts : logs[c] <= 1 + renames[c]

\* While a context is attached, the creates that lost the race to attach theirs, or had
\* none, log the file as well, under its name of then: one record for each other thread
\* at most, since a create that comes later finds the context.
RacersLogOnce ==
    \A c \in Contexts : direct[c] < Cardinality(Threads)

\* LoggedCount tells the truth: when no callback works on a context, a count that keeps
\* the file from being logged means that the name the context was given last has been
\* logged or the file was to be deleted - or that the memory for the work item ran out.
LoggedMeansLogged ==
    \A c \in Contexts :
        Users(c) = {} /\ LoggedCount[c] > 0 => nameLogged[c] \/ given[c]

\* Every reference is accounted for, to contexts and to names.
ReferencesExact == ContextRefsExact /\ NamesHeld

\* What is logged of a file whose context is attached: bounded from above by the renames
\* and the threads that raced to attach it, and never passed over without a reason.
CapturesLogged == LoggedOncePerReset /\ RacersLogOnce /\ LoggedMeansLogged

\* What KFxFltLogStreamContext asserts: a context that is logged has its volume
\* and its name.
LogHasNameAndVolume == ~bugcheck
=============================================================================
