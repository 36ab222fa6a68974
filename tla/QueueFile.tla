----------------------------- MODULE QueueFile -----------------------------
(***************************************************************************)
(* The files of the file queue, FragQue.Dll/FragQue.cpp: a directory with  *)
(* a file for every hash of a file name, and in it a record for each file  *)
(* queued under that hash.  Several processes use the directory.  Writers  *)
(* lock a file exclusively, scans share it.                                *)
(*                                                                         *)
(* The system deletes a file when its last handle is closed and until then *)
(* lets nobody open it again: every open of this library allows deletion.  *)
(***************************************************************************)
EXTENDS Integers, Sequences, FiniteSets

CONSTANTS
    Names,              \* the files that are queued
    FqiCreateFileNameHash,  \* the hash of each
    Processes,          \* the processes that use the library
    Earlier,            \* the files queued in an earlier session
    None,               \* no name, no work item
    MaxFailures         \* bound: the system calls that fail

Buckets == {FqiCreateFileNameHash[n] : n \in Names}
NamesIn(b) == {n \in Names : FqiCreateFileNameHash[n] = b}

\* The threads of a process: its client, its worker and its notifier.
Client(p) == <<"client", p>>
Worker(p) == <<"worker", p>>
Notifier(p) == <<"notifier", p>>
Scanners == {Client(p) : p \in Processes} \union {Notifier(p) : p \in Processes}

VARIABLES
    files,              \* files[b]: "none", "present", or "deleting"
    LastModified,       \* LastModified[n]: the time in the record of n, or 0
    corrupt,            \* the files whose records cannot be read
    handles,            \* handles[b]: the threads that have it open
    locks,              \* locks[b]: the locks on it, <<thread, mode>>
    clock,              \* the last time handed out
    watched,            \* the processes that watch the directory
    changed,            \* those for whom it has changed since they looked
    scan,               \* scan[s]: where the enumeration of a thread is
    lost,               \* the names whose last item went without effect
    failures            \* the system calls that have failed

fileVars == <<files, LastModified, corrupt, handles, locks, clock, watched, changed, lost>>

NoScan == [at |-> "idle", files |-> {}, names |-> {}, bucket |-> None, since |-> 0, name |-> None]

FileInit ==
    /\ LastModified = [n \in Names |-> IF n \in Earlier THEN 1 ELSE 0]
    /\ files = [b \in Buckets |-> IF \E n \in NamesIn(b) : LastModified[n] > 0
                                  THEN "present" ELSE "none"]
    /\ corrupt = {} /\ clock = 1 /\ watched = {} /\ changed = {} /\ lost = {} /\ failures = 0
    /\ handles = [b \in Buckets |-> {}] /\ locks = [b \in Buckets |-> {}]
    /\ scan = [s \in Scanners |-> NoScan]

\* A record that can be found.
Recorded(n) == files[FqiCreateFileNameHash[n]] = "present" /\ LastModified[n] > 0

\* FqiReadNextFileQueueFileRecord accepts every record of b.
Readable(b) == b \notin corrupt

Fails == failures < MaxFailures /\ failures' = failures + 1

FqGetLastModifiedTime == clock + 1

-----------------------------------------------------------------------------
(* What the system does.                                                   *)

Changes == changed' = changed \union watched

OpenFile(th, b) == handles' = [handles EXCEPT ![b] = @ \union {th}]

CanLock(b, mode) == \A l \in locks[b] : {l[2], mode} = {"shared"}

LockFile(th, b, mode) ==
    /\ CanLock(b, mode)
    /\ locks' = [locks EXCEPT ![b] = @ \union {<<th, mode>>}]

\* The file b is gone, and what was in it.
Gone(b) ==
    /\ files' = [files EXCEPT ![b] = "none"]
    /\ LastModified' = [n \in Names |-> IF n \in NamesIn(b) THEN 0 ELSE LastModified[n]]
    /\ corrupt' = corrupt \ {b}
    /\ Changes

\* UnlockFileEx and CloseHandle; the last handle of a deleted file removes it.
UnlockAndClose(th, b) ==
    /\ handles' = [handles EXCEPT ![b] = @ \ {th}]
    /\ locks' = [locks EXCEPT ![b] = {l \in @ : l[1] # th}]
    /\ IF files[b] = "deleting" /\ handles[b] = {th} THEN Gone(b)
       ELSE UNCHANGED <<files, LastModified, corrupt, changed>>

\* DeleteFile succeeds whoever has the file open.
DeleteFile(b) ==
    IF files[b] = "present" /\ handles[b] = {} THEN Gone(b)
    ELSE /\ files' = [files EXCEPT ![b] = IF @ = "present" THEN "deleting" ELSE @]
         /\ UNCHANGED <<LastModified, corrupt, changed>>

\* FqiDeleteQueueFile of a file found corrupt: the records in it are lost.
DeleteCorrupt(b) ==
    /\ DeleteFile(b)
    /\ lost' = lost \union {n \in NamesIn(b) : LastModified[n] > 0}
    /\ UNCHANGED <<handles, locks, clock, watched>>

-----------------------------------------------------------------------------
(* FqiEnumerateFileQueue, by a thread s, of the records not older than     *)
(* since.                                                                  *)

Step(s, r) == scan' = [scan EXCEPT ![s] = r]

StartScan(s, since) ==
    Step(s, [scan[s] EXCEPT !.at = "files", !.since = since,
                            !.files = {b \in Buckets : files[b] # "none"}])

\* A file that cannot be opened is passed over.
ScanOpen(s) ==
    /\ scan[s].at = "files"
    /\ \E b \in scan[s].files :
           LET rest == scan[s].files \ {b} IN
           \/ /\ files[b] = "present"
              /\ OpenFile(s, b)
              /\ Step(s, [scan[s] EXCEPT !.at = "lock", !.bucket = b, !.files = rest])
              /\ UNCHANGED failures
           \/ /\ \/ files[b] # "present" /\ UNCHANGED failures
                 \/ Fails
              /\ Step(s, [scan[s] EXCEPT !.files = rest]) /\ UNCHANGED handles
    /\ UNCHANGED <<files, LastModified, corrupt, locks, clock, watched, changed, lost>>

\* The records are read while the file is locked; of a corrupt file some are.
ScanLock(s) ==
    LET b == scan[s].bucket
        newer == {n \in NamesIn(b) : LastModified[n] > 0 /\ LastModified[n] >= scan[s].since} IN
    /\ scan[s].at = "lock"
    /\ LockFile(s, b, "shared")
    /\ \E names \in IF Readable(b) THEN {newer} ELSE SUBSET newer :
           Step(s, [scan[s] EXCEPT !.at = "read", !.names = names])
    /\ UNCHANGED <<files, LastModified, corrupt, handles, clock, watched, changed, lost, failures>>

\* The next record goes to the callback.
ScanRecord(s, at) ==
    /\ scan[s].at = "read"
    /\ \E n \in scan[s].names :
           Step(s, [scan[s] EXCEPT !.at = at, !.name = n, !.names = @ \ {n}])

\* The callback returns.  FALSE ends the enumeration of this file: the loop
\* over the files does not look at the result.
CallbackReturns(s, continue) ==
    Step(s, IF continue THEN [scan[s] EXCEPT !.at = "read", !.name = None]
            ELSE [scan[s] EXCEPT !.at = "cancelled", !.name = None, !.names = {}])

ScanClose(s) ==
    LET b == scan[s].bucket IN
    /\ scan[s].at \in {"read", "cancelled"} /\ scan[s].names = {}
    /\ UnlockAndClose(s, b)
    /\ Step(s, IF scan[s].at = "read" /\ ~Readable(b) THEN [scan[s] EXCEPT !.at = "delete"]
               ELSE [scan[s] EXCEPT !.at = "files", !.bucket = None])
    /\ UNCHANGED <<clock, watched, lost, failures>>

ScanDelete(s) ==
    /\ scan[s].at = "delete"
    /\ DeleteCorrupt(scan[s].bucket)
    /\ Step(s, [scan[s] EXCEPT !.at = "files", !.bucket = None])
    /\ UNCHANGED failures

Scan(s) == ScanOpen(s) \/ ScanLock(s) \/ ScanClose(s) \/ ScanDelete(s)

ScanEnds(s) == scan[s].at = "files" /\ scan[s].files = {}
=============================================================================
