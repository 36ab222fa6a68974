----------------------------- MODULE RecordLog ------------------------------
(***************************************************************************)
(* What the record log of the filter driver promises, with no code in it:  *)
(* a queue.  A record enters at the end, and leaves at the front: to the *)
(* client while there is one, or to nowhere when the log is emptied.  The  *)
(* client sees the records in the order in which they entered, none        *)
(* skipped; it may be shown the first one before it leaves, and so more    *)
(* than once.                                                              *)
(***************************************************************************)
EXTENDS Naturals, Sequences

CONSTANT Capacity   \* how many records there are at most

VARIABLES
    pending,        \* the records that have entered and not left, in order
    entered,        \* the number of records that have entered
    got,            \* the last record the client has got
    open            \* records enter, and the client gets them

logVars == <<pending, entered, got, open>>

LogInit == pending = <<>> /\ entered = 0 /\ got = 0 /\ open = TRUE

Enter ==
    /\ open /\ Len(pending) < Capacity
    /\ entered' = entered + 1 /\ pending' = Append(pending, entered')
    /\ UNCHANGED <<got, open>>

Get ==
    /\ open /\ pending # <<>>
    /\ got' = Head(pending) /\ pending' = Tail(pending)
    /\ UNCHANGED <<entered, open>>

\* The client is shown the first record, which stays.
Show ==
    /\ open /\ pending # <<>>
    /\ got' = Head(pending)
    /\ UNCHANGED <<pending, entered, open>>

Close == open /\ open' = FALSE /\ UNCHANGED <<pending, entered, got>>

Empty ==
    /\ ~open /\ pending # <<>>
    /\ pending' = Tail(pending)
    /\ UNCHANGED <<entered, got, open>>

LogNext == Enter \/ Get \/ Show \/ Close \/ Empty

LogSpec == LogInit /\ [][LogNext]_logVars
=============================================================================
