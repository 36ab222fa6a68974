------------------------------ MODULE MCRWLock ------------------------------
(* RWLock on both machines: one that runs the steps in program order and   *)
(* one that delays plain stores.  A behaviour is of one machine.           *)
EXTENDS RWLock

VARIABLE delays         \* the machine delays plain stores

MCvars == <<vars, delays>>

InOrder == INSTANCE RWLock WITH StoreBuffered <- FALSE
Delaying == INSTANCE RWLock WITH StoreBuffered <- TRUE

MCInit == Init /\ delays \in BOOLEAN

\* A writer whose wake-up is lost leaves every other thread waiting behind it.
Stuck == delays /\ ~ENABLED Delaying!Next /\ UNCHANGED MCvars

MCNext ==
    \/ ~delays /\ InOrder!Next /\ UNCHANGED delays
    \/ delays /\ Delaying!Next /\ UNCHANGED delays
    \/ Stuck

\* Fairness is of interest in program order only.
MCFairness ==
    \A t \in Threads :
        /\ WF_MCvars(~delays /\ InOrder!Run(t) /\ UNCHANGED delays)
        /\ WF_MCvars(~delays /\ InOrder!ReleaseExclusive(t) /\ UNCHANGED delays)
        /\ WF_MCvars(~delays /\ InOrder!ReleaseShared(t) /\ UNCHANGED delays)

MCSpec == MCInit /\ [][MCNext]_MCvars /\ MCFairness

-----------------------------------------------------------------------------
\* In program order a writer that has entered the critical section gets the
\* lock: readers that arrive later step aside for it.
WriterProceedsInOrder == ~delays => WriterProceeds
=============================================================================
