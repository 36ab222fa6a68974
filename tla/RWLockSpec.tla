----------------------------- MODULE RWLockSpec -----------------------------
(***************************************************************************)
(* What a shared-reader / exclusive-writer lock promises, with no code in  *)
(* it: either any number of threads hold it shared, or one thread holds it *)
(* exclusively, any number of times over.                                  *)
(***************************************************************************)
EXTENDS Naturals

CONSTANT Threads    \* the threads that use the lock

VARIABLES
    readers,        \* the threads that hold the lock shared
    depth           \* depth[t]: how many times t holds it exclusively

specVars == <<readers, depth>>

SpecInit ==
    /\ readers = {}
    /\ depth = [t \in Threads |-> 0]

GetExclusive(t) ==
    /\ readers = {}
    /\ \A u \in Threads \ {t} : depth[u] = 0
    /\ depth' = [depth EXCEPT ![t] = @ + 1]
    /\ UNCHANGED readers

DropExclusive(t) ==
    /\ depth[t] > 0
    /\ depth' = [depth EXCEPT ![t] = @ - 1]
    /\ UNCHANGED readers

GetShared(t) ==
    /\ t \notin readers
    /\ \A u \in Threads : depth[u] = 0
    /\ readers' = readers \union {t}
    /\ UNCHANGED depth

DropShared(t) ==
    /\ t \in readers
    /\ readers' = readers \ {t}
    /\ UNCHANGED depth

SpecNext ==
    \E t \in Threads :
        GetExclusive(t) \/ DropExclusive(t) \/ GetShared(t) \/ DropShared(t)

SpecSpec == SpecInit /\ [][SpecNext]_specVars
=============================================================================
