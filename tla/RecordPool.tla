----------------------------- MODULE RecordPool -----------------------------
(***************************************************************************)
(* What the cached list of FragExt.Lib/CacheList.h promises its users: a   *)
(* record is with one user at a time, until that user gives it back.  A    *)
(* user may go away empty-handed: it falls back to the heap.               *)
(***************************************************************************)
CONSTANTS
    Users,      \* those who take and give back records
    Records     \* the records of the cache

VARIABLE out    \* out[u]: the records that u has taken

TypeOK == out \in [Users -> SUBSET Records]

Init == out = [u \in Users |-> {}]

Take(u, r) ==
    /\ \A v \in Users : r \notin out[v]
    /\ out' = [out EXCEPT ![u] = @ \union {r}]

Give(u, r) ==
    /\ r \in out[u]
    /\ out' = [out EXCEPT ![u] = @ \ {r}]

Next == \E u \in Users, r \in Records : Take(u, r) \/ Give(u, r)

Spec == Init /\ [][Next]_out
=============================================================================
