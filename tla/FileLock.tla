------------------------------ MODULE FileLock ------------------------------
(***************************************************************************)
(* What bb.utils.lockfile and unlockfile promise their callers: for each   *)
(* name a lock that any number of processes hold shared or one process     *)
(* holds alone.  How the promise is kept with flock(2) on a file that is   *)
(* removed on every release is the module LockFile.                        *)
(***************************************************************************)
CONSTANTS
    Name,       \* the names of the lock files
    Process     \* the processes that lock them

VARIABLE
    hold        \* hold[n][p]: how p holds n, "none", "SH" or "EX"

Init == hold = [n \in Name |-> [p \in Process |-> "none"]]

\* The lock can be had shared beside other shared holders, alone otherwise.
Free(n, p, op) ==
    \A q \in Process \ {p} : hold[n][q] = "none" \/ (op = "SH" /\ hold[n][q] = "SH")

Acquire(n, p, op) ==
    /\ hold[n][p] = "none"
    /\ Free(n, p, op)
    /\ hold' = [hold EXCEPT ![n][p] = op]

Release(n, p) == hold' = [hold EXCEPT ![n][p] = "none"]

\* A child inherits the open file and its parent closes it.
HandOver(n, p, q) ==
    /\ hold[n][p] # "none"
    /\ hold[n][q] = "none"
    /\ hold' = [hold EXCEPT ![n][p] = "none", ![n][q] = hold[n][p]]

\* A process that ends holds nothing any more.
Gone(p) == hold' = [n \in Name |-> [hold[n] EXCEPT ![p] = "none"]]

Next ==
    \E p \in Process :
        \/ \E n \in Name :
               \/ \E op \in {"SH", "EX"} : Acquire(n, p, op)
               \/ Release(n, p)
               \/ \E q \in Process : HandOver(n, p, q)
        \/ Gone(p)

Spec == Init /\ [][Next]_hold

=============================================================================
