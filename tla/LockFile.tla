------------------------------ MODULE LockFile ------------------------------
(***************************************************************************)
(* bb.utils.lockfile and unlockfile: locks made of flock(2) on a file that *)
(* the last holder unlinks.  Whoever waits for the lock of a file that is  *)
(* unlinked meanwhile gets the lock of a file without a name, which is why *)
(* the inode is compared with the one behind the name once the lock is     *)
(* had.  Programs that lock (MultiProcessCache, BitbakeServer) extend this *)
(* module and take its actions one system call at a time.                  *)
(*                                                                         *)
(* flock locks belong to an open file; each process has at most one open   *)
(* file per name.  An inode number is used again once nothing refers to    *)
(* it.  Linux converts a shared lock to an exclusive one in one step that  *)
(* gives the shared one up when it fails.                                  *)
(***************************************************************************)
EXTENDS Naturals

CONSTANTS
    Name,       \* the names of the lock files
    Process,    \* the processes that lock them
    Inode,      \* inode numbers the file system may give a lock file
    NoInode     \* no file

ASSUME InodeAssumption == NoInode \notin Inode

VARIABLES
    file,       \* file[n]: the inode behind the name n
    fd,         \* fd[n][p]: the inode of the file p has open for n
    flk,        \* flk[n][p]: the flock p has on it: "none", "SH" or "EX"
    call,       \* call[n][p]: the arguments of the last call of lockfile
    at          \* at[n][p]: the system call p is about to make

lockVars == <<file, fd, flk, call, at>>

\* shared; and whether the call waits (retry, or block) and starts again
\* (retry) when it got the lock of a file that is not the one behind the name.
Calls == [op : {"SH", "EX"}, block : BOOLEAN, retry : BOOLEAN]

Shared    == [op |-> "SH", block |-> FALSE, retry |-> TRUE]
Exclusive == [op |-> "EX", block |-> FALSE, retry |-> TRUE]
TryOnce   == [op |-> "EX", block |-> FALSE, retry |-> FALSE]

\* Between calls; the steps of lockfile; holding; the steps of unlockfile.
Places == {"idle", "open", "flock", "check", "held", "promote", "unlink", "unlock"}

LockInit ==
    /\ file = [n \in Name |-> NoInode]
    /\ fd = [n \in Name |-> [p \in Process |-> NoInode]]
    /\ flk = [n \in Name |-> [p \in Process |-> "none"]]
    /\ call = [n \in Name |-> [p \in Process |-> Exclusive]]
    /\ at = [n \in Name |-> [p \in Process |-> "idle"]]

\* flock(2): the lock op on p's open file conflicts with nobody's.
Grantable(n, p, op) ==
    \A q \in Process \ {p} :
        \/ fd[n][q] # fd[n][p]
        \/ flk[n][q] = "none"
        \/ op = "SH" /\ flk[n][q] = "SH"

Unused(n) == {i \in Inode : i # file[n] /\ \A p \in Process : fd[n][p] # i}

\* close(2) gives up the lock.
Close(n, p) ==
    /\ fd' = [fd EXCEPT ![n][p] = NoInode]
    /\ flk' = [flk EXCEPT ![n][p] = "none"]

Goto(n, p, place) == at' = [at EXCEPT ![n][p] = place]

-----------------------------------------------------------------------------
(* Mutants, each the form a plausible slip in the code would take.         *)

\* The lock is taken for good without a look at the inode.
Bug_NoInodeCheck(n, p) ==
    /\ at[n][p] = "check"
    /\ Goto(n, p, "held")
    /\ UNCHANGED <<file, fd, flk, call>>

-----------------------------------------------------------------------------
(* lockfile.                                                               *)

Call(n, p, c) ==
    /\ at[n][p] = "idle"
    /\ call' = [call EXCEPT ![n][p] = c]
    /\ Goto(n, p, "open")
    /\ UNCHANGED <<file, fd, flk>>

\* open(name, 'a+') creates the file when there is none.
Open(n, p) ==
    /\ at[n][p] = "open"
    /\ \E i \in IF file[n] = NoInode THEN Unused(n) ELSE {file[n]} :
           /\ file' = [file EXCEPT ![n] = i]
           /\ fd' = [fd EXCEPT ![n][p] = i]
    /\ Goto(n, p, "flock")
    /\ UNCHANGED <<flk, call>>

FlockGranted(n, p) ==
    /\ at[n][p] = "flock"
    /\ Grantable(n, p, call[n][p].op)
    /\ flk' = [flk EXCEPT ![n][p] = call[n][p].op]
    /\ Goto(n, p, "check")
    /\ UNCHANGED <<file, fd, call>>

\* With LOCK_NB the call returns None.
FlockRefused(n, p) ==
    /\ at[n][p] = "flock"
    /\ ~call[n][p].retry /\ ~call[n][p].block
    /\ ~Grantable(n, p, call[n][p].op)
    /\ Close(n, p)
    /\ Goto(n, p, "idle")
    /\ UNCHANGED <<file, call>>

CheckSame(n, p) ==
    /\ at[n][p] = "check"
    /\ fd[n][p] = file[n]
    /\ Goto(n, p, "held")
    /\ UNCHANGED <<file, fd, flk, call>>

\* The file is another one, or gone.
CheckOther(n, p) ==
    /\ at[n][p] = "check"
    /\ fd[n][p] # file[n]
    /\ Close(n, p)
    /\ Goto(n, p, IF call[n][p].retry THEN "open" ELSE "idle")
    /\ UNCHANGED <<file, call>>

LockStep(n, p) ==
    \/ Open(n, p)
    \/ FlockGranted(n, p) \/ FlockRefused(n, p)
    \/ CheckSame(n, p) \/ CheckOther(n, p)

-----------------------------------------------------------------------------
(* unlockfile.                                                             *)

CallUnlock(n, p) ==
    /\ at[n][p] = "held"
    /\ Goto(n, p, "promote")
    /\ UNCHANGED <<file, fd, flk, call>>

\* A failure is ignored and skips the unlink.
Promote(n, p) ==
    /\ at[n][p] = "promote"
    /\ IF Grantable(n, p, "EX")
       THEN flk' = [flk EXCEPT ![n][p] = "EX"] /\ Goto(n, p, "unlink")
       ELSE flk' = [flk EXCEPT ![n][p] = "none"] /\ Goto(n, p, "unlock")
    /\ UNCHANGED <<file, fd, call>>

\* Whatever file is behind the name now goes.
Unlink(n, p) ==
    /\ at[n][p] = "unlink"
    /\ file' = [file EXCEPT ![n] = NoInode]
    /\ Goto(n, p, "unlock")
    /\ UNCHANGED <<fd, flk, call>>

Unlock(n, p) ==
    /\ at[n][p] = "unlock"
    /\ Close(n, p)
    /\ Goto(n, p, "idle")
    /\ UNCHANGED <<file, call>>

UnlockStep(n, p) == Promote(n, p) \/ Unlink(n, p) \/ Unlock(n, p)

-----------------------------------------------------------------------------
(* What else happens to a lock that is held.                               *)

\* lf.close(): the lock is given up, the file stays.
CloseHeld(n, p) ==
    /\ at[n][p] = "held"
    /\ Close(n, p)
    /\ Goto(n, p, "idle")
    /\ UNCHANGED <<file, call>>

\* The open file is inherited by a child and closed by its parent.
HandOver(n, p, q) ==
    /\ at[n][p] = "held" /\ at[n][q] = "idle"
    /\ fd' = [fd EXCEPT ![n][p] = NoInode, ![n][q] = fd[n][p]]
    /\ flk' = [flk EXCEPT ![n][p] = "none", ![n][q] = flk[n][p]]
    /\ call' = [call EXCEPT ![n][q] = call[n][p]]
    /\ at' = [at EXCEPT ![n][p] = "idle", ![n][q] = "held"]
    /\ UNCHANGED file

\* The process ends, wherever it is: the kernel closes its files.
LocksGone(p) ==
    /\ fd' = [n \in Name |-> [fd[n] EXCEPT ![p] = NoInode]]
    /\ flk' = [n \in Name |-> [flk[n] EXCEPT ![p] = "none"]]
    /\ at' = [n \in Name |-> [at[n] EXCEPT ![p] = "idle"]]
    /\ UNCHANGED <<file, call>>

\* Everything a program may do with the locks.
LockNext ==
    \E p \in Process :
        \/ \E n \in Name :
               \/ \E c \in Calls : Call(n, p, c)
               \/ LockStep(n, p) \/ CallUnlock(n, p) \/ UnlockStep(n, p)
               \/ CloseHeld(n, p)
               \/ \E q \in Process : HandOver(n, p, q)
        \/ LocksGone(p)

LockSpec == LockInit /\ [][LockNext]_lockVars

-----------------------------------------------------------------------------
(* Properties                                                              *)

LockTypeOK ==
    /\ file \in [Name -> Inode \cup {NoInode}]
    /\ fd \in [Name -> [Process -> Inode \cup {NoInode}]]
    /\ flk \in [Name -> [Process -> {"none", "SH", "EX"}]]
    /\ call \in [Name -> [Process -> Calls]]
    /\ at \in [Name -> [Process -> Places]]

\* Two processes hold a lock at the same time only if both asked for it
\* shared, although the file they lock is unlinked and created again all the
\* time (lockfile, unlockfile).
MutualExclusion ==
    \A n \in Name : \A p, q \in Process :
        p # q /\ at[n][p] = "held" /\ at[n][q] = "held"
            => call[n][p].op = "SH" /\ call[n][q].op = "SH"

\* While a process holds a lock the file behind its name is the one it has
\* locked: no late unlinkfile of another process removes it.
HeldIsNamed ==
    \A n \in Name : \A p \in Process :
        at[n][p] \in {"held", "promote", "unlink"} => fd[n][p] = file[n]

\* The calls keep the promise of FileLock.
Promise == INSTANCE FileLock WITH
    hold <- [n \in Name |-> [p \in Process |->
                IF at[n][p] = "held" THEN call[n][p].op ELSE "none"]]

Excludes == Promise!Spec

=============================================================================
