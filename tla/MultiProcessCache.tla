------------------------- MODULE MultiProcessCache -------------------------
(***************************************************************************)
(* MultiProcessCache of bb/cache.py, the base of the code parser's cache   *)
(* and of the file checksum cache: parser processes each leave what they   *)
(* have added in a file of their own (save_extras), one process merges     *)
(* these files into the cache file (save_merge).                           *)
(*                                                                         *)
(* The lock cachefile.lock is taken one system call at a time, as LockFile *)
(* has it, the locks cachefile.lock.i of the files cachefile-i in one step *)
(* of FileLock, which LockFile implements.  An entry stands for a parsed   *)
(* text and its result, which the text determines.                         *)
(***************************************************************************)
EXTENDS LockFile

CONSTANTS
    MaxSlot,    \* bound on the numbers i of the files cachefile-i
    Pid,        \* the process id, where a process starts to look for a free i
    Entry       \* what the cache may hold

Glf  == "cachefile.lock"
Slot == 1 .. MaxSlot

ASSUME SlotAssumption == Name = {Glf} /\ MaxSlot \in Nat /\ Pid \in [Process -> Slot]

VARIABLES
    cachefile,          \* the cache file
    extras,             \* extras[i]: the file cachefile-i
    cachedata,          \* cachedata[p]: what p has read, or inherited, or merged
    cachedata_extras,   \* cachedata_extras[p]: what p has added
    slot,               \* slot[p]: the i of p's save_extras
    held,               \* held[i][p]: how p holds cachefile.lock.i
    todo,               \* the files save_merge has listed and not read yet
    have_data,          \* save_merge has read a file
    pc                  \* pc[p]: where p stands in the calls of the cache

fileVars  == <<cachefile, extras>>
memVars   == <<cachedata, cachedata_extras>>
slotVars  == <<slot, held>>
mergeVars == <<todo, have_data>>
storeVars == <<lockVars, fileVars, memVars, slotVars, mergeVars>>
cacheVars == <<storeVars, pc>>

SlotLock == INSTANCE FileLock WITH Name <- Slot, hold <- held

\* A file is missing, created, cut short in the middle of a pickle, or whole.
NoFile   == [is |-> "absent", data |-> {}]
Empty    == [is |-> "empty", data |-> {}]
Torn     == [is |-> "torn", data |-> {}]
Whole(S) == [is |-> "whole", data |-> S]
Files    == {NoFile, Empty, Torn} \cup {Whole(S) : S \in SUBSET Entry}

SavePlaces  == {"save", "shared", "slot", "mine", "dump", "saved"}
MergePlaces == {"merge", "alone", "load", "write", "merged", "raised"}
InitPlaces  == {"init", "read", "loaded"}

\* What is there when a server starts: a cache file whose writer may have been
\* killed, and at most one file, of a process that was killed, to be merged.
CacheInit(leftovers, pids) ==
    /\ LockInit
    /\ cachefile \in {Whole(leftovers)} \cup IF pids = {} THEN {} ELSE {Torn}
    /\ \/ extras = [i \in Slot |-> NoFile]
       \/ \E j \in pids : \E f \in {Empty, Torn, Whole(leftovers)} :
              extras = [i \in Slot |-> IF i = j THEN f ELSE NoFile]
    /\ cachedata = [p \in Process |-> {}]
    /\ cachedata_extras = [p \in Process |-> {}]
    /\ slot = Pid
    /\ SlotLock!Init
    /\ todo = {}
    /\ have_data = FALSE

GoesTo(p, place) == pc' = [pc EXCEPT ![p] = place]

\* p is in the middle of lockfile or unlockfile.
Locking(p) ==
    /\ \E n \in Name : LockStep(n, p) \/ UnlockStep(n, p)
    /\ UNCHANGED <<fileVars, memVars, slotVars, mergeVars, pc>>

-----------------------------------------------------------------------------
(* Mutants.                                                                *)

\* A file that is already there is not looked for.
Bug_TakeAnySlot(p) ==
    /\ pc[p] = "mine"
    /\ extras' = [extras EXCEPT ![slot[p]] = Empty]
    /\ GoesTo(p, "dump")
    /\ UNCHANGED <<lockVars, cachefile, memVars, slotVars, mergeVars>>

\* The files are merged without the lock that keeps the writers out.
Bug_MergeShared(p) ==
    /\ pc[p] = "merge"
    /\ Call(Glf, p, Shared)
    /\ GoesTo(p, "alone")
    /\ UNCHANGED <<fileVars, memVars, slotVars, mergeVars>>

-----------------------------------------------------------------------------
(* init_cache.                                                             *)

InitCache(p) ==
    /\ pc[p] = "init"
    /\ Call(Glf, p, Exclusive)
    /\ GoesTo(p, "read")
    /\ UNCHANGED <<fileVars, memVars, slotVars, mergeVars>>

\* Any exception means an empty cache.
ReadCache(p) ==
    /\ pc[p] = "read"
    /\ at[Glf][p] = "held"
    /\ cachedata' = [cachedata EXCEPT ![p] = IF cachefile.is = "whole" THEN cachefile.data ELSE {}]
    /\ CallUnlock(Glf, p)
    /\ GoesTo(p, "loaded")
    /\ UNCHANGED <<fileVars, cachedata_extras, slotVars, mergeVars>>

-----------------------------------------------------------------------------
(* save_extras.                                                            *)

SaveExtras(p) ==
    /\ pc[p] = "save"
    /\ IF cachedata_extras[p] = {}
       THEN GoesTo(p, "saved") /\ UNCHANGED lockVars
       ELSE Call(Glf, p, Shared) /\ GoesTo(p, "shared")
    /\ UNCHANGED <<fileVars, memVars, slotVars, mergeVars>>

LookForSlot(p) ==
    /\ pc[p] = "shared"
    /\ at[Glf][p] = "held"
    /\ GoesTo(p, "slot")
    /\ UNCHANGED <<lockVars, fileVars, memVars, slotVars, mergeVars>>

TakeSlot(p) ==
    /\ pc[p] = "slot"
    /\ SlotLock!Acquire(slot[p], p, "EX")
    /\ GoesTo(p, "mine")
    /\ UNCHANGED <<lockVars, fileVars, memVars, slot, mergeVars>>

\* lockfile with retry = False returns None when it meets another process on
\* its way to or from the lock, too.
SlotRefused(p) ==
    /\ pc[p] = "slot"
    /\ \E q \in Process \ {p} : slot[q] = slot[p] /\ pc[q] \in {"slot", "mine", "dump"}
    /\ slot[p] < MaxSlot
    /\ slot' = [slot EXCEPT ![p] = slot[p] + 1]
    /\ UNCHANGED <<lockVars, fileVars, memVars, held, mergeVars, pc>>

\* cachefile-i exists: the lock is given back, and i = i + 1.
SlotTaken(p) ==
    /\ pc[p] = "mine"
    /\ extras[slot[p]] # NoFile
    /\ slot[p] < MaxSlot
    /\ SlotLock!Release(slot[p], p)
    /\ slot' = [slot EXCEPT ![p] = slot[p] + 1]
    /\ GoesTo(p, "slot")
    /\ UNCHANGED <<lockVars, fileVars, memVars, mergeVars>>

CreateExtras(p) ==
    /\ pc[p] = "mine"
    /\ extras[slot[p]] = NoFile
    /\ extras' = [extras EXCEPT ![slot[p]] = Empty]
    /\ GoesTo(p, "dump")
    /\ UNCHANGED <<lockVars, cachefile, memVars, slotVars, mergeVars>>

DumpExtras(p) ==
    /\ pc[p] = "dump"
    /\ extras' = [extras EXCEPT ![slot[p]] = Whole(cachedata_extras[p])]
    /\ SlotLock!Release(slot[p], p)
    /\ CallUnlock(Glf, p)
    /\ GoesTo(p, "saved")
    /\ UNCHANGED <<cachefile, memVars, slot, mergeVars>>

SaveStep(p) ==
    \/ SaveExtras(p) \/ LookForSlot(p) \/ TakeSlot(p) \/ SlotRefused(p) \/ SlotTaken(p)
    \/ CreateExtras(p) \/ DumpExtras(p)

-----------------------------------------------------------------------------
(* save_merge.                                                             *)

SaveMerge(p) ==
    /\ pc[p] = "merge"
    /\ Call(Glf, p, Exclusive)
    /\ GoesTo(p, "alone")
    /\ UNCHANGED <<fileVars, memVars, slotVars, mergeVars>>

ListExtras(p) ==
    /\ pc[p] = "alone"
    /\ at[Glf][p] = "held"
    /\ todo' = {i \in Slot : extras[i] # NoFile}
    /\ have_data' = FALSE
    /\ GoesTo(p, "load")
    /\ UNCHANGED <<lockVars, fileVars, memVars, slotVars>>

\* An empty file raises EOFError and is removed.
LoadExtras(p) ==
    /\ pc[p] = "load" /\ todo # {}
    /\ \E i \in todo :
           /\ extras[i].is # "torn"
           /\ todo' = todo \ {i}
           /\ have_data' = (have_data \/ extras[i].is = "whole")
           /\ cachedata' = [cachedata EXCEPT ![p] = @ \cup extras[i].data]
           /\ extras' = [extras EXCEPT ![i] = NoFile]
    /\ UNCHANGED <<lockVars, cachefile, cachedata_extras, slotVars, pc>>

\* UnpicklingError, which nobody expects: the lock file is closed as the
\* exception leaves save_merge, and the torn file stays.
LoadRaises(p) ==
    /\ pc[p] = "load"
    /\ \E i \in todo : extras[i].is = "torn"
    /\ CloseHeld(Glf, p)
    /\ todo' = {}
    /\ GoesTo(p, "raised")
    /\ UNCHANGED <<fileVars, memVars, slotVars, have_data>>

NothingToMerge(p) ==
    /\ pc[p] = "load" /\ todo = {} /\ ~have_data
    /\ CallUnlock(Glf, p)
    /\ GoesTo(p, "merged")
    /\ UNCHANGED <<fileVars, memVars, slotVars, mergeVars>>

TruncateCache(p) ==
    /\ pc[p] = "load" /\ todo = {} /\ have_data
    /\ cachefile' = Empty
    /\ GoesTo(p, "write")
    /\ UNCHANGED <<lockVars, extras, memVars, slotVars, mergeVars>>

WriteCache(p) ==
    /\ pc[p] = "write"
    /\ cachefile' = Whole(cachedata[p])
    /\ CallUnlock(Glf, p)
    /\ GoesTo(p, "merged")
    /\ UNCHANGED <<extras, memVars, slotVars, mergeVars>>

MergeStep(p) ==
    \/ SaveMerge(p) \/ ListExtras(p) \/ LoadExtras(p) \/ LoadRaises(p)
    \/ NothingToMerge(p) \/ TruncateCache(p) \/ WriteCache(p)

-----------------------------------------------------------------------------
\* The last unlockfile has returned.
NoLockCall(p) == at[Glf][p] = "idle"

\* p ends in the middle of a call.  What it was writing is cut off somewhere.
CallCutOff(p) ==
    /\ LocksGone(p)
    /\ SlotLock!Gone(p)
    /\ IF pc[p] = "dump"
       THEN \E f \in {Empty, Torn} : extras' = [extras EXCEPT ![slot[p]] = f]
       ELSE extras' = extras
    /\ UNCHANGED <<cachefile, memVars, slot, mergeVars>>

=============================================================================
