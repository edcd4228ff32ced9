-------------------------- MODULE LockFile_proofs --------------------------
(***************************************************************************)
(* Proofs about LockFile, for any names, processes and inodes: two         *)
(* processes hold a lock together only when both hold it shared, the file  *)
(* of a held lock is the one behind its name, and the calls implement      *)
(* FileLock.                                                               *)
(***************************************************************************)
EXTENDS LockFile, TLAPS

-----------------------------------------------------------------------------
(* The inductive invariant: what is open and locked where, and that the    *)
(* kernel has granted no two locks that conflict.  HeldIsNamed needs it,   *)
(* for who unlinks must be alone with the file it has locked; and          *)
(* MutualExclusion needs HeldIsNamed, for only locks on the same inode     *)
(* exclude each other.                                                     *)

OpenFiles ==
    \A n \in Name : \A p \in Process :
        IF at[n][p] \in {"idle", "open"} THEN fd[n][p] = NoInode ELSE fd[n][p] \in Inode

Flocks ==
    \A n \in Name : \A p \in Process :
        /\ at[n][p] \in {"idle", "open", "flock"} => flk[n][p] = "none"
        /\ at[n][p] \in {"check", "held", "promote"} => flk[n][p] = call[n][p].op
        /\ at[n][p] = "unlink" => flk[n][p] = "EX"

NoConflict ==
    \A n \in Name : \A p, q \in Process :
        p # q /\ fd[n][p] = fd[n][q] /\ flk[n][p] = "EX" => flk[n][q] = "none"

LockInv == LockTypeOK /\ OpenFiles /\ Flocks /\ HeldIsNamed /\ NoConflict

\* Nothing is open or locked at first.
LEMMA InvInit == LockInit => LockInv
BY InodeAssumption
DEF LockInit, LockInv, LockTypeOK, OpenFiles, Flocks, HeldIsNamed, NoConflict,
    Calls, Exclusive, Places

\* The calls of lockfile.
LEMMA InvLock ==
    ASSUME LockInv, NEW n \in Name, NEW p \in Process,
           (\E c \in Calls : Call(n, p, c)) \/ LockStep(n, p)
    PROVE  LockInv'
<1> USE InodeAssumption DEF LockInv, LockTypeOK, OpenFiles, Flocks, HeldIsNamed, NoConflict,
        Places, Goto, Close
<1>ops. \A c \in Calls : c.op \in {"SH", "EX"}
  BY DEF Calls
<1>1. ASSUME NEW c \in Calls, Call(n, p, c)
      PROVE  LockInv'
  BY <1>1 DEF Call
<1>2. CASE Open(n, p)
  <2>1. PICK i \in Inode : /\ i = file[n] \/ file[n] = NoInode
                           /\ file' = [file EXCEPT ![n] = i]
                           /\ fd' = [fd EXCEPT ![n][p] = i]
    <3>1. file[n] \in Inode \cup {NoInode}
      OBVIOUS
    <3> QED  BY <1>2, <3>1 DEF Open, Unused
  <2>2. at[n][p] = "open" /\ at' = [at EXCEPT ![n][p] = "flock"] /\ flk' = flk /\ call' = call
    BY <1>2 DEF Open
  <2>3. LockTypeOK' /\ OpenFiles' /\ Flocks'
    BY <2>1, <2>2
  <2>4. HeldIsNamed'
    BY <2>1, <2>2
  <2>5. NoConflict'
    BY <2>1, <2>2
  <2> QED  BY <2>3, <2>4, <2>5
<1>3. CASE FlockGranted(n, p)
  <2>1. LockTypeOK' /\ OpenFiles' /\ Flocks' /\ HeldIsNamed'
    BY <1>3, <1>ops DEF FlockGranted
  <2>2. \A q \in Process \ {p} :
            \/ fd[n][q] # fd[n][p]
            \/ flk[n][q] = "none"
            \/ call[n][p].op = "SH" /\ flk[n][q] = "SH"
    BY <1>3 DEF FlockGranted, Grantable
  <2>3. flk' = [flk EXCEPT ![n][p] = call[n][p].op] /\ fd' = fd
    BY <1>3 DEF FlockGranted
  <2>4. NoConflict'
    BY <2>2, <2>3
  <2> QED  BY <2>1, <2>4
<1>4. CASE FlockRefused(n, p)
  BY <1>4 DEF FlockRefused
<1>5. CASE CheckSame(n, p)
  BY <1>5 DEF CheckSame
<1>6. CASE CheckOther(n, p)
  BY <1>6 DEF CheckOther
<1> QED  BY <1>1, <1>2, <1>3, <1>4, <1>5, <1>6 DEF LockStep

\* The calls of unlockfile, and what else happens to a lock that is held.
LEMMA InvUnlock ==
    ASSUME LockInv, NEW n \in Name, NEW p \in Process,
           CallUnlock(n, p) \/ UnlockStep(n, p) \/ CloseHeld(n, p)
    PROVE  LockInv'
<1> USE InodeAssumption DEF LockInv, LockTypeOK, OpenFiles, Flocks, HeldIsNamed, NoConflict,
        Places, Goto, Close
<1>1. CASE CallUnlock(n, p)
  BY <1>1 DEF CallUnlock
<1>2. CASE Promote(n, p)
  <2>1. LockTypeOK' /\ OpenFiles' /\ Flocks' /\ HeldIsNamed'
    <3>1. PICK place \in {"unlink", "unlock"} :
              /\ at[n][p] = "promote" /\ at' = [at EXCEPT ![n][p] = place]
              /\ flk' = [flk EXCEPT ![n][p] = IF place = "unlink" THEN "EX" ELSE "none"]
              /\ file' = file /\ fd' = fd /\ call' = call
      BY <1>2 DEF Promote
    <3>2. LockTypeOK' /\ OpenFiles' /\ HeldIsNamed'
      BY <3>1
    <3>3. Flocks'
      BY <3>1
    <3> QED  BY <3>2, <3>3
  <2>2. CASE Grantable(n, p, "EX")
    <3>1. \A q \in Process \ {p} : fd[n][q] # fd[n][p] \/ flk[n][q] = "none"
      BY <2>2 DEF Grantable
    <3>2. flk' = [flk EXCEPT ![n][p] = "EX"] /\ fd' = fd
      BY <1>2, <2>2 DEF Promote
    <3>3. NoConflict'
      BY <3>1, <3>2
    <3> QED  BY <2>1, <3>3
  <2>3. CASE ~Grantable(n, p, "EX")
    <3>1. flk' = [flk EXCEPT ![n][p] = "none"] /\ fd' = fd
      BY <1>2, <2>3 DEF Promote
    <3>2. NoConflict'
      BY <3>1
    <3> QED  BY <2>1, <3>2
  <2> QED  BY <2>2, <2>3
<1>3. CASE Unlink(n, p)
  <2>1. LockTypeOK' /\ OpenFiles' /\ Flocks' /\ NoConflict'
    BY <1>3 DEF Unlink
  <2>2. ASSUME NEW q \in Process, at[n][q] \in {"held", "promote", "unlink"}, q # p
        PROVE  FALSE
    <3>1. fd[n][q] = fd[n][p] /\ flk[n][p] = "EX"
      BY <1>3, <2>2 DEF Unlink
    <3>2. flk[n][q] \in {"SH", "EX"}
      BY <2>2 DEF Calls
    <3> QED  BY <2>2, <3>1, <3>2
  <2>3. HeldIsNamed'
    BY <1>3, <2>2 DEF Unlink
  <2> QED  BY <2>1, <2>3
<1>4. CASE Unlock(n, p)
  BY <1>4 DEF Unlock
<1>5. CASE CloseHeld(n, p)
  BY <1>5 DEF CloseHeld
<1> QED  BY <1>1, <1>2, <1>3, <1>4, <1>5 DEF UnlockStep

\* A child inherits a lock.
LEMMA InvHandOver ==
    ASSUME LockInv, NEW n \in Name, NEW p \in Process, NEW q \in Process, HandOver(n, p, q)
    PROVE  LockInv'
<1> USE InodeAssumption DEF LockInv, LockTypeOK, OpenFiles, Flocks, HeldIsNamed, NoConflict, Places
<1>1. p # q
  BY DEF HandOver
<1>2. LockTypeOK'
  BY DEF HandOver
<1>3. OpenFiles' /\ Flocks' /\ HeldIsNamed'
  BY <1>1 DEF HandOver
<1>4. NoConflict'
  BY <1>1 DEF HandOver
<1> QED  BY <1>2, <1>3, <1>4

\* A process ends.
LEMMA InvGone ==
    ASSUME LockInv, NEW p \in Process, LocksGone(p)
    PROVE  LockInv'
BY InodeAssumption
DEF LocksGone, LockInv, LockTypeOK, OpenFiles, Flocks, HeldIsNamed, NoConflict, Places

LEMMA InvStep == LockInv /\ [LockNext]_lockVars => LockInv'
<1> SUFFICES ASSUME LockInv, [LockNext]_lockVars
             PROVE  LockInv'
  OBVIOUS
<1>1. CASE UNCHANGED lockVars
  BY <1>1 DEF lockVars, LockInv, LockTypeOK, OpenFiles, Flocks, HeldIsNamed, NoConflict
<1> QED  BY <1>1, InvLock, InvUnlock, InvHandOver, InvGone DEF LockNext

LEMMA InvAlways == LockSpec => []LockInv
BY InvInit, InvStep, PTL DEF LockSpec

-----------------------------------------------------------------------------
(* What follows from it.                                                   *)

\* Two holders of one lock have locked the same inode, and the kernel grants
\* such locks together only if both are shared.
LEMMA HoldersShare ==
    ASSUME LockInv, NEW n \in Name, NEW p \in Process, NEW q \in Process, p # q,
           at[n][p] \in {"check", "held"}, fd[n][p] = file[n], at[n][q] = "held"
    PROVE  call[n][p].op = "SH" /\ call[n][q].op = "SH"
<1>1. fd[n][p] = fd[n][q]
  BY DEF LockInv, HeldIsNamed
<1>2. flk[n][p] = call[n][p].op /\ flk[n][q] = call[n][q].op
  BY DEF LockInv, Flocks
<1>3. call[n][p].op \in {"SH", "EX"} /\ call[n][q].op \in {"SH", "EX"}
  BY DEF LockInv, LockTypeOK, Calls
<1> QED  BY <1>1, <1>2, <1>3 DEF LockInv, NoConflict

\* The files, the locks and the places keep their types.
THEOREM LockTypesCorrect == LockSpec => []LockTypeOK
BY InvAlways, PTL DEF LockInv

\* No unlockfile removes the file of a lock that another process holds.
THEOREM NamedCorrect == LockSpec => []HeldIsNamed
BY InvAlways, PTL DEF LockInv

\* A lock asked for alone is held alone.
THEOREM ExclusionCorrect == LockSpec => []MutualExclusion
<1>1. LockInv => MutualExclusion
  BY HoldersShare DEF MutualExclusion, LockInv, HeldIsNamed
<1> QED  BY <1>1, InvAlways, PTL

-----------------------------------------------------------------------------
(* The calls implement FileLock.                                           *)

\* Who holds what, as FileLock sees it.
Holds == [n \in Name |-> [p \in Process |->
            IF at[n][p] = "held" THEN call[n][p].op ELSE "none"]]

Hold == {"none", "SH", "EX"}

\* Functions of a name and a process that agree everywhere are equal.
LEMMA ByName ==
    ASSUME NEW F \in [Name -> [Process -> Hold]], NEW G \in [Name -> [Process -> Hold]],
           \A m \in Name : \A q \in Process : F[m][q] = G[m][q]
    PROVE  F = G
<1>1. ASSUME NEW m \in Name
      PROVE  F[m] = G[m]
  <2>1. F[m] \in [Process -> Hold] /\ G[m] \in [Process -> Hold]
    OBVIOUS
  <2>2. \A q \in Process : F[m][q] = G[m][q]
    OBVIOUS
  <2> QED  BY <2>1, <2>2
<1> QED  BY <1>1

\* What an update of one value is elsewhere.
LEMMA Updated ==
    ASSUME NEW F \in [Name -> [Process -> Hold]], NEW n \in Name, NEW p \in Process,
           NEW v \in Hold
    PROVE  /\ [F EXCEPT ![n][p] = v] \in [Name -> [Process -> Hold]]
           /\ \A m \in Name : \A q \in Process :
                  [F EXCEPT ![n][p] = v][m][q] = IF m = n /\ q = p THEN v ELSE F[m][q]
OBVIOUS

\* The values of Holds, before and after a step that keeps the types.
LEMMA HoldsValues ==
    ASSUME LockTypeOK
    PROVE  /\ Holds \in [Name -> [Process -> Hold]]
           /\ \A m \in Name : \A q \in Process :
                  Holds[m][q] = IF at[m][q] = "held" THEN call[m][q].op ELSE "none"
BY DEF LockTypeOK, Holds, Hold, Calls

LEMMA HoldsValuesAfter ==
    ASSUME LockTypeOK'
    PROVE  /\ Holds' \in [Name -> [Process -> Hold]]
           /\ \A m \in Name : \A q \in Process :
                  Holds'[m][q] = IF at'[m][q] = "held" THEN call'[m][q].op ELSE "none"
BY DEF LockTypeOK, Holds, Hold, Calls

\* A step after which a process holds what it held is none of FileLock's.
LEMMA SameHolders ==
    ASSUME LockTypeOK, NEW n \in Name, NEW p \in Process,
           at[n][p] # "held",
           NEW place \in Places \ {"held"}, at' = [at EXCEPT ![n][p] = place],
           NEW c \in Calls, call' = call \/ call' = [call EXCEPT ![n][p] = c]
    PROVE  Holds' = Holds
<1>1. ASSUME NEW m \in Name, NEW q \in Process
      PROVE  (at'[m][q] = "held" <=> at[m][q] = "held") /\
             (at[m][q] = "held" => call'[m][q] = call[m][q])
  <2>1. CASE m = n /\ q = p
    BY <2>1 DEF LockTypeOK
  <2>2. CASE ~(m = n /\ q = p)
    BY <2>2 DEF LockTypeOK
  <2> QED  BY <2>1, <2>2
<1> QED  BY <1>1 DEF Holds

\* One process comes to hold, or no longer holds, one name.
LEMMA OneHolder ==
    ASSUME LockTypeOK, LockTypeOK', NEW n \in Name, NEW p \in Process, call' = call,
           NEW place \in Places, at' = [at EXCEPT ![n][p] = place],
           NEW v \in Hold, v = IF place = "held" THEN call[n][p].op ELSE "none"
    PROVE  Holds' = [Holds EXCEPT ![n][p] = v]
<1>1. ASSUME NEW m \in Name, NEW q \in Process
      PROVE  at'[m][q] = IF m = n /\ q = p THEN place ELSE at[m][q]
  BY DEF LockTypeOK
<1>2. \A m \in Name : \A q \in Process : Holds'[m][q] = IF m = n /\ q = p THEN v ELSE Holds[m][q]
  BY <1>1, HoldsValues, HoldsValuesAfter
<1> QED  BY <1>2, HoldsValues, HoldsValuesAfter, Updated, ByName

\* A call that has found its file behind the name acquires the lock.
LEMMA CheckAcquires ==
    ASSUME LockInv, LockInv', NEW n \in Name, NEW p \in Process, CheckSame(n, p),
           NEW op, op = call[n][p].op
    PROVE  Promise!Acquire(n, p, op)
<1>0. op \in Hold
  BY DEF LockInv, LockTypeOK, Calls, Hold
<1>1. Holds' = [Holds EXCEPT ![n][p] = op]
  <2>1. at' = [at EXCEPT ![n][p] = "held"] /\ call' = call
    BY DEF CheckSame, Goto
  <2>2. "held" \in Places /\ LockTypeOK /\ LockTypeOK'
    BY DEF Places, LockInv
  <2>3. \A m \in Name : \A q \in Process :
            at'[m][q] = IF m = n /\ q = p THEN "held" ELSE at[m][q]
    BY <2>1, <2>2 DEF LockTypeOK
  <2>4. \A m \in Name : \A q \in Process :
            Holds'[m][q] = IF m = n /\ q = p THEN op ELSE Holds[m][q]
    BY <2>1, <2>2, <2>3, HoldsValues, HoldsValuesAfter
  <2> QED  BY <1>0, <2>2, <2>4, HoldsValues, HoldsValuesAfter, Updated, ByName
<1>2. Holds[n][p] = "none"
  BY DEF CheckSame, Holds
<1>3. ASSUME NEW q \in Process \ {p}
      PROVE  Holds[n][q] = "none" \/ (call[n][p].op = "SH" /\ Holds[n][q] = "SH")
  <2>1. CASE at[n][q] = "held"
    BY <2>1, HoldersShare DEF CheckSame, Holds
  <2>2. CASE at[n][q] # "held"
    BY <2>2 DEF Holds
  <2> QED  BY <2>1, <2>2
<1> QED  BY <1>1, <1>2, <1>3 DEF Promise!Acquire, Promise!Free, Holds

\* Every system call is a step of FileLock or changes nobody's hold.
LEMMA PromiseStep == LockInv /\ [LockNext]_lockVars => [Promise!Next]_Holds
<1> SUFFICES ASSUME LockInv, [LockNext]_lockVars
             PROVE  Promise!Next \/ Holds' = Holds
  OBVIOUS
<1>inv. LockInv'
  BY InvStep
<1>some. Exclusive \in Calls
  BY DEF Exclusive, Calls
<1>types. LockTypeOK /\ LockTypeOK' /\ \A n \in Name : \A p \in Process : call[n][p].op \in {"SH", "EX"}
  BY <1>inv DEF LockInv, LockTypeOK, Calls
<1>1. CASE UNCHANGED lockVars
  BY <1>1 DEF lockVars, Holds
<1>2. ASSUME NEW p \in Process, NEW n \in Name, NEW c \in Calls, Call(n, p, c)
      PROVE  Holds' = Holds
  BY <1>2, <1>types, SameHolders DEF Call, Goto, Places
<1>3. ASSUME NEW p \in Process, NEW n \in Name, LockStep(n, p)
      PROVE  Promise!Next \/ Holds' = Holds
  <2>1. CASE CheckSame(n, p)
    <3>1. PICK op \in {"SH", "EX"} : op = call[n][p].op
      BY <1>types
    <3>2. Promise!Acquire(n, p, op)
      BY <2>1, <1>inv, <3>1, CheckAcquires
    <3> QED  BY <3>2 DEF Promise!Next
  <2>2. CASE ~CheckSame(n, p)
    <3>1. PICK place \in {"open", "flock", "check", "idle"} :
              at' = [at EXCEPT ![n][p] = place] /\ at[n][p] # "held" /\ call' = call
      BY <1>3, <2>2 DEF LockStep, Open, FlockGranted, FlockRefused, CheckOther, Goto
    <3> QED  BY <3>1, <1>some, <1>types, SameHolders DEF Places
  <2> QED  BY <2>1, <2>2
<1>4. ASSUME NEW p \in Process, NEW n \in Name, UnlockStep(n, p)
      PROVE  Holds' = Holds
  <2>1. PICK place \in {"unlink", "unlock", "idle"} :
            at' = [at EXCEPT ![n][p] = place] /\ at[n][p] # "held" /\ call' = call
    BY <1>4 DEF UnlockStep, Promote, Unlink, Unlock, Goto
  <2> QED  BY <2>1, <1>some, <1>types, SameHolders DEF Places
<1>5. ASSUME NEW p \in Process, NEW n \in Name, CallUnlock(n, p) \/ CloseHeld(n, p)
      PROVE  Promise!Next
  <2>1. PICK place \in {"promote", "idle"} : at' = [at EXCEPT ![n][p] = place] /\ call' = call
    BY <1>5 DEF CallUnlock, CloseHeld, Goto
  <2>2. Holds' = [Holds EXCEPT ![n][p] = "none"]
    BY <2>1, <1>types, OneHolder DEF Places, Hold
  <2>3. Promise!Release(n, p)
    BY <2>2 DEF Promise!Release, Holds
  <2> QED  BY <2>3 DEF Promise!Next
<1>6. ASSUME NEW p \in Process, NEW n \in Name, NEW q \in Process, HandOver(n, p, q)
      PROVE  Promise!Next
  <2>1. Holds[n][p] # "none" /\ Holds[n][q] = "none"
    BY <1>6, <1>types DEF HandOver, Holds
  <2>2. Holds' = [Holds EXCEPT ![n][p] = "none", ![n][q] = Holds[n][p]]
    <3>1. \A m \in Name : \A r \in Process :
              /\ at'[m][r] = IF m = n /\ r = q THEN "held"
                             ELSE IF m = n /\ r = p THEN "idle" ELSE at[m][r]
              /\ call'[m][r] = IF m = n /\ r = q THEN call[n][p] ELSE call[m][r]
      BY <1>6, <1>types DEF HandOver, LockTypeOK
    <3>2. \A m \in Name : \A r \in Process :
              Holds'[m][r] = IF m = n /\ r = q THEN Holds[n][p]
                             ELSE IF m = n /\ r = p THEN "none" ELSE Holds[m][r]
      <4>1. at[n][p] = "held" /\ at[n][q] = "idle" /\ p # q
        BY <1>6 DEF HandOver
      <4> QED  BY <4>1, <1>types, <3>1, HoldsValues, HoldsValuesAfter
    <3> DEFINE G == [Holds EXCEPT ![n][p] = "none"]
    <3>3. /\ G \in [Name -> [Process -> Hold]]
          /\ \A m \in Name : \A r \in Process :
                 G[m][r] = IF m = n /\ r = p THEN "none" ELSE Holds[m][r]
      BY <1>types, HoldsValues, Updated DEF Hold
    <3>4. Holds[n][p] \in Hold
      BY <1>types, HoldsValues
    <3> HIDE DEF G
    <3>5. Holds' = [G EXCEPT ![n][q] = Holds[n][p]]
      BY <1>6, <1>types, <3>2, <3>3, <3>4, HoldsValues, HoldsValuesAfter, Updated, ByName
    <3> QED  BY <3>5, <1>types, HoldsValues DEF G
  <2>3. Promise!HandOver(n, p, q)
    BY <2>1, <2>2 DEF Promise!HandOver, Holds
  <2> QED  BY <2>3 DEF Promise!Next
<1>7. ASSUME NEW p \in Process, LocksGone(p)
      PROVE  Promise!Next
  <2>1. Holds' = [n \in Name |-> [Holds[n] EXCEPT ![p] = "none"]]
    <3>1. \A m \in Name : \A r \in Process :
              at'[m][r] = IF r = p THEN "idle" ELSE at[m][r]
      BY <1>7, <1>types DEF LocksGone, LockTypeOK
    <3>2. \A m \in Name : \A r \in Process :
              Holds'[m][r] = IF r = p THEN "none" ELSE Holds[m][r]
      BY <1>7, <1>types, <3>1, HoldsValues, HoldsValuesAfter DEF LocksGone
    <3> QED  BY <3>2, <1>types, HoldsValues, HoldsValuesAfter DEF Hold
  <2>2. Promise!Gone(p)
    BY <2>1 DEF Promise!Gone, Holds
  <2> QED  BY <2>2 DEF Promise!Next
<1> QED  BY <1>1, <1>2, <1>3, <1>4, <1>5, <1>6, <1>7 DEF LockNext

\* flock on a file that every release removes, with the inode looked at after
\* each lock, is a readers and writer lock.
THEOREM LocksExclude == LockSpec => Excludes
<1>1. LockInit => Promise!Init
  BY DEF LockInit, Promise!Init
<1>2. LockInv /\ [LockNext]_lockVars => [Promise!Next]_Holds
  BY PromiseStep
<1> QED
  BY <1>1, <1>2, InvAlways, PTL DEF LockSpec, Excludes, Promise!Spec, Holds

=============================================================================
