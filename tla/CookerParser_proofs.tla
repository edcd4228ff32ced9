------------------------ MODULE CookerParser_proofs ------------------------
(***************************************************************************)
(* Proofs about CookerParser, for any parsers, recipes and scenes: its     *)
(* processes use the lock of the cache as LockFile allows, so what is      *)
(* proved of LockFile holds here, and a server that merges reads no file   *)
(* somebody is writing.  From this: what a parser has saved is kept, a     *)
(* parse that ends clean has cached what it parsed, and a parse is given   *)
(* up as dead only when a process was killed or stopped.                   *)
(***************************************************************************)
EXTENDS CookerParser, LockFile_proofs, FiniteSetTheorems

-----------------------------------------------------------------------------
(* Every step is a step of LockFile or leaves the locks alone.             *)

LEMMA Kinds == Shared \in Calls /\ Exclusive \in Calls /\ Glf \in Name
BY SlotAssumption DEF Shared, Exclusive, Calls

\* The system calls a process makes in the calls of the cache.
LEMMA CallsAreSteps ==
    ASSUME NEW p \in Process,
           \/ Call(Glf, p, Shared) \/ Call(Glf, p, Exclusive)
           \/ CallUnlock(Glf, p) \/ CloseHeld(Glf, p)
           \/ Locking(p) \/ CallCutOff(p)
    PROVE  LockNext
BY Kinds DEF LockNext, Locking, CallCutOff

LEMMA CacheSteps ==
    ASSUME NEW p \in Process,
           Locking(p) \/ InitCache(p) \/ ReadCache(p) \/ SaveStep(p) \/ MergeStep(p)
    PROVE  [LockNext]_lockVars
<1>1. CASE Locking(p) \/ InitCache(p) \/ ReadCache(p)
  BY <1>1, CallsAreSteps DEF InitCache, ReadCache
<1>2. CASE SaveStep(p)
  BY <1>2, CallsAreSteps
  DEF SaveStep, SaveExtras, LookForSlot, TakeSlot, SlotRefused, SlotTaken, CreateExtras, DumpExtras
<1>3. CASE MergeStep(p)
  BY <1>3, CallsAreSteps
  DEF MergeStep, SaveMerge, ListExtras, LoadExtras, LoadRaises, NothingToMerge, TruncateCache, WriteCache
<1> QED  BY <1>1, <1>2, <1>3

\* Only parsers are ever terminated.
ParsersOnly == processes \subseteq Parser

LEMMA ParsersAlways == Spec => []ParsersOnly
<1>1. Init => ParsersOnly
  BY DEF Init, ParsersOnly
<1>2. ParsersOnly /\ [Next]_vars => ParsersOnly'
  <2> SUFFICES ASSUME ParsersOnly, [Next]_vars PROVE ParsersOnly'
    OBVIOUS
  <2> USE DEF ParsersOnly, mainVars
  <2>1. CASE MainStep
    BY <2>1 DEF MainStep, Start, CheckAlive, GetTimesOut, GetResult, Drain, Interrupt, Terminate,
                Join, Merge, Finish
  <2>2. ASSUME NEW p \in Parser, ParserStep(p) \/ Killed(p) PROVE ParsersOnly'
    BY <2>2 DEF ParserStep, TakeJob, Parse, ParseInterrupted, LeaveLoop, Feed, JoinFeeder,
                Exit, ExitInterrupted, Killed, Ends
  <2>3. CASE Halt \/ UNCHANGED vars \/ \E o \in Other : OtherStep(o)
    BY <2>3 DEF Halt, OtherStep, vars
  <2> QED  BY <2>1, <2>2, <2>3 DEF Next
<1> QED  BY <1>1, <1>2, PTL DEF Spec

LEMMA NextLocks == ParsersOnly /\ [Next]_vars => [LockNext]_lockVars
<1> SUFFICES ASSUME ParsersOnly, [Next]_vars PROVE [LockNext]_lockVars
  OBVIOUS
<1> USE ParserAssumption
<1>1. ASSUME UNCHANGED cacheVars \/ UNCHANGED storeVars PROVE UNCHANGED lockVars
  BY <1>1 DEF cacheVars, storeVars
<1>2. CASE MainStep
  <2>1. CASE Start
    BY <2>1 DEF Start
  <2>2. CASE CheckAlive \/ GetTimesOut \/ GetResult \/ Drain \/ Interrupt \/ Join \/ Merge \/ Finish
    BY <1>1, <2>2 DEF CheckAlive, GetTimesOut, GetResult, Drain, Interrupt, Join, Merge, Finish
  <2>3. CASE Terminate
    BY <1>1, <2>3, CallsAreSteps DEF Terminate, Left, ParsersOnly
  <2>4. CASE Locking(Main) \/ InitCache(Main) \/ ReadCache(Main) \/ SaveStep(Main) \/ MergeStep(Main)
    BY <2>4, CacheSteps
  <2> QED  BY <1>2, <2>1, <2>2, <2>3, <2>4 DEF MainStep
<1>3. ASSUME NEW p \in Parser, ParserStep(p) \/ Killed(p) PROVE [LockNext]_lockVars
  <2>1. CASE TakeJob(p) \/ Parse(p) \/ ParseInterrupted(p) \/ LeaveLoop(p) \/ Feed(p) \/ JoinFeeder(p)
    BY <1>1, <2>1 DEF TakeJob, Parse, ParseInterrupted, LeaveLoop, Feed, JoinFeeder
  <2>2. CASE Exit(p) \/ ExitInterrupted(p) \/ Killed(p)
    BY <2>2, CallsAreSteps DEF Exit, ExitInterrupted, Killed, Ends
  <2>3. CASE Locking(p) \/ SaveStep(p)
    BY <2>3, CacheSteps
  <2> QED  BY <1>3, <2>1, <2>2, <2>3 DEF ParserStep
<1>4. ASSUME NEW o \in Other, OtherStep(o) PROVE [LockNext]_lockVars
  BY <1>1, <1>4, CacheSteps DEF OtherStep
<1>5. CASE Halt
  BY <1>1, <1>5 DEF Halt
<1>6. CASE UNCHANGED vars
  BY <1>1, <1>6 DEF vars
<1> QED  BY <1>2, <1>3, <1>4, <1>5, <1>6 DEF Next

\* The parse uses its lock as LockFile says.
THEOREM ParseLocks == Spec => LockSpec
<1>1. Init => LockInit
  BY DEF Init, CacheInit
<1> QED  BY <1>1, ParsersAlways, NextLocks, PTL DEF Spec, LockSpec

\* Nobody is in the way of a process that holds the lock of the cache alone.
THEOREM ParseExclusion == Spec => []MutualExclusion
BY ParseLocks, ExclusionCorrect, PTL

\* The lock of the cache is always held on the file of that name.
THEOREM ParseNamed == Spec => []HeldIsNamed
BY ParseLocks, NamedCorrect, PTL

\* The lock of the cache is a readers and writer lock.
THEOREM ParseExcludes == Spec => Excludes
BY ParseLocks, LocksExclude, PTL

-----------------------------------------------------------------------------
(* Merging and writing.  Between two calls of lockfile and unlockfile the  *)
(* place in save_extras or save_merge says how the lock is held.           *)

Writing == {"slot", "mine", "dump"}
Merging == {"load", "write"}

Holding ==
    \A p \in Process :
        /\ pc[p] \in Writing \cup Merging => at[Glf][p] = "held"
        /\ pc[p] \in {"shared"} \cup Writing => call[Glf][p].op = "SH"
        /\ pc[p] \in {"alone"} \cup Merging => call[Glf][p].op = "EX"

\* Every process is at some place.
PcTotal == pc = [p \in Process |-> pc[p]]

Functional == PcTotal /\ LockTypeOK /\ ParsersOnly

\* A step of one process, after which its place says how it holds the lock.
LEMMA HoldingStep ==
    ASSUME Functional, Holding, NEW p \in Process, NEW place, pc' = [pc EXCEPT ![p] = place],
           \A q \in Process \ {p} : at'[Glf][q] = at[Glf][q] /\ call'[Glf][q] = call[Glf][q],
           place \in Writing \cup Merging => at'[Glf][p] = "held",
           place \in {"shared"} \cup Writing => call'[Glf][p].op = "SH",
           place \in {"alone"} \cup Merging => call'[Glf][p].op = "EX"
    PROVE  Holding'
BY DEF Functional, Holding, PcTotal

\* What the calls do to the locks of the cache.
LEMMA CallEffect ==
    ASSUME LockTypeOK, NEW p \in Process, NEW c \in Calls, Call(Glf, p, c)
    PROVE  /\ call'[Glf][p] = c
           /\ \A q \in Process \ {p} : at'[Glf][q] = at[Glf][q] /\ call'[Glf][q] = call[Glf][q]
BY Kinds DEF LockTypeOK, Call, Goto

LEMMA UnlockEffect ==
    ASSUME LockTypeOK, NEW p \in Process,
           CallUnlock(Glf, p) \/ CloseHeld(Glf, p) \/ CallCutOff(p)
    PROVE  call' = call /\ \A q \in Process \ {p} : at'[Glf][q] = at[Glf][q]
BY Kinds DEF LockTypeOK, CallUnlock, CloseHeld, CallCutOff, LocksGone, Goto

LEMMA LockingEffect ==
    ASSUME LockTypeOK, NEW p \in Process, Locking(p)
    PROVE  /\ call' = call /\ pc' = pc
           /\ at[Glf][p] # "held"
           /\ \A q \in Process \ {p} : at'[Glf][q] = at[Glf][q]
<1>1. LockStep(Glf, p) \/ UnlockStep(Glf, p)
  BY SlotAssumption DEF Locking
<1> QED
  BY <1>1, Kinds
  DEF Locking, LockTypeOK, LockStep, UnlockStep, Open, FlockGranted, FlockRefused, CheckSame,
      CheckOther, Promote, Unlink, Unlock, Goto

\* The calls of the cache.
LEMMA HoldingCache ==
    ASSUME Functional, Holding, NEW p \in Process,
           Locking(p) \/ InitCache(p) \/ ReadCache(p) \/ SaveStep(p) \/ MergeStep(p)
    PROVE  Holding' /\ PcTotal'
<1> USE DEF GoesTo, Writing, Merging, PcTotal
<1>types. LockTypeOK /\ PcTotal
  BY DEF Functional
<1>kinds. Shared.op = "SH" /\ Exclusive.op = "EX"
  BY DEF Shared, Exclusive
<1>1. CASE Locking(p)
  BY <1>1, <1>types, LockingEffect DEF Holding
<1>2. ASSUME NEW place,  pc' = [pc EXCEPT ![p] = place],
             \/ Call(Glf, p, Shared) /\ place = "shared"
             \/ Call(Glf, p, Exclusive) /\ place \in {"read", "alone"}
      PROVE  Holding'
  BY <1>2, <1>types, <1>kinds, Kinds, CallEffect, HoldingStep
<1>3. ASSUME NEW place \in {"loaded", "saved", "raised", "merged"},  pc' = [pc EXCEPT ![p] = place],
             CallUnlock(Glf, p) \/ CloseHeld(Glf, p) \/ UNCHANGED lockVars
      PROVE  Holding'
  BY <1>3, <1>types, UnlockEffect, HoldingStep DEF lockVars
<1>4. ASSUME NEW place, pc' = [pc EXCEPT ![p] = place], UNCHANGED lockVars,
             \/ place \in Writing /\ pc[p] \in {"shared"} \cup Writing /\ at[Glf][p] = "held"
             \/ place \in Merging /\ pc[p] \in {"alone"} \cup Merging /\ at[Glf][p] = "held"
      PROVE  Holding'
  BY <1>4, HoldingStep DEF lockVars, Holding
<1>5. CASE InitCache(p) \/ ReadCache(p)
  BY <1>2, <1>3, <1>5, <1>types DEF InitCache, ReadCache
<1>6. CASE SaveStep(p)
  <2>1. CASE SaveExtras(p)
    BY <1>2, <1>3, <2>1, <1>types DEF SaveExtras
  <2>2. CASE LookForSlot(p) \/ TakeSlot(p) \/ SlotTaken(p) \/ CreateExtras(p)
    BY <1>4, <2>2, <1>types DEF LookForSlot, TakeSlot, SlotTaken, CreateExtras, Holding
  <2>3. CASE SlotRefused(p)
    BY <2>3, <1>types DEF SlotRefused, lockVars, Holding
  <2>4. CASE DumpExtras(p)
    BY <1>3, <2>4, <1>types DEF DumpExtras
  <2> QED  BY <1>6, <2>1, <2>2, <2>3, <2>4 DEF SaveStep
<1>7. CASE MergeStep(p)
  <2>1. CASE SaveMerge(p)
    BY <1>2, <2>1, <1>types DEF SaveMerge
  <2>2. CASE ListExtras(p) \/ TruncateCache(p)
    BY <1>4, <2>2, <1>types DEF ListExtras, TruncateCache, Holding
  <2>3. CASE LoadExtras(p)
    BY <2>3, <1>types DEF LoadExtras, lockVars, Holding
  <2>4. CASE LoadRaises(p) \/ NothingToMerge(p) \/ WriteCache(p)
    BY <1>3, <2>4, <1>types DEF LoadRaises, NothingToMerge, WriteCache
  <2> QED  BY <1>7, <2>1, <2>2, <2>3, <2>4 DEF MergeStep
<1> QED  BY <1>1, <1>5, <1>6, <1>7

\* The other steps move a process to a place where it need not hold the lock.
LEMMA HoldingMoves ==
    ASSUME Functional, Holding, NEW p \in Process,
           NEW place \in {"join", "save", "merge", "exited"},
           pc' = [pc EXCEPT ![p] = place],
           CallCutOff(p) \/ UNCHANGED lockVars
    PROVE  Holding' /\ PcTotal'
<1>1. \A q \in Process \ {p} : at'[Glf][q] = at[Glf][q] /\ call'[Glf][q] = call[Glf][q]
  BY UnlockEffect DEF Functional, lockVars
<1>2. Holding'
  BY <1>1, HoldingStep DEF Writing, Merging
<1> QED  BY <1>2 DEF Functional, PcTotal

MergeInv == Functional /\ Holding

LEMMA MergeInit == Init => Holding /\ PcTotal
<1> SUFFICES ASSUME Init PROVE Holding /\ PcTotal
  OBVIOUS
<1>1. pc = [p \in Process |-> CASE p = Main -> "init" [] p \in Parser -> "unborn"
                                 [] p \in scene.sharing -> "loaded" [] OTHER -> "out"]
  BY DEF Init
<1>2. \A p \in Process : pc[p] \in {"init", "unborn", "loaded", "out"}
  BY <1>1
<1> QED  BY <1>1, <1>2 DEF Holding, Writing, Merging, PcTotal

LEMMA MergeStepKeeps ==
    MergeInv /\ [Next]_vars => Holding' /\ PcTotal'
<1> SUFFICES ASSUME MergeInv, [Next]_vars
             PROVE  Holding' /\ PcTotal'
  OBVIOUS
<1> USE ParserAssumption DEF MergeInv, GoesTo, PcTotal
<1>1. ASSUME UNCHANGED cacheVars \/ UNCHANGED <<lockVars, pc>>
      PROVE  Holding' /\ PcTotal'
  BY <1>1 DEF cacheVars, storeVars, lockVars, Holding, Functional
<1>2. CASE MainStep
  <2>1. CASE Start
    <3>1. pc' = [p \in Process |-> CASE p = Main -> "out" [] p \in Parser -> "loop" [] OTHER -> pc[p]]
      BY <2>1 DEF Start
    <3>2. \A p \in Process : pc'[p] \in {"out", "loop"} \/ pc'[p] = pc[p]
      BY <3>1
    <3>3. at' = at /\ call' = call
      BY <2>1 DEF Start, lockVars
    <3> QED  BY <3>1, <3>2, <3>3 DEF Holding, Writing, Merging
  <2>2. CASE CheckAlive \/ GetTimesOut \/ GetResult \/ Drain \/ Interrupt \/ Finish
    BY <1>1, <2>2 DEF CheckAlive, GetTimesOut, GetResult, Drain, Interrupt, Finish
  <2>3. CASE Join \/ Merge
    BY <2>3, HoldingMoves DEF Join, Merge, storeVars
  <2>4. CASE Terminate
    BY <1>1, <2>4, HoldingMoves DEF Terminate, Left, Functional, ParsersOnly
  <2>5. CASE Locking(Main) \/ InitCache(Main) \/ ReadCache(Main) \/ SaveStep(Main) \/ MergeStep(Main)
    BY <2>5, HoldingCache
  <2> QED  BY <1>2, <2>1, <2>2, <2>3, <2>4, <2>5 DEF MainStep
<1>3. ASSUME NEW p \in Parser, ParserStep(p) \/ Killed(p)
      PROVE  Holding' /\ PcTotal'
  <2>1. CASE TakeJob(p) \/ Parse(p) \/ ParseInterrupted(p) \/ Feed(p)
    BY <1>1, <2>1 DEF TakeJob, Parse, ParseInterrupted, Feed
  <2>2. CASE LeaveLoop(p) \/ JoinFeeder(p)
    BY <2>2, HoldingMoves DEF LeaveLoop, JoinFeeder, storeVars
  <2>3. CASE Exit(p) \/ ExitInterrupted(p) \/ Killed(p)
    BY <2>3, HoldingMoves DEF Exit, ExitInterrupted, Killed, Ends
  <2>4. CASE Locking(p) \/ SaveStep(p)
    BY <2>4, HoldingCache
  <2> QED  BY <1>3, <2>1, <2>2, <2>3, <2>4 DEF ParserStep
<1>4. ASSUME NEW o \in Other, OtherStep(o)
      PROVE  Holding' /\ PcTotal'
  BY <1>4, HoldingCache, HoldingMoves DEF OtherStep, storeVars
<1>5. CASE Halt \/ UNCHANGED vars
  BY <1>1, <1>5 DEF Halt, vars
<1> QED  BY <1>2, <1>3, <1>4, <1>5 DEF Next

\* Who merges holds the lock alone, who writes holds it shared; so nobody
\* merges while another process writes or merges.
LEMMA AloneMeansWhole == Holding /\ MutualExclusion => MergeSeesWhole
<1> SUFFICES ASSUME Holding, MutualExclusion, NEW p \in Process, NEW q \in Process,
                    pc[p] \in Merging, p # q, pc[q] \in {"dump"} \cup Merging
             PROVE  FALSE
  BY DEF MergeSeesWhole, Merging
<1>1. at[Glf][p] = "held" /\ at[Glf][q] = "held" /\ call[Glf][p].op = "EX"
  BY DEF Holding, Writing
<1> QED  BY <1>1, Kinds DEF MutualExclusion

\* save_merge reads no file that a save_extras is writing, and no two servers
\* merge at once.
THEOREM MergeCorrect == Spec => []MergeSeesWhole
<1>1. Spec => []LockTypeOK
  BY ParseLocks, LockTypesCorrect, PTL
<1>2. Spec => [](Holding /\ PcTotal)
  <2>1. /\ LockTypeOK /\ ParsersOnly /\ Holding /\ PcTotal
        /\ [Next]_vars
        => Holding' /\ PcTotal'
    BY MergeStepKeeps DEF MergeInv, Functional
  <2> QED  BY <1>1, <2>1, ParsersAlways, MergeInit, PTL DEF Spec
<1> QED  BY <1>2, ParseExclusion, AloneMeansWhole, PTL
-----------------------------------------------------------------------------
(* Type correctness.                                                       *)

Results == [recipe : Recipe, ok : BOOLEAN]

CacheTypes ==
    /\ cachefile \in Files /\ extras \in [Slot -> Files]
    /\ cachedata \in [Process -> SUBSET Entry]
    /\ cachedata_extras \in [Process -> SUBSET Entry]
    /\ slot \in [Process -> Slot] /\ held \in [Slot -> [Process -> {"none", "EX"}]]
    /\ todo \subseteq Slot /\ have_data \in BOOLEAN

QueueTypes ==
    /\ scene \in Scenes
    /\ jobs \in [Parser -> Seq(Recipe)] /\ parsing \in [Parser -> Recipe \cup {None}]
    /\ buffer \in [Parser -> Seq(Results)]
    /\ pipe \in Seq(Results) /\ Len(pipe) <= PipeSize
    /\ signal \in [Parser -> BOOLEAN]

ServerTypes ==
    /\ got \subseteq Recipe /\ IsFiniteSet(got)
    /\ main \in MainPlaces
    /\ outcome \in {None, "clean", "died", "failed", "halted"}

PcTypes ==
    /\ PcTotal
    /\ \A p \in Parser : pc[p] \in SavePlaces \cup {"unborn", "loop", "join", "exited"}
    /\ \A p \in Process \ Parser : pc[p] \in {"out"} \cup InitPlaces \cup SavePlaces \cup MergePlaces

LEMMA FileKinds ==
    /\ NoFile \in Files /\ Empty \in Files /\ Torn \in Files
    /\ \A S \in SUBSET Entry : Whole(S) \in Files
    /\ \A f \in Files : f.data \in SUBSET Entry /\ (f.is # "whole" => f.data = {})
    /\ \A S : Whole(S).data = S /\ Whole(S).is = "whole"
    /\ NoFile.data = {} /\ Empty.data = {} /\ Torn.data = {}
    /\ NoFile.is = "absent" /\ Empty.is = "empty" /\ Torn.is = "torn"
<1>1. \A S \in SUBSET Entry : Whole(S).data = S /\ Whole(S).is = "whole"
  BY DEF Whole
<1>2. \A f \in Files : f \in {NoFile, Empty, Torn} \/ \E S \in SUBSET Entry : f = Whole(S)
  BY DEF Files
<1>3. /\ NoFile.data = {} /\ Empty.data = {} /\ Torn.data = {}
      /\ NoFile.is = "absent" /\ Empty.is = "empty" /\ Torn.is = "torn"
  BY DEF NoFile, Empty, Torn
<1>4. NoFile \in Files /\ Empty \in Files /\ Torn \in Files /\ \A S \in SUBSET Entry : Whole(S) \in Files
  BY DEF Files
<1>5. \A f \in Files : f.data \in SUBSET Entry /\ (f.is # "whole" => f.data = {})
  BY <1>1, <1>2, <1>3
<1>6. \A S : Whole(S).data = S /\ Whole(S).is = "whole"
  BY DEF Whole
<1> QED  BY <1>3, <1>4, <1>5, <1>6

LEMMA ScenesAre ==
    ASSUME NEW s \in Scenes
    PROVE  /\ s.jobs \in [Parser -> Seq(Recipe)] /\ s.pids \subseteq Slot /\ s.sharing \subseteq Other
BY ParserAssumption DEF SceneType

LEMMA Who ==
    /\ Parser \subseteq Process /\ Main \in Process /\ Other \subseteq Process
    /\ Main \notin Parser /\ Main \notin Other /\ Parser \cap Other = {}
    /\ Process \ Parser = {Main} \cup Other
BY ParserAssumption

LEMMA CacheInitTypes == Init => CacheTypes
<1> SUFFICES ASSUME Init PROVE CacheTypes
  OBVIOUS
<1>1. CacheInit(Old, scene.pids) /\ Old \subseteq Entry
  BY ParserAssumption DEF Init
<1>2. /\ cachefile \in Files
  BY <1>1, FileKinds DEF CacheInit
<1>3. extras \in [Slot -> Files]
  <2>1. CASE extras = [i \in Slot |-> NoFile]
    BY <2>1, FileKinds
  <2>2. ASSUME NEW j \in scene.pids, NEW f \in {Empty, Torn, Whole(Old)},
               extras = [i \in Slot |-> IF i = j THEN f ELSE NoFile]
        PROVE  extras \in [Slot -> Files]
    BY <1>1, <2>2, FileKinds
  <2> QED  BY <1>1, <2>1, <2>2 DEF CacheInit
<1>4. /\ cachedata \in [Process -> SUBSET Entry] /\ cachedata_extras \in [Process -> SUBSET Entry]
      /\ todo \subseteq Slot /\ have_data \in BOOLEAN
  BY <1>1 DEF CacheInit
<1>5. slot \in [Process -> Slot] /\ held \in [Slot -> [Process -> {"none", "EX"}]]
  BY <1>1, SlotAssumption DEF CacheInit, SlotLock!Init
<1> QED  BY <1>2, <1>3, <1>4, <1>5 DEF CacheTypes

\* What the calls of the cache do to its files.
LEMMA CacheTypesStep ==
    ASSUME CacheTypes, NEW p \in Process,
           Locking(p) \/ InitCache(p) \/ ReadCache(p) \/ SaveStep(p) \/ MergeStep(p)
    PROVE  CacheTypes'
<1> USE SlotAssumption, FileKinds DEF CacheTypes
<1>1. ASSUME UNCHANGED <<fileVars, memVars, slotVars, mergeVars>> PROVE CacheTypes'
  BY <1>1 DEF fileVars, memVars, slotVars, mergeVars
<1>2. CASE Locking(p) \/ InitCache(p) \/ SaveExtras(p) \/ LookForSlot(p) \/ SaveMerge(p) \/ NothingToMerge(p)
  BY <1>1, <1>2 DEF Locking, InitCache, SaveExtras, LookForSlot, SaveMerge, NothingToMerge
<1>3. CASE ReadCache(p)
  BY <1>3 DEF ReadCache, fileVars, slotVars, mergeVars
<1>4. CASE TakeSlot(p)
  BY <1>4 DEF TakeSlot, SlotLock!Acquire, fileVars, memVars, mergeVars
<1>5. CASE SlotRefused(p)
  BY <1>5 DEF SlotRefused, Slot, fileVars, memVars, mergeVars
<1>6. CASE SlotTaken(p)
  BY <1>6 DEF SlotTaken, SlotLock!Release, Slot, fileVars, memVars, mergeVars
<1>7. CASE CreateExtras(p)
  BY <1>7 DEF CreateExtras, memVars, slotVars, mergeVars
<1>8. CASE DumpExtras(p)
  BY <1>8 DEF DumpExtras, SlotLock!Release, memVars, mergeVars
<1>9. CASE ListExtras(p)
  BY <1>9 DEF ListExtras, fileVars, memVars, slotVars
<1>10. CASE LoadExtras(p)
  BY <1>10 DEF LoadExtras, slotVars
<1>11. CASE LoadRaises(p)
  BY <1>11 DEF LoadRaises, fileVars, memVars, slotVars
<1>12. CASE TruncateCache(p)
  BY <1>12 DEF TruncateCache, memVars, slotVars, mergeVars
<1>13. CASE WriteCache(p)
  BY <1>13 DEF WriteCache, memVars, slotVars, mergeVars
<1> QED
  BY <1>2, <1>3, <1>4, <1>5, <1>6, <1>7, <1>8, <1>9, <1>10, <1>11, <1>12, <1>13
     DEF SaveStep, MergeStep

LEMMA CutOffTypes ==
    ASSUME CacheTypes, NEW p \in Process, CallCutOff(p)
    PROVE  CacheTypes'
<1>1. UNCHANGED <<cachefile, memVars, slot, mergeVars>>
  BY DEF CallCutOff
<1>2. held' \in [Slot -> [Process -> {"none", "EX"}]]
  BY DEF CallCutOff, SlotLock!Gone, CacheTypes
<1>3. extras' \in [Slot -> Files]
  BY FileKinds DEF CallCutOff, CacheTypes
<1> QED  BY <1>1, <1>2, <1>3 DEF CacheTypes, memVars, mergeVars

LEMMA CacheTypesNext ==
    ASSUME CacheTypes, ParsersOnly, [Next]_vars
    PROVE  CacheTypes'
<1> USE Who
<1>1. ASSUME UNCHANGED cacheVars \/ UNCHANGED storeVars \/ UNCHANGED <<fileVars, memVars, slotVars, mergeVars>>
      PROVE  CacheTypes'
  BY <1>1 DEF cacheVars, storeVars, CacheTypes, fileVars, memVars, slotVars, mergeVars
<1>2. CASE MainStep
  <2>1. CASE Start
    BY <2>1 DEF Start, CacheTypes, fileVars, slotVars, mergeVars
  <2>2. CASE CheckAlive \/ GetTimesOut \/ GetResult \/ Drain \/ Interrupt \/ Join \/ Merge \/ Finish
    BY <1>1, <2>2 DEF CheckAlive, GetTimesOut, GetResult, Drain, Interrupt, Join, Merge, Finish
  <2>3. CASE Terminate
    BY <1>1, <2>3, CutOffTypes DEF Terminate, Left, ParsersOnly
  <2>4. CASE Locking(Main) \/ InitCache(Main) \/ ReadCache(Main) \/ SaveStep(Main) \/ MergeStep(Main)
    BY <2>4, CacheTypesStep
  <2> QED  BY <1>2, <2>1, <2>2, <2>3, <2>4 DEF MainStep
<1>3. ASSUME NEW p \in Parser, ParserStep(p) \/ Killed(p) PROVE CacheTypes'
  <2>1. CASE Parse(p)
    <3>1. p \in Process /\ parsing[p] \in Entry
      BY <2>1, ParserAssumption DEF Parse
    <3>2. /\ cachedata_extras' = [cachedata_extras EXCEPT ![p] = @ \cup ({parsing[p]} \ cachedata[p])]
          /\ UNCHANGED <<fileVars, cachedata, slotVars, mergeVars>>
      BY <2>1 DEF Parse
    <3> QED  BY <3>1, <3>2 DEF CacheTypes, fileVars, slotVars, mergeVars
  <2>2. CASE TakeJob(p) \/ ParseInterrupted(p) \/ LeaveLoop(p) \/ Feed(p) \/ JoinFeeder(p)
    BY <1>1, <2>2 DEF TakeJob, ParseInterrupted, LeaveLoop, Feed, JoinFeeder
  <2>3. CASE Exit(p) \/ ExitInterrupted(p) \/ Killed(p)
    BY <2>3, CutOffTypes DEF Exit, ExitInterrupted, Killed, Ends
  <2>4. CASE Locking(p) \/ SaveStep(p)
    BY <2>4, CacheTypesStep
  <2> QED  BY <1>3, <2>1, <2>2, <2>3, <2>4 DEF ParserStep
<1>4. ASSUME NEW o \in Other, OtherStep(o) PROVE CacheTypes'
  BY <1>1, <1>4, CacheTypesStep DEF OtherStep
<1>5. CASE Halt \/ UNCHANGED vars
  BY <1>1, <1>5 DEF Halt, vars
<1> QED  BY <1>2, <1>3, <1>4, <1>5 DEF Next

\* A process that goes from one place to another.
LEMMA PcMoves ==
    ASSUME PcTypes, NEW p \in Process, NEW place, pc' = [pc EXCEPT ![p] = place],
           \/ p \in Parser /\ place \in SavePlaces \cup {"loop", "join", "exited"}
           \/ p \notin Parser /\ place \in InitPlaces \cup SavePlaces \cup MergePlaces
    PROVE  PcTypes' /\ pc'[p] = place /\ \A q \in Process \ {p} : pc'[q] = pc[q]
BY Who DEF PcTypes, PcTotal

LEMMA PcCache ==
    ASSUME PcTypes, NEW p \in Process,
           Locking(p) \/ SaveStep(p) \/ (p \notin Parser /\ (InitCache(p) \/ ReadCache(p) \/ MergeStep(p)))
    PROVE  PcTypes'
<1> USE DEF SavePlaces, InitPlaces, MergePlaces, GoesTo
<1>1. pc' = pc => PcTypes'
  BY DEF PcTypes, PcTotal
<1>2. CASE Locking(p)
  BY <1>1, <1>2 DEF Locking
<1>3. CASE SaveStep(p)
  BY <1>1, <1>3, PcMoves DEF SaveStep, SaveExtras, LookForSlot, TakeSlot, SlotRefused, SlotTaken,
     CreateExtras, DumpExtras
<1>4. CASE p \notin Parser /\ (InitCache(p) \/ ReadCache(p))
  BY <1>4, PcMoves DEF InitCache, ReadCache
<1>5. CASE p \notin Parser /\ MergeStep(p)
  BY <1>1, <1>5, PcMoves DEF MergeStep, SaveMerge, ListExtras, LoadExtras, LoadRaises,
     NothingToMerge, TruncateCache, WriteCache
<1> QED  BY <1>2, <1>3, <1>4, <1>5

LEMMA PcNext ==
    ASSUME PcTypes, ParsersOnly, [Next]_vars
    PROVE  PcTypes'
<1> USE Who DEF SavePlaces, InitPlaces, MergePlaces, GoesTo
<1>1. ASSUME UNCHANGED cacheVars \/ pc' = pc
      PROVE  PcTypes'
  BY <1>1 DEF cacheVars, PcTypes, PcTotal
<1>2. CASE MainStep
  <2>1. CASE Start
    BY <2>1 DEF Start, PcTypes, PcTotal
  <2>2. CASE CheckAlive \/ GetTimesOut \/ GetResult \/ Drain \/ Interrupt \/ Finish
    BY <1>1, <2>2 DEF CheckAlive, GetTimesOut, GetResult, Drain, Interrupt, Finish
  <2>3. CASE Join \/ Merge
    BY <2>3, PcMoves DEF Join, Merge
  <2>4. CASE Terminate
    BY <1>1, <2>4, PcMoves DEF Terminate, Left, ParsersOnly
  <2>5. CASE Locking(Main) \/ InitCache(Main) \/ ReadCache(Main) \/ SaveStep(Main) \/ MergeStep(Main)
    BY <2>5, PcCache
  <2> QED  BY <1>2, <2>1, <2>2, <2>3, <2>4, <2>5 DEF MainStep
<1>3. ASSUME NEW p \in Parser, ParserStep(p) \/ Killed(p) PROVE PcTypes'
  <2>1. CASE TakeJob(p) \/ Parse(p) \/ ParseInterrupted(p) \/ Feed(p)
    BY <1>1, <2>1 DEF TakeJob, Parse, ParseInterrupted, Feed
  <2>2. CASE LeaveLoop(p) \/ JoinFeeder(p)
    BY <2>2, PcMoves DEF LeaveLoop, JoinFeeder
  <2>3. CASE Exit(p) \/ ExitInterrupted(p) \/ Killed(p)
    BY <2>3, PcMoves DEF Exit, ExitInterrupted, Killed, Ends
  <2>4. CASE Locking(p) \/ SaveStep(p)
    BY <2>4, PcCache
  <2> QED  BY <1>3, <2>1, <2>2, <2>3, <2>4 DEF ParserStep
<1>4. ASSUME NEW o \in Other, OtherStep(o) PROVE PcTypes'
  <2>1. CASE GoesTo(o, "merge")
    BY <2>1, PcMoves
  <2>2. CASE Locking(o) \/ MergeStep(o)
    BY <2>2, PcCache
  <2> QED  BY <1>4, <2>1, <2>2 DEF OtherStep
<1>5. CASE Halt \/ UNCHANGED vars
  BY <1>1, <1>5 DEF Halt, vars
<1> QED  BY <1>2, <1>3, <1>4, <1>5 DEF Next

LEMMA OneMore ==
    ASSUME NEW S, NEW s \in Seq(S), NEW e \in S
    PROVE  Append(s, e) \in Seq(S)
OBVIOUS

LEMMA QueueNext ==
    ASSUME QueueTypes, ParsersOnly, [Next]_vars
    PROVE  QueueTypes'
<1> USE DEF QueueTypes, queueVars, rest
<1>1. ASSUME UNCHANGED <<queueVars, rest>>
      PROVE  QueueTypes'
  BY <1>1
<1>flag. ASSUME NEW q \in Parser, signal' = [signal EXCEPT ![q] = FALSE] PROVE signal' \in [Parser -> BOOLEAN]
  BY <1>flag
<1>gone. ASSUME NEW q \in Parser, buffer' = [buffer EXCEPT ![q] = <<>>] PROVE buffer' \in [Parser -> Seq(Results)]
  <2>1. <<>> \in Seq(Results)
    OBVIOUS
  <2> QED  BY <1>gone, <2>1
<1>taken. ASSUME pipe # <<>>, pipe' = Tail(pipe) PROVE pipe' \in Seq(Results) /\ Len(pipe') <= PipeSize
  <2>1. pipe \in Seq(Results) /\ Len(pipe) \in Nat /\ PipeSize \in Nat /\ Len(pipe) <= PipeSize
    BY ParserAssumption
  <2>2. Tail(pipe) \in Seq(Results) /\ Len(Tail(pipe)) = Len(pipe) - 1
    BY <1>taken, <2>1
  <2> QED  BY <1>taken, <2>1, <2>2
<1>2. CASE MainStep
  <2>1. CASE Start \/ CheckAlive \/ GetTimesOut \/ Join \/ Merge \/ Finish
    BY <1>1, <2>1 DEF Start, CheckAlive, GetTimesOut, Join, Merge, Finish
  <2>2. CASE GetResult
    <3>1. pipe' \in Seq(Results) /\ Len(pipe') <= PipeSize
      BY <1>taken, <2>2 DEF GetResult
    <3>2. UNCHANGED <<scene, jobs, parsing, buffer, signal>>
      BY <2>2 DEF GetResult
    <3> QED  BY <3>1, <3>2
  <2>3. CASE Drain
    <3>1. pipe' \in Seq(Results) /\ Len(pipe') <= PipeSize
      BY <1>taken, <2>3 DEF Drain
    <3>2. UNCHANGED <<scene, jobs, parsing, buffer, signal>>
      BY <2>3 DEF Drain
    <3> QED  BY <3>1, <3>2
  <2>4. CASE Interrupt
    BY <2>4 DEF Interrupt
  <2>5. CASE Terminate
    <3>1. CASE UNCHANGED queueVars /\ UNCHANGED signal
      BY <2>5, <3>1 DEF Terminate
    <3>2. ASSUME NEW q \in Left, buffer' = [buffer EXCEPT ![q] = <<>>], signal' = [signal EXCEPT ![q] = FALSE],
                 UNCHANGED <<jobs, parsing, pipe, scene>>
          PROVE  QueueTypes'
      BY <1>flag, <1>gone, <3>2 DEF Left, ParsersOnly
    <3> QED  BY <2>5, <3>1, <3>2 DEF Terminate
  <2>6. CASE Locking(Main) \/ InitCache(Main) \/ ReadCache(Main) \/ SaveStep(Main) \/ MergeStep(Main)
    BY <1>1, <1>2, <2>6, <2>1, <2>2, <2>3, <2>4, <2>5 DEF MainStep
  <2> QED  BY <1>1, <1>2, <2>1, <2>2, <2>3, <2>4, <2>5 DEF MainStep
<1>3. ASSUME NEW p \in Parser, ParserStep(p) \/ Killed(p) PROVE QueueTypes'
  <2>1. CASE TakeJob(p)
    <3>1. /\ jobs[p] # <<>> /\ parsing' = [parsing EXCEPT ![p] = jobs[p][Len(jobs[p])]]
          /\ jobs' = [jobs EXCEPT ![p] = SubSeq(@, 1, Len(@) - 1)]
          /\ UNCHANGED <<scene, buffer, pipe, signal>>
      BY <2>1 DEF TakeJob
    <3>2. jobs[p] \in Seq(Recipe)
      OBVIOUS
    <3>3. jobs[p][Len(jobs[p])] \in Recipe /\ SubSeq(jobs[p], 1, Len(jobs[p]) - 1) \in Seq(Recipe)
      BY <3>1, <3>2
    <3> QED  BY <3>1, <3>3
  <2>2. CASE Parse(p)
    <3>1. Result(parsing[p], parsing[p] \notin scene.broken) \in Results
      BY <2>2 DEF Parse, Result, Results
    <3> HIDE DEF Results
    <3> QED  BY <2>2, <3>1 DEF Parse
  <2>3. CASE ParseInterrupted(p)
    <3>1. Result(parsing[p], FALSE) \in Results
      BY <2>3 DEF ParseInterrupted, Result, Results
    <3>2. signal' \in [Parser -> BOOLEAN]
      BY <1>flag, <2>3 DEF ParseInterrupted
    <3>3. /\ buffer' = [buffer EXCEPT ![p] = Append(@, Result(parsing[p], FALSE))]
          /\ parsing' = [parsing EXCEPT ![p] = None] /\ UNCHANGED <<jobs, pipe, scene>>
      BY <2>3 DEF ParseInterrupted
    <3>4. Append(buffer[p], Result(parsing[p], FALSE)) \in Seq(Results)
      <4>1. buffer[p] \in Seq(Results)
        OBVIOUS
      <4> QED  BY <3>1, <4>1, OneMore
    <3>5. buffer' \in [Parser -> Seq(Results)]
      BY <3>3, <3>4
    <3> QED  BY <3>2, <3>3, <3>5
  <2>4. CASE LeaveLoop(p) \/ JoinFeeder(p)
    BY <2>4 DEF LeaveLoop, JoinFeeder
  <2>5. CASE Feed(p)
    <3>1. buffer[p] \in Seq(Results) /\ buffer[p] # <<>> /\ Len(pipe) < PipeSize
          /\ pipe' = Append(pipe, Head(buffer[p])) /\ buffer' = [buffer EXCEPT ![p] = Tail(@)]
          /\ UNCHANGED <<scene, jobs, parsing, signal>>
      BY <2>5 DEF Feed
    <3>2. Head(buffer[p]) \in Results /\ Tail(buffer[p]) \in Seq(Results) /\ PipeSize \in Nat
      BY <3>1, ParserAssumption
    <3>3. pipe' \in Seq(Results) /\ Len(pipe') <= PipeSize
      BY <3>1, <3>2
    <3> QED  BY <3>1, <3>2, <3>3
  <2>6. CASE Exit(p) \/ ExitInterrupted(p) \/ Killed(p)
    <3>1. /\ buffer' = [buffer EXCEPT ![p] = <<>>] /\ signal' = [signal EXCEPT ![p] = FALSE]
          /\ UNCHANGED <<jobs, parsing, pipe, scene>>
      BY <2>6 DEF Exit, ExitInterrupted, Killed, Ends
    <3> QED  BY <1>flag, <1>gone, <3>1
  <2>7. CASE (Locking(p) \/ SaveStep(p)) /\ UNCHANGED <<queueVars, rest, mainVars, hit>>
    BY <1>1, <2>7
  <2> QED  BY <1>3, <2>1, <2>2, <2>3, <2>4, <2>5, <2>6, <2>7 DEF ParserStep
<1>4. CASE Halt \/ UNCHANGED vars \/ \E o \in Other : OtherStep(o)
  BY <1>1, <1>4 DEF Halt, OtherStep, vars
<1> QED  BY <1>2, <1>3, <1>4 DEF Next

LEMMA ServerNext ==
    ASSUME QueueTypes, ServerTypes, [Next]_vars
    PROVE  ServerTypes'
<1> USE DEF ServerTypes, MainPlaces
<1>1. ASSUME UNCHANGED <<got, main, outcome>> PROVE ServerTypes'
  BY <1>1
<1>2. CASE MainStep
  <2>1. CASE GetResult
    <3>1. pipe # <<>> /\ pipe \in Seq(Results)
      BY <2>1 DEF GetResult, QueueTypes
    <3>2. Head(pipe).recipe \in Recipe
      <4>1. Head(pipe) \in Results
        BY <3>1
      <4> QED  BY <4>1 DEF Results
    <3>3. IsFiniteSet(got \cup {Head(pipe).recipe})
      BY FS_AddElement
    <3> QED  BY <2>1, <3>2, <3>3 DEF GetResult
  <2>2. CASE Start \/ CheckAlive \/ GetTimesOut \/ Drain \/ Interrupt \/ Terminate \/ Join \/ Merge \/ Finish
    BY <2>2 DEF Start, CheckAlive, GetTimesOut, Drain, Interrupt, Terminate, Join, Merge, Finish
  <2>3. CASE UNCHANGED mainVars
    BY <1>1, <2>3 DEF mainVars
  <2> QED  BY <1>2, <2>1, <2>2, <2>3 DEF MainStep
<1>3. ASSUME NEW p \in Parser, ParserStep(p) \/ Killed(p) PROVE ServerTypes'
  BY <1>1, <1>3 DEF ParserStep, TakeJob, Parse, ParseInterrupted, LeaveLoop, Feed, JoinFeeder,
     Exit, ExitInterrupted, Killed, Ends, mainVars
<1>4. CASE Halt \/ UNCHANGED vars \/ \E o \in Other : OtherStep(o)
  BY <1>1, <1>4 DEF Halt, OtherStep, vars, mainVars
<1> QED  BY <1>2, <1>3, <1>4 DEF Next

Types == CacheTypes /\ QueueTypes /\ ServerTypes /\ PcTypes

LEMMA TypesInit == Init => Types
<1> SUFFICES ASSUME Init PROVE Types
  OBVIOUS
<1>1. QueueTypes
  <2>1. scene \in Scenes /\ scene.jobs \in [Parser -> Seq(Recipe)]
    BY ScenesAre DEF Init
  <2>2. PipeSize \in Nat
    BY ParserAssumption
  <2> QED  BY <2>1, <2>2 DEF Init, QueueTypes
<1>2. ServerTypes
  BY FS_EmptySet DEF Init, ServerTypes, MainPlaces
<1>3. PcTypes
  <2>1. pc = [p \in Process |-> CASE p = Main -> "init" [] p \in Parser -> "unborn"
                                 [] p \in scene.sharing -> "loaded" [] OTHER -> "out"]
    BY DEF Init
  <2>2. \A p \in Parser : pc[p] = "unborn"
    <3> TAKE p \in Parser
    <3>1. p \in Process /\ p # Main
      BY Who
    <3>2. pc[p] = CASE p = Main -> "init" [] p \in Parser -> "unborn"
                    [] p \in scene.sharing -> "loaded" [] OTHER -> "out"
      BY <2>1, <3>1
    <3>3. p \notin scene.sharing
      BY Who, ScenesAre DEF Init
    <3> QED  BY <3>1, <3>2, <3>3
  <2>3. \A p \in Process \ Parser : pc[p] \in {"out", "init", "loaded"}
    BY <2>1
  <2> QED  BY <2>1, <2>2, <2>3 DEF PcTypes, PcTotal, InitPlaces
<1> QED  BY <1>1, <1>2, <1>3, CacheInitTypes DEF Types

\* Every variable keeps its type.
LEMMA TypesAlways == Spec => []Types
<1>1. Types /\ ParsersOnly /\ [Next]_vars => Types'
  BY CacheTypesNext, QueueNext, ServerNext, PcNext DEF Types
<1> QED  BY <1>1, TypesInit, ParsersAlways, PTL DEF Spec

-----------------------------------------------------------------------------
(* What a step of one process leaves alone.                                *)

LEMMA Goes ==
    ASSUME PcTypes, NEW p \in Process, NEW place, pc' = [pc EXCEPT ![p] = place]
    PROVE  pc'[p] = place /\ \A q \in Process \ {p} : pc'[q] = pc[q]
BY DEF PcTypes, PcTotal

\* The calls of the cache work on the caller's own data.
LEMMA CacheMoves ==
    ASSUME CacheTypes, PcTypes, NEW p \in Process,
           Locking(p) \/ InitCache(p) \/ ReadCache(p) \/ SaveStep(p) \/ MergeStep(p)
    PROVE  /\ cachedata_extras' = cachedata_extras
           /\ \A q \in Process \ {p} : pc'[q] = pc[q] /\ cachedata'[q] = cachedata[q]
           /\ cachedata'[p] # cachedata[p] => pc[p] \in {"read", "load"}
           /\ pc[p] \in InitPlaces => pc'[p] \in InitPlaces
           /\ pc[p] \in MergePlaces => pc'[p] \in MergePlaces
           /\ pc[p] \in {"merged", "raised", "out", "loaded", "saved", "exited", "unborn", "loop", "join"} => pc'[p] = pc[p]
           /\ pc[p] \in SavePlaces => pc'[p] \in SavePlaces
           /\ pc[p] = "save" /\ cachedata_extras[p] = {} => pc'[p] \in {"save", "saved"}
<1> USE DEF SavePlaces, InitPlaces, MergePlaces, GoesTo, memVars
<1>1. CASE Locking(p)
  BY <1>1 DEF Locking
<1>2. CASE InitCache(p)
  BY <1>2, Goes DEF InitCache
<1>3. CASE ReadCache(p)
  BY <1>3, Goes DEF ReadCache, CacheTypes
<1>4. CASE SaveStep(p)
  BY <1>4, Goes DEF SaveStep, SaveExtras, LookForSlot, TakeSlot, SlotRefused, SlotTaken,
     CreateExtras, DumpExtras
<1>5. CASE MergeStep(p)
  <2>1. CASE LoadExtras(p)
    BY <2>1 DEF LoadExtras, CacheTypes
  <2>2. CASE SaveMerge(p) \/ ListExtras(p) \/ LoadRaises(p) \/ NothingToMerge(p) \/ TruncateCache(p) \/ WriteCache(p)
    BY <2>2, Goes DEF SaveMerge, ListExtras, LoadRaises, NothingToMerge, TruncateCache, WriteCache
  <2> QED  BY <1>5, <2>1, <2>2 DEF MergeStep
<1> QED  BY <1>1, <1>2, <1>3, <1>4, <1>5

LEMMA ParserMoves ==
    ASSUME Types, NEW p \in Parser, ParserStep(p) \/ Killed(p)
    PROVE  /\ UNCHANGED <<cachefile, cachedata, mergeVars, scene, quit, mainVars>>
           /\ \A q \in Process \ {p} : pc'[q] = pc[q] /\ cachedata_extras'[q] = cachedata_extras[q]
           /\ cachedata_extras'[p] # cachedata_extras[p] => pc[p] = "loop" /\ pc'[p] = "loop"
           /\ pc[p] = "unborn" <=> pc'[p] = "unborn"
           /\ pc[p] = "exited" => pc'[p] = "exited"
           /\ \A q \in Parser \ {p} : /\ jobs'[q] = jobs[q] /\ parsing'[q] = parsing[q]
                                      /\ buffer'[q] = buffer[q] /\ signal'[q] = signal[q]
<1> USE Who DEF Types, CacheTypes, QueueTypes, memVars, mergeVars, rest, queueVars, SavePlaces, GoesTo
<1>1. CASE TakeJob(p) \/ ParseInterrupted(p) \/ Feed(p)
  <2>1. /\ UNCHANGED <<cachefile, memVars, pc, mergeVars, scene, quit, mainVars>>
    BY <1>1 DEF TakeJob, ParseInterrupted, Feed, cacheVars, storeVars, fileVars
  <2>2. \A q \in Parser \ {p} : jobs'[q] = jobs[q] /\ parsing'[q] = parsing[q]
    BY <1>1 DEF TakeJob, ParseInterrupted, Feed
  <2>3. \A q \in Parser \ {p} : buffer'[q] = buffer[q] /\ signal'[q] = signal[q]
    BY <1>1 DEF TakeJob, ParseInterrupted, Feed
  <2> QED  BY <2>1, <2>2, <2>3
<1>2. CASE Parse(p)
  BY <1>2 DEF Parse, fileVars
<1>3. CASE LeaveLoop(p) \/ JoinFeeder(p)
  <2>1. /\ pc[p] \in {"loop", "join"}
        /\ UNCHANGED <<cachefile, memVars, mergeVars, jobs, parsing, buffer, scene, quit, mainVars>>
        /\ \E place \in {"join", "save"} : pc' = [pc EXCEPT ![p] = place]
        /\ signal' = signal \/ signal' = [signal EXCEPT ![p] = FALSE]
    BY <1>3 DEF LeaveLoop, JoinFeeder, storeVars, fileVars
  <2> QED  BY <2>1, Goes
<1>4. CASE Exit(p) \/ ExitInterrupted(p) \/ Killed(p)
  <2>1. /\ pc[p] # "unborn"
        /\ UNCHANGED <<cachefile, memVars, mergeVars, jobs, parsing, scene, quit, mainVars>>
        /\ pc' = [pc EXCEPT ![p] = "exited"]
        /\ buffer' = [buffer EXCEPT ![p] = <<>>] /\ signal' = [signal EXCEPT ![p] = FALSE]
    BY <1>4 DEF Exit, ExitInterrupted, Killed, Ends, CallCutOff
  <2> QED  BY <2>1, Goes
<1>5. CASE (Locking(p) \/ SaveStep(p)) /\ UNCHANGED <<queueVars, rest, mainVars, hit>>
  <2>1. /\ UNCHANGED <<cachefile, cachedata, cachedata_extras, mergeVars>>
    BY <1>5 DEF Locking, SaveStep, SaveExtras, LookForSlot, TakeSlot, SlotRefused, SlotTaken,
       CreateExtras, DumpExtras, fileVars
  <2>2. /\ \A q \in Process \ {p} : pc'[q] = pc[q]
        /\ pc[p] = "unborn" <=> pc'[p] = "unborn"
        /\ pc[p] = "exited" => pc'[p] = "exited"
    <3>1. pc[p] \in SavePlaces \cup {"unborn", "loop", "join", "exited"}
      BY DEF PcTypes
    <3> QED  BY <1>5, <3>1, CacheMoves
  <2> QED  BY <1>5, <2>1, <2>2
<1> QED  BY <1>1, <1>2, <1>3, <1>4, <1>5 DEF ParserStep

\* A step of a server on its cache.
ServerCache(s) ==
    /\ \/ s = Main /\ (Locking(s) \/ InitCache(s) \/ ReadCache(s) \/ SaveStep(s) \/ MergeStep(s))
       \/ s \in Other /\ (\/ Locking(s) \/ MergeStep(s)
                          \/ /\ pc[s] = "loaded" /\ NoLockCall(s)
                             /\ GoesTo(s, "merge")
                             /\ UNCHANGED <<storeVars>>)
    /\ UNCHANGED <<queueVars, rest, mainVars, hit>>

LEMMA ServerMoves ==
    ASSUME Types, NEW s \in Servers, ServerCache(s)
    PROVE  /\ UNCHANGED <<cachedata_extras, queueVars, rest, mainVars, hit>>
           /\ \A q \in Process \ {s} : pc'[q] = pc[q] /\ cachedata'[q] = cachedata[q]
           /\ s = Main =>
               /\ cachedata'[s] # cachedata[s] => pc[s] \in {"read", "load"}
               /\ pc[s] \in InitPlaces => pc'[s] \in InitPlaces
               /\ pc[s] \in MergePlaces => pc'[s] \in MergePlaces
               /\ pc[s] \in {"merged", "raised", "out", "saved"} => pc'[s] = pc[s]
               /\ pc[s] = "save" /\ cachedata_extras[s] = {} => pc'[s] \in {"save", "saved"}
           /\ s \in Other =>
               /\ cachedata'[s] # cachedata[s] => pc[s] \in {"read", "load"}
               /\ pc[s] = "out" => pc'[s] = "out"
               /\ pc[s] \in {"loaded"} \cup MergePlaces => pc'[s] \in {"loaded"} \cup MergePlaces
<1>1. s \in Process /\ CacheTypes /\ PcTypes
  BY Who DEF Types, Servers
<1>2. CASE Locking(s) \/ InitCache(s) \/ ReadCache(s) \/ SaveStep(s) \/ MergeStep(s)
  BY <1>1, <1>2, CacheMoves DEF ServerCache, MergePlaces
<1>3. CASE s \in Other /\ pc[s] = "loaded" /\ GoesTo(s, "merge") /\ UNCHANGED storeVars
  BY <1>1, <1>3, Goes, Who DEF ServerCache, GoesTo, storeVars, memVars, MergePlaces
<1> QED  BY <1>2, <1>3 DEF ServerCache

\* The steps of the system.
LEMMA StepsAre ==
    ASSUME [Next]_vars
    PROVE  \/ UNCHANGED vars
           \/ Start \/ CheckAlive \/ GetTimesOut \/ GetResult \/ Halt
           \/ Drain \/ Interrupt \/ Terminate \/ Join \/ Merge \/ Finish
           \/ \E p \in Parser : ParserStep(p) \/ Killed(p)
           \/ \E s \in Servers : ServerCache(s)
BY Who DEF Next, MainStep, OtherStep, ServerCache, Servers

-----------------------------------------------------------------------------
(* Where the server stands in the parse, and where the parsers and the     *)
(* other servers are meanwhile.                                            *)

ServerPlaces ==
    /\ main = "init" => pc[Main] \in InitPlaces
    /\ main \in {"alive", "get", "drain", "join", "interrupted", "terminated"} => pc[Main] = "out"
    /\ main = "save" => pc[Main] \in {"save", "saved"}
    /\ main = "merge" => pc[Main] \in MergePlaces
    /\ main = "done" => pc[Main] = "merged"
    /\ main = "raised" => pc[Main] = "raised"
    /\ \A q \in Servers : cachedata_extras[q] = {}

ParserPlacesInv ==
    /\ \A p \in Parser : pc[p] = "unborn" <=> main = "init"
    /\ main # "init" => \A p \in Parser : Alive(p) => p \in processes
    /\ main \in {"save", "merge", "done", "raised"} => \A p \in Parser : ~Alive(p)

OtherPlaces ==
    /\ \A o \in Other : pc[o] \in {"out", "loaded"} \cup MergePlaces
    /\ \A o \in Other \ scene.sharing : pc[o] = "out" /\ cachedata[o] = {}

PlacesInv == ServerPlaces /\ ParserPlacesInv /\ OtherPlaces

LEMMA ServersAre == Servers \subseteq Process /\ Servers \cap Parser = {} /\ Process = Servers \cup Parser
BY Who DEF Servers

LEMMA PlacesInit == Init => PlacesInv
<1> SUFFICES ASSUME Init PROVE PlacesInv
  OBVIOUS
<1>1. pc = [p \in Process |-> CASE p = Main -> "init" [] p \in Parser -> "unborn"
                                 [] p \in scene.sharing -> "loaded" [] OTHER -> "out"]
  BY DEF Init
<1>2. pc[Main] = "init"
  <2>1. Main \notin scene.sharing /\ Main \notin Parser /\ Main \in Process
    BY Who, ScenesAre DEF Init
  <2>2. pc[Main] = CASE Main = Main -> "init" [] Main \in Parser -> "unborn"
                     [] Main \in scene.sharing -> "loaded" [] OTHER -> "out"
    BY <1>1, <2>1
  <2> QED  BY <2>1, <2>2
<1>3. \A p \in Parser : pc[p] = "unborn"
  <2> TAKE p \in Parser
  <2>1. p \in Process /\ p # Main
    BY Who
  <2>2. p \notin scene.sharing
    BY Who, ScenesAre DEF Init
  <2>3. pc[p] = CASE p = Main -> "init" [] p \in Parser -> "unborn"
                  [] p \in scene.sharing -> "loaded" [] OTHER -> "out"
    BY <1>1, <2>1
  <2> QED  BY <2>1, <2>2, <2>3
<1>4. \A o \in Other : pc[o] \in {"out", "loaded"} /\ (o \notin scene.sharing => pc[o] = "out")
  <2> TAKE o \in Other
  <2>1. o \in Process /\ o # Main /\ o \notin Parser
    BY Who
  <2>2. pc[o] = CASE o = Main -> "init" [] o \in Parser -> "unborn"
                  [] o \in scene.sharing -> "loaded" [] OTHER -> "out"
    BY <1>1, <2>1
  <2> QED  BY <2>1, <2>2
<1>5. main = "init" /\ cachedata_extras = [p \in Process |-> {}] /\ cachedata = [p \in Process |-> {}]
  BY DEF Init, CacheInit
<1> QED  BY <1>2, <1>3, <1>4, <1>5, ServersAre, Who
   DEF PlacesInv, ServerPlaces, ParserPlacesInv, OtherPlaces, InitPlaces

\* The steps of the server that touch no place of a process.
MainOnly == CheckAlive \/ GetTimesOut \/ GetResult \/ Halt \/ Drain \/ Interrupt

LEMMA MainOnlyMoves ==
    ASSUME MainOnly
    PROVE  /\ UNCHANGED <<cacheVars, jobs, parsing, buffer, scene>>
           /\ main \in {"alive", "get", "drain", "join"}
           /\ main' \in {"alive", "get", "drain", "join", "interrupted"}
           /\ processes' = processes \/ processes' = {p \in processes : Alive(p)}
           /\ hit \subseteq hit'
BY DEF MainOnly, CheckAlive, GetTimesOut, GetResult, Halt, Drain, Interrupt, queueVars, rest

\* The server stops a parser.
LEMMA TerminateMoves ==
    ASSUME Types, ParsersOnly, Terminate
    PROVE  /\ UNCHANGED <<cachefile, memVars, mergeVars, jobs, parsing, pipe, scene, quit, processes, got, empty, outcome>>
           /\ main = "interrupted"
           /\ \/ Left = {} /\ main' = "terminated" /\ UNCHANGED <<cacheVars, buffer, signal, hit>>
              \/ \E p \in Parser : /\ Alive(p) /\ CallCutOff(p) /\ main' = "interrupted"
                                   /\ pc' = [pc EXCEPT ![p] = "exited"]
                                   /\ buffer' = [buffer EXCEPT ![p] = <<>>]
                                   /\ signal' = [signal EXCEPT ![p] = FALSE]
                                   /\ hit' = hit \cup {p}
<1>1. CASE Left = {} /\ main' = "terminated" /\ UNCHANGED <<cacheVars, queueVars, signal, hit>>
  BY <1>1 DEF Terminate, cacheVars, storeVars, queueVars, fileVars
<1>2. ASSUME NEW p \in Left, CallCutOff(p), GoesTo(p, "exited"), buffer' = [buffer EXCEPT ![p] = <<>>],
             signal' = [signal EXCEPT ![p] = FALSE], hit' = hit \cup {p}, UNCHANGED <<jobs, parsing, pipe, main>>
      PROVE  /\ UNCHANGED <<cachefile, memVars, mergeVars>> /\ p \in Parser /\ Alive(p)
             /\ pc' = [pc EXCEPT ![p] = "exited"]
  BY <1>2 DEF CallCutOff, Left, ParsersOnly, GoesTo
<1> QED  BY <1>1, <1>2 DEF Terminate

LEMMA PlacesStep ==
    ASSUME Types, ParsersOnly, PlacesInv, [Next]_vars
    PROVE  PlacesInv'
<1> USE DEF PlacesInv, ServerPlaces, ParserPlacesInv, OtherPlaces, Alive
<1>same. ASSUME UNCHANGED <<cacheVars, scene, processes, main>> PROVE PlacesInv'
  BY <1>same DEF cacheVars, storeVars, memVars
<1>1. CASE UNCHANGED vars
  BY <1>1, <1>same DEF vars, rest, mainVars
<1>2. CASE Start
  <2>1. pc' = [p \in Process |-> CASE p = Main -> "out" [] p \in Parser -> "loop" [] OTHER -> pc[p]]
    BY <1>2 DEF Start
  <2>2. pc'[Main] = "out" /\ (\A p \in Parser : pc'[p] = "loop") /\ \A o \in Other : pc'[o] = pc[o]
    <3>1. \A p \in Parser : p \in Process /\ p # Main
      BY Who
    <3>2. \A o \in Other : o \in Process /\ o # Main /\ o \notin Parser
      BY Who
    <3> QED  BY <2>1, <3>1, <3>2, Who
  <2>3. \A o \in Other : cachedata'[o] = cachedata[o]
    BY <1>2, Who DEF Start
  <2>4. main' = "alive" /\ processes' = Parser /\ cachedata_extras' = cachedata_extras /\ scene' = scene
    BY <1>2 DEF Start, rest
  <2> QED  BY <2>2, <2>3, <2>4
<1>3. CASE MainOnly
  BY <1>3, MainOnlyMoves DEF cacheVars, storeVars, memVars
<1>4. CASE Terminate
  <2>1. CASE Left = {} /\ main' = "terminated" /\ UNCHANGED <<cacheVars, buffer, signal, hit>>
    BY <1>4, <2>1, TerminateMoves DEF cacheVars, storeVars, memVars
  <2>2. ASSUME NEW p \in Parser, Alive(p), main' = "interrupted", pc' = [pc EXCEPT ![p] = "exited"] PROVE PlacesInv'
    <3>1. pc'[p] = "exited" /\ \A q \in Process \ {p} : pc'[q] = pc[q]
      BY <2>2, Goes, Who DEF Types
    <3>2. main = "interrupted" /\ UNCHANGED <<memVars, scene, processes>>
      BY <1>4, TerminateMoves
    <3>3. pc'[Main] = "out" /\ \A o \in Other : pc'[o] = pc[o]
      BY <3>1, <3>2, Who
    <3> QED  BY <2>2, <3>1, <3>2, <3>3, Who DEF memVars
  <2> QED  BY <1>4, <2>1, <2>2, TerminateMoves
<1>5. CASE Join
  <2>1. pc'[Main] = "save" /\ \A q \in Process \ {Main} : pc'[q] = pc[q]
    BY <1>5, Goes, Who DEF Join, GoesTo, Types
  <2>2. main = "terminated" /\ main' = "save" /\ UNCHANGED <<cachedata, cachedata_extras, scene, processes>> /\ Left = {}
    BY <1>5 DEF Join, storeVars, memVars, rest
  <2>3. \A p \in Parser : ~Alive(p)
    BY <2>2 DEF Left
  <2> QED  BY <2>1, <2>2, <2>3, Who
<1>6. CASE Merge
  <2>1. pc'[Main] = "merge" /\ \A q \in Process \ {Main} : pc'[q] = pc[q]
    BY <1>6, Goes, Who DEF Merge, GoesTo, Types
  <2>2. main = "save" /\ main' = "merge" /\ UNCHANGED <<cachedata, cachedata_extras, scene, processes>>
    BY <1>6 DEF Merge, storeVars, memVars, rest
  <2> QED  BY <2>1, <2>2, Who DEF MergePlaces
<1>7. CASE Finish
  <2>1. UNCHANGED <<cacheVars, scene, processes>> /\ main = "merge" /\ pc[Main] \in {"merged", "raised"}
        /\ main' = IF pc[Main] = "raised" THEN "raised" ELSE "done"
    BY <1>7 DEF Finish, rest
  <2> QED  BY <2>1 DEF cacheVars, storeVars, memVars
<1>8. ASSUME NEW p \in Parser, ParserStep(p) \/ Killed(p) PROVE PlacesInv'
  <2>1. p \in Process /\ p # Main /\ p \notin Other /\ p \notin Servers
    BY Who DEF Servers
  <2>2. /\ UNCHANGED <<cachedata, scene, processes, main>>
        /\ \A q \in Process \ {p} : pc'[q] = pc[q] /\ cachedata_extras'[q] = cachedata_extras[q]
        /\ pc[p] = "unborn" <=> pc'[p] = "unborn"
        /\ pc[p] = "exited" => pc'[p] = "exited"
    BY <1>8, ParserMoves DEF mainVars
  <2>3. ServerPlaces'
    BY <2>1, <2>2, ServersAre, Who
  <2>4. ParserPlacesInv'
    BY <2>1, <2>2, Who
  <2>5. OtherPlaces'
    BY <2>1, <2>2, Who
  <2> QED  BY <2>3, <2>4, <2>5
<1>9. ASSUME NEW s \in Servers, ServerCache(s) PROVE PlacesInv'
  <2>1. /\ UNCHANGED <<cachedata_extras, rest, mainVars>>
        /\ \A q \in Process \ {s} : pc'[q] = pc[q] /\ cachedata'[q] = cachedata[q]
    BY <1>9, ServerMoves
  <2>2. /\ UNCHANGED <<cachedata_extras, scene, processes, main>>
        /\ \A p \in Parser : pc'[p] = pc[p]
    BY <2>1, ServersAre DEF rest, mainVars
  <2>3. CASE s = Main
    <3>1. \A o \in Other : pc'[o] = pc[o] /\ cachedata'[o] = cachedata[o]
      BY <2>1, <2>3, Who
    <3>2. main \in MainPlaces /\ Main \in Servers
      BY DEF Types, ServerTypes, Servers
    <3> QED  BY <1>9, <2>2, <2>3, <3>1, <3>2, ServerMoves
  <2>4. CASE s \in Other
    <3>1. s # Main /\ pc'[Main] = pc[Main]
      BY <2>1, <2>4, Who
    <3>2. /\ pc[s] = "out" => pc'[s] = "out" /\ cachedata'[s] = cachedata[s]
          /\ pc[s] \in {"loaded"} \cup MergePlaces => pc'[s] \in {"loaded"} \cup MergePlaces
      BY <1>9, <2>4, ServerMoves
    <3>3. OtherPlaces'
      BY <2>1, <2>2, <3>2, Who
    <3> QED  BY <2>2, <3>1, <3>3
  <2> QED  BY <2>3, <2>4 DEF Servers
<1> QED  BY <1>1, <1>2, <1>3, <1>4, <1>5, <1>6, <1>7, <1>8, <1>9, StepsAre DEF MainOnly

-----------------------------------------------------------------------------
(* What a parser has saved is kept.                                        *)

\* The locks cachefile.lock.i exclude; who holds one has the file to itself,
\* and a file that is being written has no data yet.
SlotsInv ==
    /\ \A i \in Slot : \A p, q \in Process : p # q /\ held[i][p] = "EX" => held[i][q] = "none"
    /\ \A p \in Process : pc[p] \in {"mine", "dump"} => held[slot[p]][p] = "EX"
    /\ \A p \in Process : pc[p] = "dump" => extras[slot[p]].data = {}

\* Signals come from the server.
SignalsInv == hit \subseteq Parser /\ \A p \in Parser : signal[p] => p \in hit

LEMMA SlotsCache ==
    ASSUME CacheTypes, PcTypes, SlotsInv, NEW p \in Process,
           Locking(p) \/ InitCache(p) \/ ReadCache(p) \/ SaveStep(p) \/ MergeStep(p)
    PROVE  SlotsInv'
<1> USE DEF CacheTypes, GoesTo
<1>same. ASSUME UNCHANGED <<extras, slotVars>>,
                \A q \in Process : pc'[q] \in {"mine", "dump"} => pc'[q] = pc[q]
         PROVE  SlotsInv'
  BY <1>same DEF SlotsInv, slotVars
<1>1. CASE Locking(p)
  BY <1>1, <1>same DEF Locking, fileVars
<1>2. CASE \/ InitCache(p) \/ ReadCache(p) \/ SaveExtras(p) \/ LookForSlot(p)
           \/ SaveMerge(p) \/ ListExtras(p) \/ LoadRaises(p) \/ NothingToMerge(p) \/ TruncateCache(p) \/ WriteCache(p)
  <2>1. UNCHANGED <<extras, slotVars>>
    BY <1>2 DEF InitCache, ReadCache, SaveExtras, LookForSlot, SaveMerge, ListExtras, LoadRaises,
       NothingToMerge,
       TruncateCache, WriteCache, fileVars
  <2>2. \E place \in {"read", "loaded", "saved", "shared", "slot", "alone", "load", "raised", "merged", "write"} :
            pc' = [pc EXCEPT ![p] = place]
    BY <1>2 DEF InitCache, ReadCache, SaveExtras, LookForSlot, SaveMerge, ListExtras, LoadRaises,
       NothingToMerge,
       TruncateCache, WriteCache
  <2> QED  BY <2>1, <2>2, <1>same, Goes
<1>3. CASE TakeSlot(p)
  <2>1. /\ held[slot[p]][p] = "none" /\ held' = [held EXCEPT ![slot[p]][p] = "EX"]
        /\ \A q \in Process \ {p} : held[slot[p]][q] = "none"
        /\ UNCHANGED <<extras, slot>> /\ pc' = [pc EXCEPT ![p] = "mine"]
    BY <1>3 DEF TakeSlot, SlotLock!Acquire, SlotLock!Free, fileVars
  <2>2. pc'[p] = "mine" /\ \A q \in Process \ {p} : pc'[q] = pc[q]
    BY <2>1, Goes
  <2> QED  BY <2>1, <2>2 DEF SlotsInv
<1>4. CASE SlotRefused(p)
  <2>1. pc[p] = "slot" /\ slot' = [slot EXCEPT ![p] = slot[p] + 1] /\ UNCHANGED <<extras, held, pc>>
    BY <1>4 DEF SlotRefused, fileVars
  <2> QED  BY <2>1 DEF SlotsInv
<1>5. CASE SlotTaken(p)
  <2>1. /\ pc' = [pc EXCEPT ![p] = "slot"] /\ UNCHANGED extras
        /\ slot' = [slot EXCEPT ![p] = slot[p] + 1] /\ held' = [held EXCEPT ![slot[p]][p] = "none"]
    BY <1>5 DEF SlotTaken, SlotLock!Release, fileVars
  <2>2. pc'[p] = "slot" /\ \A q \in Process \ {p} : pc'[q] = pc[q] /\ slot'[q] = slot[q]
    BY <2>1, Goes
  <2>3. \A i \in Slot : \A q \in Process : held'[i][q] = held[i][q] \/ (q = p /\ held'[i][q] = "none")
    BY <2>1
  <2> QED  BY <2>1, <2>2, <2>3 DEF SlotsInv
<1>6. CASE CreateExtras(p)
  <2>1. /\ pc[p] = "mine" /\ pc' = [pc EXCEPT ![p] = "dump"] /\ UNCHANGED <<slot, held>>
        /\ extras' = [extras EXCEPT ![slot[p]] = Empty]
    BY <1>6 DEF CreateExtras, slotVars
  <2>2. pc'[p] = "dump" /\ \A q \in Process \ {p} : pc'[q] = pc[q]
    BY <2>1, Goes
  <2>3. \A i \in Slot : extras'[i] = extras[i] \/ extras'[i].data = {}
    BY <2>1, FileKinds
  <2>4. extras'[slot[p]].data = {}
    BY <2>1, FileKinds
  <2> QED  BY <2>1, <2>2, <2>3, <2>4 DEF SlotsInv
<1>7. CASE DumpExtras(p)
  <2>1. /\ pc[p] = "dump" /\ pc' = [pc EXCEPT ![p] = "saved"] /\ slot' = slot
        /\ extras' = [extras EXCEPT ![slot[p]] = Whole(cachedata_extras[p])]
        /\ held' = [held EXCEPT ![slot[p]][p] = "none"]
    BY <1>7 DEF DumpExtras, SlotLock!Release
  <2>2. pc'[p] = "saved" /\ \A q \in Process \ {p} : pc'[q] = pc[q]
    BY <2>1, Goes
  <2>3. \A i \in Slot : \A q \in Process : held'[i][q] = held[i][q] \/ (q = p /\ held'[i][q] = "none")
    BY <2>1
  <2>4. \A q \in Process \ {p} : pc[q] = "dump" => extras'[slot[q]] = extras[slot[q]]
    BY <2>1 DEF SlotsInv
  <2>5. \A q \in Process : pc'[q] = "dump" => extras'[slot'[q]].data = {}
    BY <2>1, <2>2, <2>4 DEF SlotsInv
  <2>6. \A q \in Process : pc'[q] \in {"mine", "dump"} => held'[slot'[q]][q] = "EX"
    BY <2>1, <2>2 DEF SlotsInv
  <2>7. \A i \in Slot : \A q, r \in Process : q # r /\ held'[i][q] = "EX" => held'[i][r] = "none"
    BY <2>3 DEF SlotsInv
  <2> QED  BY <2>5, <2>6, <2>7 DEF SlotsInv
<1>8. CASE LoadExtras(p)
  <2>1. PICK i \in todo : extras' = [extras EXCEPT ![i] = NoFile]
    BY <1>8 DEF LoadExtras
  <2>2. \A j \in Slot : extras'[j] = extras[j] \/ extras'[j].data = {}
    BY <2>1, FileKinds
  <2>3. UNCHANGED <<slot, held, pc>>
    BY <1>8 DEF LoadExtras, slotVars
  <2> QED  BY <2>2, <2>3 DEF SlotsInv
<1> QED  BY <1>1, <1>2, <1>3, <1>4, <1>5, <1>6, <1>7, <1>8 DEF SaveStep, MergeStep

LEMMA SlotsCutOff ==
    ASSUME CacheTypes, PcTypes, SlotsInv, NEW p \in Process, CallCutOff(p), pc' = [pc EXCEPT ![p] = "exited"]
    PROVE  SlotsInv'
<1>1. /\ slot' = slot
      /\ pc'[p] = "exited" /\ \A q \in Process \ {p} : pc'[q] = pc[q]
  BY Goes DEF CallCutOff
<1>2. \A i \in Slot : \A q \in Process : held'[i][q] = IF q = p THEN "none" ELSE held[i][q]
  BY DEF CallCutOff, SlotLock!Gone, CacheTypes
<1>3. \A i \in Slot : extras'[i] = extras[i] \/ extras'[i].data = {}
  BY FileKinds DEF CallCutOff, CacheTypes
<1> QED  BY <1>1, <1>2, <1>3 DEF SlotsInv, CacheTypes

LEMMA SlotsInit == Init => SlotsInv /\ SignalsInv
<1> SUFFICES ASSUME Init PROVE SlotsInv /\ SignalsInv
  OBVIOUS
<1>1. pc = [p \in Process |-> CASE p = Main -> "init" [] p \in Parser -> "unborn"
                                 [] p \in scene.sharing -> "loaded" [] OTHER -> "out"]
  BY DEF Init
<1>2. \A p \in Process : pc[p] \in {"init", "unborn", "loaded", "out"}
  BY <1>1
<1>3. held = [i \in Slot |-> [p \in Process |-> "none"]]
  BY DEF Init, CacheInit, SlotLock!Init
<1> QED  BY <1>2, <1>3 DEF SlotsInv, SignalsInv, Init

LEMMA SlotsNext ==
    ASSUME Types, ParsersOnly, SlotsInv, [Next]_vars
    PROVE  SlotsInv'
<1>same. ASSUME UNCHANGED <<extras, slotVars>>,
                \A q \in Process : pc'[q] \in {"mine", "dump"} => pc'[q] = pc[q]
         PROVE  SlotsInv'
  BY <1>same DEF SlotsInv, slotVars
<1> USE DEF Types, GoesTo
<1>1. ASSUME UNCHANGED cacheVars PROVE SlotsInv'
  BY <1>1, <1>same DEF cacheVars, storeVars, fileVars
<1>2. CASE Start
  <2>1. pc' = [p \in Process |-> CASE p = Main -> "out" [] p \in Parser -> "loop" [] OTHER -> pc[p]]
    BY <1>2 DEF Start
  <2>2. \A q \in Process : pc'[q] = pc[q] \/ pc'[q] \in {"out", "loop"}
    BY <2>1
  <2> QED  BY <1>2, <2>2, <1>same DEF Start, fileVars
<1>3. CASE UNCHANGED vars \/ MainOnly \/ Finish
  BY <1>3, <1>1, MainOnlyMoves DEF vars, Finish
<1>4. CASE Terminate
  BY <1>1, <1>4, TerminateMoves, SlotsCutOff, Who
<1>5. CASE Join \/ Merge
  <2>1. UNCHANGED <<extras, slotVars>> /\ \E place \in {"save", "merge"} : pc' = [pc EXCEPT ![Main] = place]
    BY <1>5 DEF Join, Merge, storeVars, fileVars
  <2> QED  BY <2>1, <1>same, Goes, Who
<1>6. ASSUME NEW p \in Parser, ParserStep(p) \/ Killed(p) PROVE SlotsInv'
  <2>1. CASE TakeJob(p) \/ Parse(p) \/ ParseInterrupted(p) \/ Feed(p)
    BY <2>1, <1>same DEF TakeJob, Parse, ParseInterrupted, Feed, cacheVars, storeVars, fileVars
  <2>2. CASE LeaveLoop(p) \/ JoinFeeder(p)
    <3>1. UNCHANGED <<extras, slotVars>> /\ \E place \in {"join", "save"} : pc' = [pc EXCEPT ![p] = place]
      BY <2>2 DEF LeaveLoop, JoinFeeder, storeVars, fileVars
    <3> QED  BY <3>1, <1>same, Goes, Who
  <2>3. CASE Exit(p) \/ ExitInterrupted(p) \/ Killed(p)
    BY <2>3, SlotsCutOff, Who DEF Exit, ExitInterrupted, Killed, Ends
  <2>4. CASE Locking(p) \/ SaveStep(p)
    BY <2>4, SlotsCache, Who
  <2> QED  BY <1>6, <2>1, <2>2, <2>3, <2>4 DEF ParserStep
<1>7. ASSUME NEW s \in Servers, ServerCache(s) PROVE SlotsInv'
  <2>1. CASE Locking(s) \/ InitCache(s) \/ ReadCache(s) \/ SaveStep(s) \/ MergeStep(s)
    BY <2>1, SlotsCache, ServersAre
  <2>2. CASE GoesTo(s, "merge") /\ UNCHANGED storeVars
    BY <2>2, <1>same, Goes, ServersAre DEF storeVars, fileVars
  <2> QED  BY <1>7, <2>1, <2>2 DEF ServerCache
<1> QED  BY <1>2, <1>3, <1>4, <1>5, <1>6, <1>7, StepsAre DEF MainOnly

LEMMA SignalsNext ==
    ASSUME Types, ParsersOnly, SignalsInv, [Next]_vars
    PROVE  SignalsInv'
<1> USE DEF SignalsInv, Types, QueueTypes, rest, queueVars, mainVars
<1>1. CASE UNCHANGED vars \/ Start \/ CheckAlive \/ GetTimesOut \/ GetResult \/ Halt \/ Drain \/ Join \/ Merge \/ Finish
  BY <1>1 DEF vars, Start, CheckAlive, GetTimesOut, GetResult, Halt, Drain, Join, Merge, Finish
<1>2. CASE Interrupt
  BY <1>2 DEF Interrupt, Left, ParsersOnly
<1>3. CASE Terminate
  BY <1>3, TerminateMoves
<1>4. ASSUME NEW p \in Parser, ParserStep(p) \/ Killed(p) PROVE SignalsInv'
  BY <1>4 DEF ParserStep, TakeJob, Parse, ParseInterrupted, LeaveLoop, Feed, JoinFeeder, Exit,
     ExitInterrupted, Killed, Ends
<1>5. ASSUME NEW s \in Servers, ServerCache(s) PROVE SignalsInv'
  BY <1>5 DEF ServerCache
<1> QED  BY <1>1, <1>2, <1>3, <1>4, <1>5, StepsAre

\* What a parser leaves is in one of these places.
Kept == InFiles \cup UNION {cachedata[s] : s \in Servers}

\* A file may be written over when it has no data.
LEMMA FilesKept ==
    ASSUME extras \in [Slot -> Files], NEW i \in Slot, NEW f, extras' = [extras EXCEPT ![i] = f]
    PROVE  /\ InFiles \subseteq InFiles' \cup extras[i].data
           /\ f.data \subseteq InFiles'
<1>1. \A j \in Slot : j # i => extras[j] = extras'[j]
  OBVIOUS
<1>2. extras'[i] = f
  OBVIOUS
<1> QED  BY <1>1, <1>2 DEF InFiles

LEMMA KeptSame ==
    ASSUME InFiles \subseteq InFiles', \A s \in Servers : cachedata[s] \subseteq cachedata'[s]
    PROVE  Kept \subseteq Kept'
BY DEF Kept

LEMMA KeptCache ==
    ASSUME CacheTypes, PcTypes, SlotsInv, NEW p \in Process, pc[p] # "read",
           Locking(p) \/ SaveStep(p) \/ (p \in Servers /\ (InitCache(p) \/ MergeStep(p)))
    PROVE  Kept \subseteq Kept'
<1> USE DEF CacheTypes
<1>same. ASSUME UNCHANGED <<extras, cachedata>> PROVE Kept \subseteq Kept'
  BY <1>same DEF Kept, InFiles
<1>1. CASE \/ Locking(p) \/ InitCache(p) \/ SaveExtras(p) \/ LookForSlot(p) \/ TakeSlot(p) \/ SlotRefused(p) \/ SlotTaken(p)
           \/ SaveMerge(p) \/ ListExtras(p) \/ LoadRaises(p) \/ NothingToMerge(p) \/ TruncateCache(p) \/ WriteCache(p)
  BY <1>1, <1>same DEF Locking, InitCache, SaveExtras, LookForSlot, TakeSlot, SlotRefused,
     SlotTaken,
     SaveMerge, ListExtras, LoadRaises, NothingToMerge, TruncateCache, WriteCache, fileVars, memVars
<1>2. CASE CreateExtras(p)
  <2>1. extras' = [extras EXCEPT ![slot[p]] = Empty] /\ extras[slot[p]].data = {} /\ cachedata' = cachedata
    BY <1>2, FileKinds DEF CreateExtras, memVars
  <2> QED  BY <2>1, FilesKept, KeptSame
<1>3. CASE DumpExtras(p)
  <2>1. extras' = [extras EXCEPT ![slot[p]] = Whole(cachedata_extras[p])] /\ extras[slot[p]].data = {} /\ cachedata' = cachedata
    BY <1>3 DEF DumpExtras, memVars, SlotsInv
  <2> QED  BY <2>1, FilesKept, KeptSame
<1>4. CASE p \in Servers /\ LoadExtras(p)
  <2>1. PICK i \in todo : /\ cachedata' = [cachedata EXCEPT ![p] = @ \cup extras[i].data]
                          /\ extras' = [extras EXCEPT ![i] = NoFile]
    BY <1>4 DEF LoadExtras
  <2>2. InFiles \subseteq InFiles' \cup extras[i].data
    BY <2>1, FilesKept
  <2>3. extras[i].data \subseteq cachedata'[p] /\ \A s \in Servers : cachedata[s] \subseteq cachedata'[s]
    BY <2>1, ServersAre
  <2> QED  BY <1>4, <2>2, <2>3 DEF Kept
<1> QED  BY <1>1, <1>2, <1>3, <1>4 DEF SaveStep, MergeStep

LEMMA KeptCutOff ==
    ASSUME CacheTypes, SlotsInv, NEW p \in Process, CallCutOff(p)
    PROVE  Kept \subseteq Kept'
<1>1. cachedata' = cachedata
  BY DEF CallCutOff, memVars
<1>2. CASE extras' = extras
  BY <1>1, <1>2 DEF Kept, InFiles
<1>3. ASSUME NEW f, extras' = [extras EXCEPT ![slot[p]] = f], pc[p] = "dump"
      PROVE  Kept \subseteq Kept'
  BY <1>1, <1>3, FilesKept, KeptSame DEF SlotsInv, CacheTypes
<1> QED  BY <1>2, <1>3 DEF CallCutOff

LEMMA KeptNext ==
    ASSUME Types, ParsersOnly, PlacesInv, SlotsInv, [Next]_vars, main # "init"
    PROVE  Kept \subseteq Kept'
<1>same. ASSUME UNCHANGED <<extras, cachedata>> PROVE Kept \subseteq Kept'
  BY <1>same DEF Kept, InFiles
<1> USE DEF Types
<1>1. CASE UNCHANGED vars \/ MainOnly \/ Join \/ Merge \/ Finish
  BY <1>1, <1>same, MainOnlyMoves DEF Join, Merge, Finish, vars, cacheVars, storeVars, fileVars,
     memVars
<1>2. CASE Start
  BY <1>2 DEF Start
<1>3. CASE Terminate
  BY <1>3, <1>same, TerminateMoves, KeptCutOff, Who DEF cacheVars, storeVars, fileVars, memVars
<1>4. ASSUME NEW p \in Parser, ParserStep(p) \/ Killed(p) PROVE Kept \subseteq Kept'
  <2>1. CASE TakeJob(p) \/ Parse(p) \/ ParseInterrupted(p) \/ LeaveLoop(p) \/ Feed(p) \/ JoinFeeder(p)
    BY <2>1, <1>same DEF TakeJob, Parse, ParseInterrupted, LeaveLoop, Feed, JoinFeeder,
       cacheVars, storeVars, fileVars, memVars
  <2>2. CASE Exit(p) \/ ExitInterrupted(p) \/ Killed(p)
    BY <2>2, KeptCutOff, Who DEF Exit, ExitInterrupted, Killed, Ends
  <2>3. CASE Locking(p) \/ SaveStep(p)
    <3>1. pc[p] # "read"
      BY DEF PcTypes, SavePlaces
    <3> QED  BY <2>3, <3>1, KeptCache, Who
  <2> QED  BY <1>4, <2>1, <2>2, <2>3 DEF ParserStep
<1>5. ASSUME NEW s \in Servers, ServerCache(s) PROVE Kept \subseteq Kept'
  <2>1. pc[s] # "read"
    <3>1. main \in MainPlaces
      BY DEF ServerTypes
    <3> QED  BY <3>1 DEF PlacesInv, ServerPlaces, OtherPlaces, Servers, MainPlaces, MergePlaces
  <2>2. CASE Locking(s) \/ InitCache(s) \/ SaveStep(s) \/ MergeStep(s)
    BY <2>1, <2>2, KeptCache, ServersAre
  <2>3. CASE UNCHANGED storeVars
    BY <2>3, <1>same DEF storeVars, fileVars, memVars
  <2> QED  BY <1>5, <2>1, <2>2, <2>3 DEF ServerCache, ReadCache
<1> QED  BY <1>1, <1>2, <1>3, <1>4, <1>5, StepsAre DEF MainOnly

\* Who has saved: its entries are in a file, or it had none.
Saves(p) == pc[p] = "saved" \/ (pc[p] = "exited" /\ p \notin hit)

LEMMA SavedAgain == SavedKept <=> \A p \in Parser : Saves(p) => cachedata_extras[p] \subseteq Kept
BY DEF SavedKept, Saves, Kept

LEMMA NewlySaved ==
    ASSUME Types, ParsersOnly, SlotsInv, SignalsInv, [Next]_vars, NEW p \in Parser, Saves(p)'
    PROVE  \/ Saves(p) /\ cachedata_extras'[p] = cachedata_extras[p]
           \/ cachedata_extras'[p] \subseteq Kept'
<1> USE DEF Types, GoesTo, Saves
<1>same. ASSUME pc'[p] = pc[p], cachedata_extras' = cachedata_extras, hit \subseteq hit'
         PROVE  Saves(p) /\ cachedata_extras'[p] = cachedata_extras[p]
  BY <1>same
<1>1. CASE UNCHANGED vars \/ CheckAlive \/ GetTimesOut \/ GetResult \/ Halt \/ Drain \/ Interrupt \/ Finish
  BY <1>1, <1>same DEF vars, CheckAlive, GetTimesOut, GetResult, Halt, Drain, Interrupt, Finish,
     cacheVars, storeVars, memVars
<1>2. CASE Start
  <2>1. p \in Process /\ p # Main /\ pc' = [q \in Process |-> CASE q = Main -> "out" [] q \in Parser -> "loop" [] OTHER -> pc[q]]
    BY <1>2, Who DEF Start
  <2>2. pc'[p] = "loop"
    BY <2>1
  <2> QED  BY <2>2
<1>3. CASE Join \/ Merge
  <2>1. UNCHANGED <<cachedata_extras, hit>> /\ \E place : pc' = [pc EXCEPT ![Main] = place]
    BY <1>3 DEF Join, Merge, storeVars, memVars
  <2> QED  BY <2>1, Goes, Who
<1>4. CASE Terminate
  <2>1. ASSUME NEW q \in Parser, pc' = [pc EXCEPT ![q] = "exited"], hit' = hit \cup {q}
        PROVE  Saves(p) /\ cachedata_extras'[p] = cachedata_extras[p]
    BY <1>4, <2>1, Goes, Who, TerminateMoves DEF memVars
  <2>2. CASE UNCHANGED <<cacheVars, hit>>
    BY <1>4, <2>2, TerminateMoves DEF memVars, cacheVars
  <2> QED  BY <1>4, <2>1, <2>2, TerminateMoves
<1>5. ASSUME NEW q \in Parser, q # p, ParserStep(q) \/ Killed(q)
      PROVE  Saves(p) /\ cachedata_extras'[p] = cachedata_extras[p]
  <2>1. hit \subseteq hit'
    BY <1>5 DEF ParserStep, TakeJob, Parse, ParseInterrupted, LeaveLoop, Feed, JoinFeeder, Exit,
       ExitInterrupted, Killed, Ends
  <2> QED  BY <1>5, <2>1, ParserMoves, Who
<1>6. ASSUME ParserStep(p) \/ Killed(p)
      PROVE  \/ Saves(p) /\ cachedata_extras'[p] = cachedata_extras[p]
             \/ cachedata_extras'[p] \subseteq Kept'
  <2>1. CASE TakeJob(p) \/ Parse(p) \/ ParseInterrupted(p)
    BY <2>1 DEF TakeJob, Parse, ParseInterrupted, cacheVars
  <2>2. CASE Feed(p)
    BY <2>2 DEF Feed, cacheVars, storeVars, memVars
  <2>3. CASE LeaveLoop(p) \/ JoinFeeder(p)
    BY <2>3, Goes, Who DEF LeaveLoop, JoinFeeder
  <2>4. CASE Exit(p)
    BY <2>4, Goes, Who DEF Exit, Ends, CallCutOff, memVars
  <2>5. CASE ExitInterrupted(p) \/ Killed(p)
    <3>1. pc'[p] = "exited" /\ p \in hit'
      BY <2>5, Goes, Who DEF ExitInterrupted, Killed, Ends, SignalsInv
    <3> QED  BY <3>1
  <2>6. CASE (Locking(p) \/ SaveStep(p)) /\ hit' = hit
    <3>1. CASE Locking(p)
      BY <2>6, <3>1 DEF Locking, memVars
    <3>2. CASE SaveExtras(p)
      BY <2>6, <3>2, Goes, Who DEF SaveExtras, memVars
    <3>3. CASE DumpExtras(p)
      <4>1. slot[p] \in Slot /\ extras \in [Slot -> Files] /\ cachedata_extras' = cachedata_extras
            /\ extras' = [extras EXCEPT ![slot[p]] = Whole(cachedata_extras[p])]
        BY <3>3, Who DEF DumpExtras, CacheTypes, memVars
      <4>2. Whole(cachedata_extras[p]).data \subseteq InFiles'
        BY <4>1, FilesKept
      <4> QED  BY <4>1, <4>2, FileKinds DEF Kept
    <3>4. CASE LookForSlot(p) \/ TakeSlot(p) \/ SlotRefused(p) \/ SlotTaken(p) \/ CreateExtras(p)
      <4>1. pc' = pc \/ \E place \in {"slot", "mine", "dump"} : pc' = [pc EXCEPT ![p] = place]
        BY <3>4 DEF LookForSlot, TakeSlot, SlotRefused, SlotTaken, CreateExtras
      <4>2. pc[p] \notin {"saved", "exited"}
        BY <3>4 DEF LookForSlot, TakeSlot, SlotRefused, SlotTaken, CreateExtras
      <4> QED  BY <4>1, <4>2, Goes, Who
    <3> QED  BY <2>6, <3>1, <3>2, <3>3, <3>4 DEF SaveStep
  <2> QED  BY <1>6, <2>1, <2>2, <2>3, <2>4, <2>5, <2>6 DEF ParserStep
<1>7. ASSUME NEW s \in Servers, ServerCache(s) PROVE Saves(p) /\ cachedata_extras'[p] = cachedata_extras[p]
  BY <1>7, ServerMoves, ServersAre
<1> QED  BY <1>1, <1>2, <1>3, <1>4, <1>5, <1>6, <1>7, StepsAre

LEMMA SavedNext ==
    ASSUME Types, ParsersOnly, PlacesInv, PlacesInv', SlotsInv, SignalsInv, SavedKept, [Next]_vars
    PROVE  SavedKept'
<1>1. CASE main = "init"
  <2>1. \A p \in Parser : pc[p] = "unborn" /\ ~Saves(p)
    BY <1>1 DEF PlacesInv, ParserPlacesInv, Saves
  <2> QED  BY <2>1, NewlySaved, SavedAgain DEF SavedKept, Saves, Kept
<1>2. CASE main # "init"
  <2>1. Kept \subseteq Kept'
    BY <1>2, KeptNext
  <2> QED  BY <2>1, NewlySaved, SavedAgain DEF SavedKept, Saves, Kept
<1> QED  BY <1>1, <1>2

\* However the processes are stopped, what a parser has saved is in a file or
\* in the memory of a server.
THEOREM SavedCorrect == Spec => []SavedKept
<1>1. Init => PlacesInv /\ SlotsInv /\ SignalsInv /\ SavedKept
  <2>1. ASSUME Init PROVE SavedKept
    <3>1. \A p \in Parser : cachedata_extras[p] = {}
      BY <2>1, Who DEF Init, CacheInit
    <3> QED  BY <3>1 DEF SavedKept
  <2> QED  BY <2>1, PlacesInit, SlotsInit
<1>2. Types /\ ParsersOnly /\ PlacesInv /\ SlotsInv /\ SignalsInv /\ SavedKept /\ [Next]_vars
      => PlacesInv' /\ SlotsInv' /\ SignalsInv' /\ SavedKept'
  BY PlacesStep, SlotsNext, SignalsNext, SavedNext
<1> QED  BY <1>1, <1>2, TypesAlways, ParsersAlways, PTL DEF Spec

-----------------------------------------------------------------------------
(* The merge of the server finds all that the parsers have left.           *)

\* Entries of earlier parses.  A parser adds what it has not inherited.
OldInv ==
    /\ main = "init" =>
           /\ cachefile.data \cup InFiles \subseteq Old
           /\ \A q \in Process : cachedata[q] \subseteq Old
           /\ \A p \in Parser : cachedata_extras[p] = {}
    /\ \A p \in Parser : cachedata[p] \subseteq Old /\ cachedata_extras[p] \cap cachedata[p] = {}

\* What the cache calls of a server do while the parsers are not born yet.
OldOnly ==
    /\ cachefile.data \cup InFiles \subseteq Old
    /\ \A q \in Process : cachedata[q] \subseteq Old

LEMMA OldCache ==
    ASSUME CacheTypes, OldOnly, NEW p \in Process, cachedata_extras[p] = {},
           Locking(p) \/ InitCache(p) \/ ReadCache(p) \/ SaveStep(p) \/ MergeStep(p)
    PROVE  OldOnly'
<1> USE DEF CacheTypes
<1>same. ASSUME UNCHANGED <<fileVars, memVars>> PROVE OldOnly'
  BY <1>same DEF OldOnly, InFiles, fileVars, memVars
<1>files. ASSUME \A i \in Slot : extras'[i].data \subseteq extras[i].data
          PROVE  InFiles' \subseteq InFiles
  BY <1>files DEF InFiles
<1>1. CASE \/ Locking(p) \/ InitCache(p) \/ SaveExtras(p) \/ LookForSlot(p) \/ TakeSlot(p) \/ SlotRefused(p) \/ SlotTaken(p)
           \/ SaveMerge(p) \/ ListExtras(p) \/ LoadRaises(p) \/ NothingToMerge(p)
  BY <1>1, <1>same DEF Locking, InitCache, SaveExtras, LookForSlot, TakeSlot, SlotRefused,
     SlotTaken,
     SaveMerge, ListExtras, LoadRaises, NothingToMerge
<1>2. CASE ReadCache(p)
  BY <1>2 DEF ReadCache, fileVars, OldOnly, InFiles
<1>3. CASE CreateExtras(p) \/ DumpExtras(p)
  <2>1. \A i \in Slot : extras'[i].data \subseteq extras[i].data
    <3>1. CASE CreateExtras(p)
      BY <3>1, FileKinds DEF CreateExtras
    <3>2. CASE DumpExtras(p)
      <4>1. extras' = [extras EXCEPT ![slot[p]] = Whole({})] /\ Whole({}).data = {}
        BY <3>2, FileKinds DEF DumpExtras
      <4> QED  BY <4>1
    <3> QED  BY <1>3, <3>1, <3>2
  <2>2. UNCHANGED <<cachefile, memVars>>
    BY <1>3 DEF CreateExtras, DumpExtras
  <2> QED  BY <1>files, <2>1, <2>2 DEF OldOnly, memVars
<1>4. CASE LoadExtras(p)
  <2>1. PICK i \in todo : /\ cachedata' = [cachedata EXCEPT ![p] = @ \cup extras[i].data]
                          /\ extras' = [extras EXCEPT ![i] = NoFile]
    BY <1>4 DEF LoadExtras
  <2>2. \A j \in Slot : extras'[j].data \subseteq extras[j].data
    BY <2>1, FileKinds
  <2>3. extras[i].data \subseteq Old
    BY DEF OldOnly, InFiles
  <2>4. \A q \in Process : cachedata'[q] \subseteq Old
    BY <2>1, <2>3 DEF OldOnly
  <2>5. cachefile' = cachefile
    BY <1>4 DEF LoadExtras
  <2> QED  BY <1>files, <2>2, <2>4, <2>5 DEF OldOnly
<1>5. CASE TruncateCache(p)
  BY <1>5, FileKinds DEF TruncateCache, memVars, OldOnly, InFiles
<1>6. CASE WriteCache(p)
  BY <1>6, FileKinds DEF WriteCache, memVars, OldOnly, InFiles
<1> QED  BY <1>1, <1>2, <1>3, <1>4, <1>5, <1>6 DEF SaveStep, MergeStep

LEMMA OldInit == Init => OldInv
<1> SUFFICES ASSUME Init PROVE OldInv
  OBVIOUS
<1>1. cachedata = [p \in Process |-> {}] /\ cachedata_extras = [p \in Process |-> {}]
  BY DEF Init, CacheInit
<1>2. cachefile.data \subseteq Old
  BY FileKinds DEF Init, CacheInit
<1>3. \A i \in Slot : extras[i].data \subseteq Old
  <2>1. CASE extras = [i \in Slot |-> NoFile]
    BY <2>1, FileKinds
  <2>2. ASSUME NEW j \in scene.pids, NEW f \in {Empty, Torn, Whole(Old)},
               extras = [i \in Slot |-> IF i = j THEN f ELSE NoFile]
        PROVE  \A i \in Slot : extras[i].data \subseteq Old
    BY <2>2, FileKinds
  <2> QED  BY <2>1, <2>2 DEF Init, CacheInit
<1> QED  BY <1>1, <1>2, <1>3, Who DEF OldInv, InFiles

LEMMA OldNext ==
    ASSUME Types, ParsersOnly, PlacesInv, OldInv, [Next]_vars
    PROVE  OldInv'
<1> USE DEF Types
<1>same. ASSUME UNCHANGED <<cachefile, extras, cachedata, cachedata_extras>>, main = "init" \/ main' # "init" PROVE OldInv'
  BY <1>same DEF OldInv, InFiles
<1>born. ASSUME main' # "init", UNCHANGED <<cachedata, cachedata_extras>> PROVE OldInv'
  BY <1>born DEF OldInv
<1>1. CASE UNCHANGED vars
  BY <1>1, <1>same DEF OldInv, InFiles, vars, cacheVars, storeVars, fileVars, memVars, mainVars
<1>2. CASE Start
  <2>1. /\ main = "init" /\ main' = "alive" /\ cachedata_extras' = cachedata_extras
        /\ cachedata' = [p \in Process |-> IF p \in Parser THEN cachedata[Main] ELSE cachedata[p]]
    BY <1>2 DEF Start
  <2>2. \A p \in Parser : cachedata'[p] = cachedata[Main] /\ cachedata_extras'[p] = {}
    BY <2>1, Who DEF OldInv
  <2> QED  BY <2>1, <2>2, Who DEF OldInv
<1>3. CASE MainOnly \/ Join \/ Merge \/ Finish \/ Terminate
  <2>1. UNCHANGED <<cachedata, cachedata_extras>>
    BY <1>3, MainOnlyMoves, TerminateMoves DEF Join, Merge, Finish, cacheVars, storeVars, memVars
  <2>2. main' # "init"
    BY <1>3, MainOnlyMoves, TerminateMoves DEF Join, Merge, Finish
  <2> QED  BY <2>1, <2>2, <1>born
<1>4. ASSUME NEW p \in Parser, ParserStep(p) \/ Killed(p) PROVE OldInv'
  <2>0. /\ UNCHANGED <<cachedata, main>>
        /\ \A q \in Process \ {p} : pc'[q] = pc[q] /\ cachedata_extras'[q] = cachedata_extras[q]
        /\ cachedata_extras'[p] # cachedata_extras[p] => pc[p] = "loop" /\ pc'[p] = "loop"
    BY <1>4, ParserMoves DEF mainVars
  <2>1. CASE main = "init"
    <3>1. pc[p] = "unborn"
      BY <2>1 DEF PlacesInv, ParserPlacesInv
    <3>2. cachedata_extras' = cachedata_extras /\ UNCHANGED fileVars
      BY <1>4, <3>1 DEF ParserStep, TakeJob, Parse, ParseInterrupted, LeaveLoop, Feed,
         JoinFeeder, Exit, ExitInterrupted,
         Killed, SavePlaces, Locking, SaveStep, SaveExtras, LookForSlot, TakeSlot, SlotRefused, SlotTaken,
         CreateExtras, DumpExtras, cacheVars, storeVars, memVars
    <3> QED  BY <2>0, <2>1, <3>2, <1>same DEF fileVars
  <2>2. CASE main # "init" /\ Parse(p)
    <3>1. cachedata_extras'[p] = cachedata_extras[p] \cup ({parsing[p]} \ cachedata[p])
      BY <2>2, Who DEF Parse, CacheTypes
    <3> QED  BY <2>0, <2>2, <3>1, Who DEF OldInv
  <2>3. CASE main # "init" /\ ~Parse(p)
    <3>1. cachedata_extras' = cachedata_extras
      BY <1>4, <2>3 DEF ParserStep, TakeJob, ParseInterrupted, LeaveLoop, Feed, JoinFeeder, Exit,
         ExitInterrupted,
         Killed, Ends, CallCutOff, Locking, SaveStep, SaveExtras, LookForSlot, TakeSlot, SlotRefused, SlotTaken,
         CreateExtras, DumpExtras, cacheVars, storeVars, memVars
    <3> QED  BY <2>0, <2>3, <3>1, <1>born
  <2> QED  BY <2>1, <2>2, <2>3
<1>5. ASSUME NEW s \in Servers, ServerCache(s) PROVE OldInv'
  <2>1. /\ UNCHANGED <<cachedata_extras, main>> /\ \A p \in Parser : cachedata'[p] = cachedata[p]
    BY <1>5, ServerMoves, ServersAre DEF mainVars
  <2>2. CASE main # "init"
    BY <2>1, <2>2 DEF OldInv
  <2>3. CASE main = "init"
    <3>1. OldOnly /\ s \in Process /\ cachedata_extras[s] = {}
      BY <2>3, ServersAre DEF OldInv, OldOnly, PlacesInv, ServerPlaces
    <3>2. OldOnly'
      <4>1. CASE UNCHANGED storeVars
        BY <3>1, <4>1 DEF storeVars, fileVars, memVars, OldOnly, InFiles
      <4>2. CASE Locking(s) \/ InitCache(s) \/ ReadCache(s) \/ SaveStep(s) \/ MergeStep(s)
        BY <3>1, <4>2, OldCache
      <4> QED  BY <1>5, <4>1, <4>2 DEF ServerCache
    <3> QED  BY <2>1, <2>3, <3>2 DEF OldOnly, OldInv
  <2> QED  BY <2>2, <2>3
<1> QED  BY <1>1, <1>2, <1>3, <1>4, <1>5, StepsAre DEF MainOnly

NoneWhole(S) == \A i \in S : extras[i].is # "whole"
InOthers == UNION {cachedata[o] : o \in Other}

\* What the parsers of this parse have added to the cache.
Added == UNION {cachedata_extras[p] : p \in Parser}

\* What the server had read when the parsers were forked is all it has.
AsForked == \A p \in Parser : cachedata[p] = cachedata[Main]

\* While the server merges, what it has not listed or has taken is not there
\* any more; after it has merged, nobody finds a file to merge.
TakenInv ==
    /\ main # "init" /\ pc[Main] \in {"out", "save", "saved", "merge", "alone"} => AsForked
    /\ pc[Main] = "load" /\ ~have_data => AsForked
    /\ pc[Main] \in {"load", "write"} => NoneWhole(Slot \ todo)
    /\ pc[Main] = "write" => todo = {}
    /\ pc[Main] = "merged" /\ hit = {} =>
           /\ Added \subseteq cachefile.data \cup InOthers
           /\ NoneWhole(Slot)
           /\ \A o \in Other : (pc[o] = "load" => ~have_data) /\ pc[o] # "write"

LEMMA TakenInit == Init => TakenInv
<1> SUFFICES ASSUME Init PROVE TakenInv
  OBVIOUS
<1>1. main = "init" /\ pc[Main] \in InitPlaces
  BY PlacesInit DEF PlacesInv, ServerPlaces, Init
<1> QED  BY <1>1 DEF TakenInv, InitPlaces

\* While the server reads files or writes, a step of another process leaves
\* its list alone and makes no file whole.
LEMMA TakenOthers ==
    ASSUME Types, Types', MergeSeesWhole, MergeSeesWhole', NEW q \in Process \ {Main},
           pc[Main] \in {"load", "write"}, pc'[Main] = pc[Main],
           Locking(q) \/ SaveStep(q) \/ MergeStep(q)
    PROVE  todo' = todo /\ have_data' = have_data /\ \A i \in Slot : extras'[i].is = "whole" => extras'[i] = extras[i]
<1>1. pc[q] \notin {"dump", "load", "write"} /\ pc'[q] \notin {"dump", "load", "write"}
  BY Who DEF MergeSeesWhole
<1> USE DEF Types
<1>2. CASE \/ Locking(q) \/ SaveExtras(q) \/ LookForSlot(q) \/ TakeSlot(q) \/ SlotRefused(q) \/ SlotTaken(q) \/ SaveMerge(q)
  BY <1>2 DEF Locking, SaveExtras, LookForSlot, TakeSlot, SlotRefused, SlotTaken, SaveMerge,
     fileVars, mergeVars
<1>3. CASE CreateExtras(q) \/ ListExtras(q)
  BY <1>1, <1>3, Goes DEF CreateExtras, ListExtras, GoesTo
<1>4. CASE DumpExtras(q) \/ LoadExtras(q) \/ LoadRaises(q) \/ NothingToMerge(q) \/ TruncateCache(q) \/ WriteCache(q)
  BY <1>1, <1>4 DEF DumpExtras, LoadExtras, LoadRaises, NothingToMerge, TruncateCache, WriteCache
<1> QED  BY <1>2, <1>3, <1>4 DEF SaveStep, MergeStep

\* A process that ends makes no file whole.
LEMMA CutOffWhole ==
    ASSUME CacheTypes, NEW q \in Process, CallCutOff(q)
    PROVE  /\ UNCHANGED <<cachefile, memVars, mergeVars>>
           /\ \A i \in Slot : extras'[i].is = "whole" => extras'[i] = extras[i]
BY FileKinds DEF CallCutOff, CacheTypes

\* When the server has merged the parsers are gone, and with nobody hurt all
\* they have added was in files or servers.
LEMMA AllSaved ==
    ASSUME PlacesInv, SavedKept, main \in {"merge", "done"}, hit = {}
    PROVE  Added \subseteq InFiles \cup cachedata[Main] \cup InOthers
<1>1. \A p \in Parser : Saves(p)
  BY DEF PlacesInv, ParserPlacesInv, Saves, Alive
<1>2. \A p \in Parser : cachedata_extras[p] \subseteq Kept
  BY <1>1, SavedAgain
<1> QED  BY <1>2 DEF Added, Kept, Servers, InOthers

LEMMA NoneInFiles ==
    ASSUME CacheTypes, NoneWhole(Slot)
    PROVE  InFiles = {}
BY FileKinds DEF CacheTypes, NoneWhole, InFiles

LEMMA MergingIs ==
    ASSUME Types, PlacesInv
    PROVE  /\ pc[Main] \in {"alone", "load", "write"} => main = "merge"
           /\ pc[Main] = "merged" => main \in {"merge", "done"}
           /\ pc[Main] \notin {"shared", "slot", "mine", "dump"}
<1>1. main \in MainPlaces
  BY DEF Types, ServerTypes
<1> QED  BY <1>1 DEF PlacesInv, ServerPlaces, MainPlaces, InitPlaces, MergePlaces

LEMMA TakenMain ==
    ASSUME Types, Types', PlacesInv, SlotsInv, OldInv, SavedKept, MergeSeesWhole, TakenInv,
           Locking(Main) \/ InitCache(Main) \/ ReadCache(Main) \/ SaveStep(Main) \/ MergeStep(Main),
           UNCHANGED <<main, hit>>
    PROVE  TakenInv'
<1> USE Who DEF Types, GoesTo
<1>0. cachedata_extras' = cachedata_extras /\ (pc[Main] # "load" /\ pc[Main] # "read" => cachedata' = cachedata)
  <2>1. cachedata_extras' = cachedata_extras
    BY CacheMoves
  <2>2. ASSUME pc[Main] # "load", pc[Main] # "read" PROVE cachedata' = cachedata
    BY <2>2, CacheMoves DEF CacheTypes
  <2> QED  BY <2>1, <2>2
<1>1. CASE Locking(Main)
  BY <1>1 DEF Locking, TakenInv, AsForked, NoneWhole, Added, InOthers, fileVars, memVars,
     mergeVars
<1>2. CASE InitCache(Main) \/ ReadCache(Main) \/ LoadRaises(Main)
  <2>1. pc'[Main] \in {"read", "loaded", "raised"}
    BY <1>2, Goes DEF InitCache, ReadCache, LoadRaises
  <2> QED  BY <2>1 DEF TakenInv
<1>3. CASE SaveExtras(Main) \/ SaveMerge(Main)
  <2>1. pc[Main] \in {"save", "merge"} /\ UNCHANGED <<cachedata, cachedata_extras>>
    BY <1>3 DEF SaveExtras, SaveMerge, memVars
  <2>2. pc'[Main] \in {"saved", "shared", "alone"}
    BY <1>3, Goes DEF SaveExtras, SaveMerge
  <2> QED  BY <2>1, <2>2 DEF TakenInv, AsForked
<1>4. CASE LookForSlot(Main) \/ TakeSlot(Main) \/ SlotRefused(Main) \/ SlotTaken(Main) \/ CreateExtras(Main) \/ DumpExtras(Main)
  BY <1>4, MergingIs DEF LookForSlot, TakeSlot, SlotRefused, SlotTaken, CreateExtras, DumpExtras
<1>5. CASE ListExtras(Main)
  <2>1. /\ pc[Main] = "alone" /\ pc'[Main] = "load" /\ UNCHANGED <<extras, cachedata>>
        /\ todo' = {i \in Slot : extras[i] # NoFile}
    BY <1>5, Goes DEF ListExtras, fileVars, memVars
  <2>2. main # "init"
    BY <2>1, MergingIs
  <2>3. AsForked'
    BY <2>1, <2>2 DEF TakenInv, AsForked
  <2>4. NoneWhole(Slot \ todo)'
    BY <2>1, FileKinds DEF NoneWhole
  <2> QED  BY <2>1, <2>3, <2>4 DEF TakenInv
<1>6. CASE LoadExtras(Main)
  <2>1. PICK i \in todo : /\ todo' = todo \ {i}
                          /\ have_data' = (have_data \/ extras[i].is = "whole")
                          /\ cachedata' = [cachedata EXCEPT ![Main] = @ \cup extras[i].data]
                          /\ extras' = [extras EXCEPT ![i] = NoFile]
    BY <1>6 DEF LoadExtras
  <2>2. pc[Main] = "load" /\ pc' = pc /\ i \in Slot
    BY <1>6 DEF LoadExtras, CacheTypes
  <2>3. NoneWhole(Slot \ todo)'
    <3>1. \A j \in Slot : j # i => extras'[j] = extras[j]
      BY <2>1 DEF CacheTypes
    <3>2. extras'[i].is # "whole"
      BY <2>1, <2>2, FileKinds DEF CacheTypes
    <3> QED  BY <2>1, <2>2, <3>1, <3>2 DEF TakenInv, NoneWhole
  <2>4. ~have_data' => AsForked'
    <3> SUFFICES ASSUME ~have_data' PROVE AsForked'
      OBVIOUS
    <3>1. ~have_data /\ extras[i].is # "whole"
      BY <2>1 DEF CacheTypes
    <3>2. extras[i].data = {}
      BY <2>2, <3>1, FileKinds DEF CacheTypes
    <3>3. cachedata' = cachedata
      BY <2>1, <3>2 DEF CacheTypes
    <3> QED  BY <2>2, <3>1, <3>3 DEF TakenInv, AsForked
  <2> QED  BY <2>2, <2>3, <2>4 DEF TakenInv
<1>7. CASE TruncateCache(Main)
  <2>1. pc[Main] = "load" /\ pc'[Main] = "write" /\ UNCHANGED <<extras, todo>> /\ todo = {}
    BY <1>7, Goes DEF TruncateCache, mergeVars
  <2> QED  BY <2>1 DEF TakenInv, NoneWhole
<1>8. CASE NothingToMerge(Main) \/ WriteCache(Main)
  <2>1. /\ pc[Main] \in {"load", "write"} /\ pc'[Main] = "merged" /\ UNCHANGED <<extras, cachedata>> /\ todo = {}
        /\ \A o \in Other : pc'[o] = pc[o]
    BY <1>8, Goes DEF NothingToMerge, WriteCache, memVars, fileVars, TakenInv
  <2>2. NoneWhole(Slot) /\ InFiles = {}
    BY <2>1, NoneInFiles DEF TakenInv, NoneWhole
  <2>3. \A o \in Other : pc'[o] \notin {"load", "write"}
    BY <2>1 DEF MergeSeesWhole
  <2>4. ASSUME hit = {} PROVE Added \subseteq cachefile'.data \cup InOthers
    <3>1. Added \subseteq cachedata[Main] \cup InOthers
      BY <2>1, <2>2, <2>4, AllSaved, MergingIs
    <3>2. CASE WriteCache(Main)
      BY <3>1, <3>2, FileKinds DEF WriteCache
    <3>3. CASE NothingToMerge(Main)
      <4>1. \A p \in Parser : cachedata[p] = cachedata[Main]
        BY <3>3 DEF NothingToMerge, TakenInv, AsForked
      <4>2. \A p \in Parser : cachedata_extras[p] \cap cachedata[Main] = {}
        BY <4>1 DEF OldInv
      <4> QED  BY <3>1, <4>2 DEF Added
    <3> QED  BY <1>8, <3>2, <3>3
  <2>5. Added' = Added /\ InOthers' = InOthers /\ NoneWhole(Slot)'
    BY <1>0, <2>1, <2>2 DEF Added, InOthers, NoneWhole
  <2> QED  BY <2>1, <2>2, <2>3, <2>4, <2>5 DEF TakenInv
<1> QED  BY <1>1, <1>2, <1>3, <1>4, <1>5, <1>6, <1>7, <1>8 DEF SaveStep, MergeStep

LEMMA TakenOther ==
    ASSUME Types, Types', PlacesInv, MergeSeesWhole, MergeSeesWhole', TakenInv, NEW o \in Other, ServerCache(o)
    PROVE  TakenInv'
<1> USE DEF Types, GoesTo
<1>0. /\ UNCHANGED <<cachedata_extras, main, hit>> /\ o \in Process \ {Main}
      /\ \A q \in Process \ {o} : pc'[q] = pc[q] /\ cachedata'[q] = cachedata[q]
  BY ServerMoves, Who DEF Servers, mainVars
<1>1. pc'[Main] = pc[Main] /\ cachedata'[Main] = cachedata[Main] /\ \A p \in Parser : cachedata'[p] = cachedata[p]
  BY <1>0, Who
<1>2. Locking(o) \/ MergeStep(o) \/ (pc[o] = "loaded" /\ pc' = [pc EXCEPT ![o] = "merge"] /\ UNCHANGED storeVars)
  BY Who DEF ServerCache
<1>3. ASSUME pc[Main] \in {"load", "write"}
      PROVE  todo' = todo /\ have_data' = have_data /\ \A i \in Slot : extras'[i].is = "whole" => extras'[i] = extras[i]
  BY <1>0, <1>1, <1>2, <1>3, TakenOthers DEF storeVars, fileVars, mergeVars
<1>4. ASSUME pc[Main] = "merged", hit = {}
      PROVE  /\ cachefile' = cachefile /\ InOthers \subseteq InOthers' /\ NoneWhole(Slot)'
             /\ \A r \in Other : (pc'[r] = "load" => ~have_data') /\ pc'[r] # "write"
  <2>1. NoneWhole(Slot) /\ \A r \in Other : (pc[r] = "load" => ~have_data) /\ pc[r] # "write"
    BY <1>4 DEF TakenInv
  <2>2. \A r \in Other : r # o => pc'[r] = pc[r]
    BY <1>0, Who
  <2>3. CASE Locking(o) \/ (pc' = [pc EXCEPT ![o] = "merge"] /\ UNCHANGED storeVars)
    <3>1. UNCHANGED <<cachefile, extras, cachedata, have_data>>
      BY <2>3 DEF Locking, storeVars, fileVars, memVars, mergeVars
    <3>2. pc'[o] = pc[o] \/ pc'[o] = "merge"
      BY <1>0, <2>3, Goes DEF Locking
    <3> QED  BY <2>1, <2>2, <3>1, <3>2 DEF InOthers, NoneWhole
  <2>4. CASE SaveMerge(o) \/ LoadRaises(o) \/ NothingToMerge(o)
    <3>1. UNCHANGED <<cachefile, extras, cachedata, have_data>> /\ pc'[o] \in {"alone", "raised", "merged"}
      BY <1>0, <2>4, Goes DEF SaveMerge, LoadRaises, NothingToMerge, fileVars, memVars, mergeVars
    <3> QED  BY <2>1, <2>2, <3>1 DEF InOthers, NoneWhole
  <2>5. CASE ListExtras(o)
    <3>1. UNCHANGED <<cachefile, extras, cachedata>> /\ have_data' = FALSE /\ pc'[o] = "load"
      BY <1>0, <2>5, Goes DEF ListExtras, fileVars, memVars
    <3> QED  BY <2>1, <2>2, <3>1 DEF InOthers, NoneWhole
  <2>6. CASE LoadExtras(o)
    <3>1. PICK i \in todo : /\ have_data' = (have_data \/ extras[i].is = "whole")
                            /\ cachedata' = [cachedata EXCEPT ![o] = @ \cup extras[i].data]
                            /\ extras' = [extras EXCEPT ![i] = NoFile]
      BY <2>6 DEF LoadExtras
    <3>2. i \in Slot /\ pc' = pc /\ cachefile' = cachefile /\ pc[o] = "load"
      BY <2>6 DEF LoadExtras, CacheTypes
    <3>3. have_data' = have_data
      BY <2>1, <3>1, <3>2 DEF NoneWhole, CacheTypes
    <3>4. NoneWhole(Slot)'
      BY <2>1, <3>1, <3>2, FileKinds DEF NoneWhole, CacheTypes
    <3>5. \A r \in Other : cachedata[r] \subseteq cachedata'[r]
      BY <3>1, Who DEF CacheTypes
    <3> QED  BY <2>1, <3>2, <3>3, <3>4, <3>5 DEF InOthers
  <2>7. CASE TruncateCache(o) \/ WriteCache(o)
    BY <2>1, <2>7 DEF TruncateCache, WriteCache
  <2> QED  BY <1>2, <2>3, <2>4, <2>5, <2>6, <2>7 DEF MergeStep
<1>5. AsForked => AsForked'
  BY <1>1 DEF AsForked
<1>6. Added' = Added
  BY <1>0 DEF Added
<1>7. pc[Main] \in {"load", "write"} => (NoneWhole(Slot \ todo) => NoneWhole(Slot \ todo)')
  BY <1>3 DEF NoneWhole
<1> QED  BY <1>0, <1>1, <1>3, <1>4, <1>5, <1>6, <1>7 DEF TakenInv

LEMMA TakenParser ==
    ASSUME Types, Types', PlacesInv, MergeSeesWhole, MergeSeesWhole', TakenInv,
           NEW p \in Parser, ParserStep(p) \/ Killed(p)
    PROVE  TakenInv'
<1> USE DEF Types, GoesTo
<1>0. /\ UNCHANGED <<cachefile, cachedata, mergeVars, main>> /\ p \in Process \ {Main}
      /\ \A q \in Process \ {p} : pc'[q] = pc[q] /\ cachedata_extras'[q] = cachedata_extras[q]
      /\ cachedata_extras'[p] # cachedata_extras[p] => Alive(p)
  BY ParserMoves, Who DEF mainVars, Alive
<1>1. pc'[Main] = pc[Main] /\ \A o \in Other : pc'[o] = pc[o]
  BY <1>0, Who
<1>2. hit' = {} => hit = {}
  BY DEF ParserStep, TakeJob, Parse, ParseInterrupted, LeaveLoop, Feed, JoinFeeder, Exit,
     ExitInterrupted, Killed
<1>3. \/ UNCHANGED fileVars
      \/ CallCutOff(p) /\ Alive(p)
      \/ (Locking(p) \/ SaveStep(p)) /\ Alive(p)
  BY DEF ParserStep, TakeJob, Parse, ParseInterrupted, LeaveLoop, Feed, JoinFeeder, Exit,
     ExitInterrupted, Killed, Ends, Alive,
         cacheVars, storeVars, SavePlaces, SaveStep, Locking, SaveExtras, LookForSlot, TakeSlot, SlotRefused, SlotTaken,
         CreateExtras, DumpExtras
<1>4. ASSUME pc[Main] \in {"load", "write"}
      PROVE  \A i \in Slot : extras'[i].is = "whole" => extras'[i] = extras[i]
  BY <1>0, <1>1, <1>3, <1>4, TakenOthers, CutOffWhole DEF fileVars
<1>5. ASSUME pc[Main] = "merged" PROVE UNCHANGED extras /\ cachedata_extras' = cachedata_extras
  <2>1. ~Alive(p)
    BY <1>5, MergingIs DEF PlacesInv, ParserPlacesInv
  <2> QED  BY <1>0, <1>3, <2>1 DEF fileVars, CacheTypes
<1>6. pc[Main] = "merged" => Added' = Added /\ InOthers' = InOthers /\ (NoneWhole(Slot) => NoneWhole(Slot)')
  BY <1>0, <1>5 DEF Added, InOthers, NoneWhole
<1>7. pc[Main] \in {"load", "write"} => (NoneWhole(Slot \ todo) => NoneWhole(Slot \ todo)')
  BY <1>0, <1>4 DEF NoneWhole, mergeVars
<1> QED  BY <1>0, <1>1, <1>2, <1>6, <1>7 DEF TakenInv, AsForked, mergeVars

LEMMA TakenNext ==
    ASSUME Types, Types', ParsersOnly, PlacesInv, SlotsInv, OldInv, SavedKept, MergeSeesWhole, MergeSeesWhole',
           TakenInv, [Next]_vars
    PROVE  TakenInv'
<1> USE DEF Types, GoesTo
<1>1. CASE UNCHANGED vars \/ MainOnly \/ Finish
  <2>1. UNCHANGED cacheVars /\ (main' # "init" => main # "init") /\ (hit' = {} => hit = {})
    BY <1>1, MainOnlyMoves DEF vars, Finish, mainVars
  <2> QED  BY <2>1 DEF TakenInv, AsForked, NoneWhole, Added, InOthers, cacheVars, storeVars,
     fileVars, memVars, mergeVars
<1>2. CASE Start
  <2>1. pc' = [p \in Process |-> CASE p = Main -> "out" [] p \in Parser -> "loop" [] OTHER -> pc[p]]
    BY <1>2 DEF Start
  <2>2. pc'[Main] = "out"
    <3>1. Main \notin Parser /\ pc'[Main] = CASE Main = Main -> "out" [] Main \in Parser -> "loop" [] OTHER -> pc[Main]
      BY <2>1, Who
    <3> QED  BY <3>1
  <2>3. AsForked'
    BY <1>2, Who DEF Start, AsForked
  <2> QED  BY <2>2, <2>3 DEF TakenInv
<1>3. CASE Terminate
  <2>1. main = "interrupted" /\ pc[Main] = "out" /\ cachedata' = cachedata
    BY <1>3, TerminateMoves DEF PlacesInv, ServerPlaces, memVars
  <2>2. pc'[Main] = "out"
    BY <1>3, <2>1, TerminateMoves, Goes, Who DEF cacheVars
  <2> QED  BY <2>1, <2>2 DEF TakenInv, AsForked
<1>4. CASE Join \/ Merge
  <2>1. /\ main # "init" /\ pc[Main] \in {"out", "saved"} /\ cachedata' = cachedata
        /\ \E place \in {"save", "merge"} : pc' = [pc EXCEPT ![Main] = place]
    BY <1>4 DEF Join, Merge, PlacesInv, ServerPlaces, storeVars, memVars
  <2>2. pc'[Main] \in {"save", "merge"}
    BY <2>1, Goes, Who
  <2> QED  BY <2>1, <2>2 DEF TakenInv, AsForked
<1>5. ASSUME NEW p \in Parser, ParserStep(p) \/ Killed(p) PROVE TakenInv'
  BY <1>5, TakenParser
<1>6. ASSUME NEW s \in Servers, ServerCache(s) PROVE TakenInv'
  <2>1. CASE s \in Other
    BY <1>6, <2>1, TakenOther
  <2>2. CASE s = Main
    <3>1. UNCHANGED <<main, hit>>
      BY <1>6 DEF ServerCache, mainVars
    <3> QED  BY <1>6, <2>2, <3>1, TakenMain, Who DEF ServerCache
  <2> QED  BY <2>1, <2>2 DEF Servers
<1> QED  BY <1>1, <1>2, <1>3, <1>4, <1>5, <1>6, StepsAre DEF MainOnly

-----------------------------------------------------------------------------
(* Where the recipes of a parse are: still to do, being parsed, on their   *)
(* way to the server, or counted.                                          *)

Members(s) == {s[i] : i \in DOMAIN s}
RecipesOf(s) == {r.recipe : r \in Members(s)}
Oks(s) == {r.recipe : r \in {m \in Members(s) : m.ok}}

LEMMA MembersFacts ==
    ASSUME NEW S, NEW s \in Seq(S)
    PROVE  /\ Members(s) \subseteq S
           /\ Members(<<>>) = {}
           /\ \A e \in S : Members(Append(s, e)) = Members(s) \cup {e}
           /\ s # <<>> => /\ Head(s) \in S /\ Members(s) = {Head(s)} \cup Members(Tail(s))
                          /\ Members(Tail(s)) \subseteq Members(s)
                          /\ s[Len(s)] \in Members(s)
                          /\ Members(s) = {s[Len(s)]} \cup Members(SubSeq(s, 1, Len(s) - 1))
<1>1. Members(s) \subseteq S /\ Members(<<>>) = {}
  BY DEF Members
<1>2. ASSUME NEW e \in S PROVE Members(Append(s, e)) = Members(s) \cup {e}
  <2>1. /\ DOMAIN s = 1 .. Len(s) /\ DOMAIN Append(s, e) = 1 .. Len(s) + 1 /\ Len(s) \in Nat
        /\ Append(s, e)[Len(s) + 1] = e /\ \A i \in 1 .. Len(s) : Append(s, e)[i] = s[i]
    OBVIOUS
  <2>2. 1 .. Len(s) + 1 = (1 .. Len(s)) \cup {Len(s) + 1}
    BY <2>1
  <2> QED  BY <2>1, <2>2 DEF Members
<1>3. ASSUME s # <<>> PROVE Head(s) \in S /\ Members(s) = {Head(s)} \cup Members(Tail(s))
  <2> DEFINE n == Len(s)
             t == Tail(s)
  <2>1. DOMAIN s = 1 .. n /\ n \in Nat \ {0} /\ Head(s) = s[1]
    BY <1>3
  <2>2. DOMAIN t = 1 .. n - 1 /\ \A i \in 1 .. n - 1 : t[i] = s[i + 1]
    BY <1>3, <2>1
  <2> HIDE DEF n, t
  <2>3. \A i \in 1 .. n : i = 1 \/ (i - 1 \in 1 .. n - 1 /\ s[i] = t[i - 1])
    BY <2>1, <2>2
  <2>4. \A i \in 1 .. n - 1 : i + 1 \in 1 .. n
    BY <2>1
  <2>5. 1 \in 1 .. n
    BY <2>1
  <2>6. Members(s) \subseteq {Head(s)} \cup Members(t)
    <3>1. ASSUME NEW i \in 1 .. n PROVE s[i] \in {Head(s)} \cup Members(t)
      <4>1. CASE i = 1
        BY <2>1, <4>1
      <4>2. CASE i - 1 \in 1 .. n - 1 /\ s[i] = t[i - 1]
        BY <2>2, <4>2 DEF Members
      <4> QED  BY <2>3, <4>1, <4>2
    <3> QED  BY <2>1, <3>1 DEF Members
  <2>7. Members(t) \subseteq Members(s) /\ Head(s) \in Members(s)
    BY <2>1, <2>2, <2>4, <2>5 DEF Members
  <2> QED  BY <1>1, <2>6, <2>7 DEF t
<1>4. ASSUME s # <<>> PROVE s[Len(s)] \in Members(s) /\ Members(s) = {s[Len(s)]} \cup Members(SubSeq(s, 1, Len(s) - 1))
  <2> DEFINE n == Len(s)
             t == SubSeq(s, 1, n - 1)
  <2>1. DOMAIN s = 1 .. n /\ n \in Nat \ {0}
    BY <1>4
  <2>2. DOMAIN t = 1 .. n - 1 /\ \A i \in 1 .. n - 1 : t[i] = s[i]
    BY <2>1
  <2>3. 1 .. n = (1 .. n - 1) \cup {n}
    BY <2>1
  <2> HIDE DEF n, t
  <2>4. s[n] \in Members(s) /\ Members(t) \subseteq Members(s)
    BY <2>1, <2>2, <2>3 DEF Members
  <2>5. Members(s) \subseteq {s[n]} \cup Members(t)
    BY <2>1, <2>2, <2>3 DEF Members
  <2> QED  BY <2>4, <2>5 DEF n, t
<1> QED  BY <1>1, <1>2, <1>3, <1>4

\* The same of results.
LEMMA ResultsFacts ==
    ASSUME NEW s \in Seq(Results)
    PROVE  /\ RecipesOf(<<>>) = {} /\ Oks(<<>>) = {}
           /\ Oks(s) \subseteq RecipesOf(s)
           /\ \A e \in Results : /\ RecipesOf(Append(s, e)) = RecipesOf(s) \cup {e.recipe}
                                 /\ Oks(Append(s, e)) = Oks(s) \cup (IF e.ok THEN {e.recipe} ELSE {})
           /\ s # <<>> => /\ Head(s) \in Results
                          /\ RecipesOf(s) = {Head(s).recipe} \cup RecipesOf(Tail(s))
                          /\ Oks(s) = Oks(Tail(s)) \cup (IF Head(s).ok THEN {Head(s).recipe} ELSE {})
<1>1. \A e \in Results : e.ok \in BOOLEAN /\ e.recipe \in Recipe
  BY DEF Results
<1>2. RecipesOf(<<>>) = {} /\ Oks(<<>>) = {}
  <2>1. Members(<<>>) = {}
    BY MembersFacts
  <2> QED  BY <2>1 DEF RecipesOf, Oks
<1>3. ASSUME NEW e \in Results
      PROVE  /\ RecipesOf(Append(s, e)) = RecipesOf(s) \cup {e.recipe}
             /\ Oks(Append(s, e)) = Oks(s) \cup (IF e.ok THEN {e.recipe} ELSE {})
  <2>1. Members(Append(s, e)) = Members(s) \cup {e}
    BY MembersFacts
  <2> QED  BY <2>1 DEF RecipesOf, Oks
<1>4. ASSUME s # <<>>
      PROVE  /\ Head(s) \in Results
             /\ RecipesOf(s) = {Head(s).recipe} \cup RecipesOf(Tail(s))
             /\ Oks(s) = Oks(Tail(s)) \cup (IF Head(s).ok THEN {Head(s).recipe} ELSE {})
  <2>1. Head(s) \in Results /\ Members(s) = {Head(s)} \cup Members(Tail(s))
    BY <1>4, MembersFacts
  <2> QED  BY <2>1 DEF RecipesOf, Oks
<1> QED  BY <1>2, <1>3, <1>4 DEF RecipesOf, Oks

\* Everything on the way is a recipe of this parse, and what was parsed well
\* is an entry the parse has added, or an old one.
SourcesInv ==
    /\ \A p \in Parser : /\ Members(jobs[p]) \subseteq Toparse /\ parsing[p] \in Toparse \cup {None}
                         /\ RecipesOf(buffer[p]) \subseteq Toparse
                         /\ Oks(buffer[p]) \subseteq Added \cup Old
    /\ RecipesOf(pipe) \cup got \subseteq Toparse
    /\ Oks(pipe) \cup got \subseteq Added \cup Old

LEMMA ToparseIs ==
    ASSUME scene \in Scenes
    PROVE  /\ Toparse = UNION {Members(scene.jobs[p]) : p \in Parser}
           /\ Toparse \subseteq Recipe /\ IsFiniteSet(Toparse) /\ None \notin Toparse
<1>1. Toparse = UNION {Members(scene.jobs[p]) : p \in Parser}
  BY DEF Toparse, Members
<1>2. \A p \in Parser : scene.jobs[p] \in Seq(Recipe) /\ Members(scene.jobs[p]) \subseteq Recipe
  BY ScenesAre, MembersFacts
<1>3. ASSUME NEW p \in Parser PROVE IsFiniteSet(Members(scene.jobs[p]))
  <2> DEFINE s == scene.jobs[p]
             f == [i \in 1 .. Len(s) |-> s[i]]
  <2>1. s \in Seq(Recipe) /\ Len(s) \in Nat /\ DOMAIN s = 1 .. Len(s)
    BY <1>2
  <2>2. IsFiniteSet(1 .. Len(s))
    BY <2>1, FS_Interval
  <2>3. f \in Surjection(1 .. Len(s), Members(s))
    BY <2>1 DEF Surjection, Members
  <2> HIDE DEF s
  <2>4. IsFiniteSet(Members(s))
    BY <2>2, <2>3, FS_Surjection
  <2> QED  BY <2>4 DEF s
<1>4. IsFiniteSet({Members(scene.jobs[p]) : p \in Parser})
  <2> DEFINE g == [p \in Parser |-> Members(scene.jobs[p])]
             T == {Members(scene.jobs[p]) : p \in Parser}
  <2>1. g \in Surjection(Parser, T)
    BY DEF Surjection
  <2>2. IsFiniteSet(Parser)
    BY ParserAssumption
  <2> HIDE DEF g, T
  <2>3. IsFiniteSet(T)
    BY <2>1, <2>2, FS_Surjection
  <2> QED  BY <2>3 DEF T
<1>5. IsFiniteSet(Toparse)
  BY <1>1, <1>3, <1>4, FS_UNION
<1> QED  BY <1>1, <1>2, <1>5, ParserAssumption

\* All is parsed when and only when every recipe of the parse is counted.
LEMMA AllParsedIs ==
    ASSUME scene \in Scenes, got \subseteq Toparse
    PROVE  AllParsed <=> got = Toparse
<1>1. IsFiniteSet(Toparse)
  BY ToparseIs
<1>2. IsFiniteSet(got) /\ Cardinality(got) <= Cardinality(Toparse) /\ (Cardinality(Toparse) = Cardinality(got) => Toparse = got)
  BY <1>1, FS_Subset
<1>3. Cardinality(got) \in Nat /\ Cardinality(Toparse) \in Nat
  BY <1>1, <1>2, FS_CardinalityType
<1> QED  BY <1>2, <1>3 DEF AllParsed

\* The steps that leave the recipes where they are.
StillSteps ==
    \/ UNCHANGED vars \/ Start \/ CheckAlive \/ GetTimesOut \/ Halt \/ Interrupt \/ Join \/ Merge \/ Finish
    \/ \E s \in Servers : ServerCache(s)

LEMMA StillMoves ==
    ASSUME Types, StillSteps
    PROVE  UNCHANGED <<jobs, parsing, buffer, pipe, got, scene, cachedata_extras>>
<1>1. CASE \E s \in Servers : ServerCache(s)
  BY <1>1, ServerMoves DEF queueVars, mainVars, rest
<1>2. CASE UNCHANGED vars \/ Start \/ CheckAlive \/ GetTimesOut \/ Halt \/ Interrupt \/ Join \/ Merge \/ Finish
  BY <1>2 DEF vars, Start, CheckAlive, GetTimesOut, Halt, Interrupt, Join, Merge, Finish,
     queueVars, mainVars, rest,
     cacheVars, storeVars, memVars
<1> QED  BY <1>1, <1>2 DEF StillSteps

\* Nobody takes back a signal sent, nor parser_quit.
LEMMA HitGrows ==
    ASSUME Types, [Next]_vars
    PROVE  hit \subseteq hit' /\ scene' = scene /\ (~quit' => ~quit)
<1>1. CASE UNCHANGED vars \/ Start \/ CheckAlive \/ GetTimesOut \/ GetResult \/ Halt \/ Drain \/ Interrupt \/ Join \/ Merge \/ Finish
  BY <1>1 DEF vars, Start, CheckAlive, GetTimesOut, GetResult, Halt, Drain, Interrupt, Join,
     Merge, Finish, rest
<1>2. CASE Terminate
  BY <1>2 DEF Terminate
<1>3. ASSUME NEW p \in Parser, ParserStep(p) \/ Killed(p) PROVE hit \subseteq hit' /\ scene' = scene /\ quit' = quit
  <2>1. hit \subseteq hit'
    BY <1>3 DEF ParserStep, TakeJob, Parse, ParseInterrupted, LeaveLoop, Feed, JoinFeeder, Exit,
       ExitInterrupted, Killed, Ends
  <2> QED  BY <1>3, <2>1, ParserMoves
<1>4. ASSUME NEW s \in Servers, ServerCache(s) PROVE hit = hit' /\ scene' = scene /\ quit' = quit
  BY <1>4, ServerMoves DEF rest
<1> QED  BY <1>1, <1>2, <1>3, <1>4, StepsAre

LEMMA SourcesInit == Init => SourcesInv
<1> SUFFICES ASSUME Init PROVE SourcesInv
  OBVIOUS
<1>1. scene \in Scenes /\ jobs = scene.jobs /\ got = {} /\ parsing = [p \in Parser |-> None]
      /\ buffer = [p \in Parser |-> <<>>] /\ pipe = <<>>
  BY DEF Init
<1>2. \A p \in Parser : Members(jobs[p]) \subseteq Toparse
  BY <1>1, ToparseIs
<1>3. RecipesOf(<<>>) = {} /\ Oks(<<>>) = {}
  <2>1. <<>> \in Seq(Results)
    OBVIOUS
  <2> QED  BY <2>1, ResultsFacts
<1> QED  BY <1>1, <1>2, <1>3 DEF SourcesInv

LEMMA SourcesNext ==
    ASSUME Types, ParsersOnly, OldInv, SourcesInv, [Next]_vars
    PROVE  SourcesInv'
<1>types. /\ \A p \in Parser : jobs[p] \in Seq(Recipe) /\ buffer[p] \in Seq(Results)
          /\ pipe \in Seq(Results) /\ scene \in Scenes
  BY DEF Types, QueueTypes
<1>none. RecipesOf(<<>>) = {} /\ Oks(<<>>) = {}
  BY <1>types, ResultsFacts
<1>scene. Toparse' = Toparse
  BY HitGrows DEF Toparse
<1>1. CASE StillSteps
  <2>1. UNCHANGED <<jobs, parsing, buffer, pipe, got, cachedata_extras>>
    BY <1>1, StillMoves
  <2> QED  BY <2>1, <1>scene DEF SourcesInv, Added
<1>2. CASE GetResult \/ Drain
  <2>1. UNCHANGED <<jobs, parsing, buffer, cachedata_extras>>
    BY <1>2 DEF GetResult, Drain, cacheVars, storeVars, memVars
  <2>2. \/ UNCHANGED <<pipe, got>>
        \/ pipe # <<>> /\ pipe' = Tail(pipe) /\ (got' = got \/ (Head(pipe).ok /\ got' = got \cup {Head(pipe).recipe}))
    BY <1>2 DEF GetResult, Drain
  <2>3. CASE UNCHANGED <<pipe, got>>
    BY <2>1, <2>3, <1>scene DEF SourcesInv, Added
  <2>4. CASE pipe # <<>> /\ pipe' = Tail(pipe) /\ (got' = got \/ (Head(pipe).ok /\ got' = got \cup {Head(pipe).recipe}))
    <3>1. /\ RecipesOf(pipe) = {Head(pipe).recipe} \cup RecipesOf(pipe')
          /\ Oks(pipe) = Oks(pipe') \cup (IF Head(pipe).ok THEN {Head(pipe).recipe} ELSE {})
      BY <1>types, <2>4, ResultsFacts
    <3>2. RecipesOf(pipe') \cup got' \subseteq RecipesOf(pipe) \cup got /\ Oks(pipe') \cup got' \subseteq Oks(pipe) \cup got
      BY <2>4, <3>1
    <3>3. Added' = Added
      BY <2>1 DEF Added
    <3> QED  BY <2>1, <3>2, <3>3, <1>scene DEF SourcesInv
  <2> QED  BY <2>2, <2>3, <2>4
<1>3. CASE Terminate
  <2>1. UNCHANGED <<jobs, parsing, pipe, got, cachedata_extras>>
    BY <1>3, TerminateMoves DEF memVars
  <2>2. \A p \in Parser : buffer'[p] = buffer[p] \/ buffer'[p] = <<>>
    BY <1>3, TerminateMoves DEF Types, QueueTypes
  <2> QED  BY <2>1, <2>2, <1>none, <1>scene DEF SourcesInv, Added
<1>4. ASSUME NEW p \in Parser, ParserStep(p) \/ Killed(p) PROVE SourcesInv'
  <2>1. /\ got' = got /\ cachedata' = cachedata
        /\ \A q \in Parser \ {p} : /\ jobs'[q] = jobs[q] /\ parsing'[q] = parsing[q] /\ buffer'[q] = buffer[q]
                                   /\ cachedata_extras'[q] = cachedata_extras[q]
    BY <1>4, ParserMoves, Who DEF mainVars
  <2>2. ASSUME Members(jobs'[p]) \subseteq Toparse, parsing'[p] \in Toparse \cup {None},
               RecipesOf(buffer'[p]) \subseteq Toparse, Oks(buffer'[p]) \subseteq Added' \cup Old,
               RecipesOf(pipe') \subseteq Toparse, Oks(pipe') \subseteq Added' \cup Old,
               Added \subseteq Added'
        PROVE  SourcesInv'
    <3>1. \A q \in Parser : /\ Members(jobs'[q]) \subseteq Toparse /\ parsing'[q] \in Toparse \cup {None}
                            /\ RecipesOf(buffer'[q]) \subseteq Toparse
                            /\ Oks(buffer'[q]) \subseteq Added' \cup Old
      BY <2>1, <2>2 DEF SourcesInv
    <3>2. RecipesOf(pipe') \cup got' \subseteq Toparse /\ Oks(pipe') \cup got' \subseteq Added' \cup Old
      BY <2>1, <2>2 DEF SourcesInv
    <3> QED  BY <3>1, <3>2, <1>scene DEF SourcesInv
  <2>3. ASSUME cachedata_extras' = cachedata_extras PROVE Added' = Added
    BY <2>3 DEF Added
  <2>4. CASE TakeJob(p)
    <3>1. /\ jobs[p] # <<>> /\ parsing'[p] = jobs[p][Len(jobs[p])]
          /\ jobs'[p] = SubSeq(jobs[p], 1, Len(jobs[p]) - 1)
          /\ UNCHANGED <<buffer, pipe, cachedata_extras>>
      BY <2>4 DEF TakeJob, Types, QueueTypes, cacheVars, storeVars, memVars
    <3>2. parsing'[p] \in Members(jobs[p]) /\ Members(jobs'[p]) \subseteq Members(jobs[p])
      BY <1>types, <3>1, MembersFacts
    <3> QED  BY <2>2, <2>3, <3>1, <3>2 DEF SourcesInv
  <2>5. CASE Parse(p)
    <3> DEFINE res == Result(parsing[p], parsing[p] \notin scene.broken)
    <3>1. /\ buffer'[p] = Append(buffer[p], res) /\ parsing'[p] = None /\ UNCHANGED <<jobs, pipe>>
          /\ cachedata_extras'[p] = cachedata_extras[p] \cup ({parsing[p]} \ cachedata[p])
      BY <2>5, Who DEF Parse, Types, QueueTypes, CacheTypes
    <3>2. res \in Results /\ res.recipe = parsing[p] /\ parsing[p] \in Recipe
      BY <2>5 DEF Parse, Result, Results
    <3> HIDE DEF res
    <3>3. RecipesOf(buffer'[p]) = RecipesOf(buffer[p]) \cup {parsing[p]} /\ Oks(buffer'[p]) \subseteq Oks(buffer[p]) \cup {parsing[p]}
      <4>1. /\ RecipesOf(Append(buffer[p], res)) = RecipesOf(buffer[p]) \cup {res.recipe}
            /\ Oks(Append(buffer[p], res)) = Oks(buffer[p]) \cup (IF res.ok THEN {res.recipe} ELSE {})
        BY <1>types, <3>2, ResultsFacts
      <4> QED  BY <3>1, <3>2, <4>1
    <3>4. Added \subseteq Added' /\ parsing[p] \in Added' \cup Old
      BY <2>1, <3>1 DEF Added, OldInv
    <3>5. parsing[p] \in Toparse
      BY <3>2, ParserAssumption DEF SourcesInv
    <3> QED  BY <2>2, <3>1, <3>3, <3>4, <3>5 DEF SourcesInv
  <2>6. CASE ParseInterrupted(p)
    <3> DEFINE res == Result(parsing[p], FALSE)
    <3>1. /\ buffer'[p] = Append(buffer[p], res) /\ parsing'[p] = None /\ UNCHANGED <<jobs, pipe, cachedata_extras>>
      BY <2>6, Who DEF ParseInterrupted, Types, QueueTypes, cacheVars, storeVars, memVars
    <3>2. res \in Results /\ res.recipe = parsing[p] /\ ~res.ok /\ parsing[p] # None
      BY <2>6 DEF ParseInterrupted, Types, QueueTypes, Result, Results
    <3> HIDE DEF res
    <3>3. RecipesOf(buffer'[p]) = RecipesOf(buffer[p]) \cup {parsing[p]} /\ Oks(buffer'[p]) = Oks(buffer[p])
      <4>1. /\ RecipesOf(Append(buffer[p], res)) = RecipesOf(buffer[p]) \cup {res.recipe}
            /\ Oks(Append(buffer[p], res)) = Oks(buffer[p]) \cup (IF res.ok THEN {res.recipe} ELSE {})
        BY <1>types, <3>2, ResultsFacts
      <4> QED  BY <3>1, <3>2, <4>1
    <3> QED  BY <2>2, <2>3, <3>1, <3>2, <3>3 DEF SourcesInv
  <2>7. CASE Feed(p)
    <3>1. /\ buffer[p] # <<>> /\ pipe' = Append(pipe, Head(buffer[p])) /\ buffer'[p] = Tail(buffer[p])
          /\ UNCHANGED <<jobs, parsing, cachedata_extras>>
      BY <2>7 DEF Feed, Types, QueueTypes, cacheVars, storeVars, memVars
    <3>2. /\ Head(buffer[p]) \in Results
          /\ RecipesOf(buffer[p]) = {Head(buffer[p]).recipe} \cup RecipesOf(buffer'[p])
          /\ Oks(buffer[p]) = Oks(buffer'[p]) \cup (IF Head(buffer[p]).ok THEN {Head(buffer[p]).recipe} ELSE {})
      BY <1>types, <3>1, ResultsFacts
    <3>3. /\ RecipesOf(pipe') = RecipesOf(pipe) \cup {Head(buffer[p]).recipe}
          /\ Oks(pipe') = Oks(pipe) \cup (IF Head(buffer[p]).ok THEN {Head(buffer[p]).recipe} ELSE {})
      BY <1>types, <3>1, <3>2, ResultsFacts
    <3>4. RecipesOf(buffer'[p]) \subseteq Toparse /\ RecipesOf(pipe') \subseteq Toparse
      BY <3>2, <3>3 DEF SourcesInv
    <3>5. Oks(buffer'[p]) \subseteq Added \cup Old /\ Oks(pipe') \subseteq Added \cup Old
      BY <3>2, <3>3 DEF SourcesInv
    <3> QED  BY <2>2, <2>3, <3>1, <3>4, <3>5 DEF SourcesInv
  <2>8. CASE Exit(p) \/ ExitInterrupted(p) \/ Killed(p)
    <3>1. UNCHANGED <<jobs, parsing, pipe, cachedata_extras>> /\ buffer'[p] = <<>>
      BY <2>8 DEF Exit, ExitInterrupted, Killed, Ends, CallCutOff, memVars, Types, QueueTypes
    <3> QED  BY <1>none, <2>2, <2>3, <3>1 DEF SourcesInv
  <2>9. CASE LeaveLoop(p) \/ JoinFeeder(p) \/ ((Locking(p) \/ SaveStep(p)) /\ UNCHANGED queueVars)
    <3>1. UNCHANGED <<queueVars, cachedata_extras>>
      BY <2>9, CacheMoves, Who DEF LeaveLoop, JoinFeeder, storeVars, memVars, Types
    <3> QED  BY <2>2, <2>3, <3>1 DEF SourcesInv, queueVars
  <2> QED  BY <1>4, <2>4, <2>5, <2>6, <2>7, <2>8, <2>9 DEF ParserStep
<1> QED  BY <1>1, <1>2, <1>3, <1>4, StepsAre DEF StillSteps

\* Unless it was hurt, a parser that has left its loop has nothing left to do,
\* and nothing to send once it has joined its feeder.
DoneInv ==
    hit = {} /\ ~quit =>
        \A p \in Parser :
            /\ pc[p] \notin {"unborn", "loop"} => jobs[p] = <<>> /\ parsing[p] = None
            /\ pc[p] \notin {"unborn", "loop", "join"} => buffer[p] = <<>>

\* While the server asks for results no recipe is lost, unless a parser was hurt.
Asking == main \in {"init", "alive", "get"}
Whereabouts(p) == Members(jobs[p]) \cup {parsing[p]} \cup RecipesOf(buffer[p]) \cup RecipesOf(pipe) \cup got
ConservedInv ==
    hit = {} /\ Asking => \A p \in Parser : Members(scene.jobs[p]) \subseteq Whereabouts(p) \cup {None}

\* What the server knows when it asks for results and when it stops.
VerdictInv ==
    /\ Asking => ~quit /\ outcome = None
    /\ main = "get" => ~AllParsed
    /\ main = "init" => ~empty
    /\ main = "alive" /\ processes = {} /\ hit = {} => ~empty
    /\ outcome = "clean" => AllParsed
    /\ outcome = "died" => hit # {}

LEMMA DoneNext ==
    ASSUME Types, ParsersOnly, PlacesInv, SignalsInv, DoneInv, [Next]_vars
    PROVE  DoneInv'
<1> SUFFICES ASSUME hit' = {}, ~quit' PROVE DoneInv'
  BY DEF DoneInv
<1>0. hit = {} /\ ~quit
  BY HitGrows
<1> USE DEF Types
<1>same. ASSUME UNCHANGED <<jobs, parsing, buffer>>, \A p \in Parser : pc'[p] = pc[p] \/ pc'[p] = "loop" PROVE DoneInv'
  BY <1>0, <1>same DEF DoneInv
<1>1. CASE UNCHANGED vars \/ MainOnly \/ Finish
  BY <1>1, <1>same, MainOnlyMoves DEF vars, Finish, cacheVars, queueVars
<1>2. CASE Start
  <2>1. pc' = [p \in Process |-> CASE p = Main -> "out" [] p \in Parser -> "loop" [] OTHER -> pc[p]]
        /\ UNCHANGED queueVars
    BY <1>2 DEF Start
  <2>2. ASSUME NEW p \in Parser PROVE pc'[p] = "loop"
    <3>1. p \in Process /\ p # Main
      BY Who
    <3>2. pc'[p] = CASE p = Main -> "out" [] p \in Parser -> "loop" [] OTHER -> pc[p]
      BY <2>1, <3>1
    <3> QED  BY <3>1, <3>2
  <2> QED  BY <2>1, <2>2, <1>same DEF queueVars
<1>3. CASE Join \/ Merge
  <2>1. UNCHANGED queueVars /\ \E place \in {"save", "merge"} : pc' = [pc EXCEPT ![Main] = place]
    BY <1>3 DEF Join, Merge, GoesTo
  <2> QED  BY <2>1, <1>same, Goes, Who DEF queueVars
<1>4. CASE Terminate
  <2>1. UNCHANGED <<jobs, parsing, pc, buffer>>
    BY <1>4, TerminateMoves DEF cacheVars
  <2> QED  BY <2>1, <1>same
<1>5. ASSUME NEW p \in Parser, ParserStep(p) \/ Killed(p) PROVE DoneInv'
  <2>0. ~signal[p] /\ p \in Process
    BY <1>0, Who DEF SignalsInv
  <2>1. \A q \in Parser \ {p} : pc'[q] = pc[q] /\ jobs'[q] = jobs[q] /\ parsing'[q] = parsing[q] /\ buffer'[q] = buffer[q]
    BY <1>5, ParserMoves, Who
  <2>2. ASSUME /\ pc'[p] \notin {"unborn", "loop"} => jobs'[p] = <<>> /\ parsing'[p] = None
               /\ pc'[p] \notin {"unborn", "loop", "join"} => buffer'[p] = <<>>
        PROVE  DoneInv'
    <3>1. ASSUME NEW q \in Parser
          PROVE  /\ pc'[q] \notin {"unborn", "loop"} => jobs'[q] = <<>> /\ parsing'[q] = None
                 /\ pc'[q] \notin {"unborn", "loop", "join"} => buffer'[q] = <<>>
      <4>1. CASE q = p
        BY <2>2, <4>1
      <4>2. CASE q # p
        BY <1>0, <2>1, <4>2 DEF DoneInv
      <4> QED  BY <4>1, <4>2
    <3> QED  BY <3>1 DEF DoneInv
  <2>3. CASE TakeJob(p) \/ Parse(p) \/ ParseInterrupted(p)
    BY <2>2, <2>3 DEF TakeJob, Parse, ParseInterrupted, cacheVars
  <2>4. CASE LeaveLoop(p)
    <3>1. UNCHANGED queueVars /\ jobs[p] = <<>> /\ parsing[p] = None /\ pc' = [pc EXCEPT ![p] = "join"]
      BY <1>0, <2>0, <2>4 DEF LeaveLoop, GoesTo
    <3> QED  BY <2>0, <2>2, <3>1, Goes DEF queueVars
  <2>5. CASE Feed(p)
    <3>1. pc' = pc /\ UNCHANGED <<jobs, parsing>> /\ buffer[p] # <<>>
      BY <2>5 DEF Feed, cacheVars
    <3> QED  BY <1>0, <2>2, <3>1 DEF DoneInv
  <2>6. CASE JoinFeeder(p)
    <3>1. UNCHANGED queueVars /\ buffer[p] = <<>> /\ pc[p] = "join"
      BY <2>0, <2>6 DEF JoinFeeder
    <3> QED  BY <1>0, <2>2, <3>1 DEF DoneInv, queueVars
  <2>7. CASE Exit(p)
    <3>1. UNCHANGED <<jobs, parsing>> /\ buffer'[p] = <<>> /\ pc[p] = "saved"
      BY <2>7 DEF Exit, Ends, QueueTypes
    <3> QED  BY <1>0, <2>2, <3>1 DEF DoneInv
  <2>8. CASE ExitInterrupted(p) \/ Killed(p)
    BY <2>0, <2>8 DEF ExitInterrupted, Killed
  <2>9. CASE (Locking(p) \/ SaveStep(p)) /\ UNCHANGED queueVars
    <3>1. pc[p] \in {"unborn", "loop", "join"} => pc'[p] = pc[p]
      BY <2>0, <2>9, CacheMoves
    <3> QED  BY <1>0, <2>2, <2>9, <3>1 DEF DoneInv, queueVars
  <2> QED  BY <1>5, <2>3, <2>4, <2>5, <2>6, <2>7, <2>8, <2>9 DEF ParserStep
<1>6. ASSUME NEW s \in Servers, ServerCache(s) PROVE DoneInv'
  BY <1>6, <1>same, ServerMoves, ServersAre DEF queueVars
<1> QED  BY <1>1, <1>2, <1>3, <1>4, <1>5, <1>6, StepsAre DEF MainOnly

LEMMA ConservedNext ==
    ASSUME Types, ParsersOnly, PlacesInv, SignalsInv, DoneInv, VerdictInv, ConservedInv, [Next]_vars
    PROVE  ConservedInv'
<1> SUFFICES ASSUME hit' = {}, Asking', NEW p \in Parser
             PROVE  Members(scene'.jobs[p]) \subseteq Whereabouts(p)' \cup {None}
  BY DEF ConservedInv
<1>0. hit = {} /\ scene' = scene
  BY HitGrows
<1>types. /\ \A q \in Parser : jobs[q] \in Seq(Recipe) /\ buffer[q] \in Seq(Results)
          /\ pipe \in Seq(Results)
  BY DEF Types, QueueTypes
<1>moved. ASSUME Asking, Whereabouts(p) \subseteq Whereabouts(p)' \cup {None}
          PROVE  Members(scene'.jobs[p]) \subseteq Whereabouts(p)' \cup {None}
  BY <1>0, <1>moved DEF ConservedInv
<1>1. CASE StillSteps
  <2>1. Asking
    BY <1>1, ServerMoves DEF StillSteps, Asking, vars, mainVars, Start, CheckAlive, GetTimesOut,
       Halt, Interrupt, Join, Merge, Finish
  <2> QED  BY <1>1, <1>moved, <2>1, StillMoves DEF Whereabouts
<1>2. CASE Drain \/ Terminate
  BY <1>2, TerminateMoves DEF Drain, Asking
<1>3. CASE GetResult
  <2>1. /\ pipe # <<>> /\ pipe' = Tail(pipe) /\ got' = got \cup {Head(pipe).recipe}
        /\ UNCHANGED <<jobs, parsing, buffer>> /\ Asking
    BY <1>3 DEF GetResult, Asking
  <2>2. RecipesOf(pipe) = {Head(pipe).recipe} \cup RecipesOf(pipe')
    BY <1>types, <2>1, ResultsFacts
  <2> QED  BY <1>moved, <2>1, <2>2 DEF Whereabouts
<1>4. ASSUME NEW q \in Parser, ParserStep(q) \/ Killed(q)
      PROVE  Members(scene'.jobs[p]) \subseteq Whereabouts(p)' \cup {None}
  <2>0. Asking /\ got' = got /\ ~signal[q] /\ q \in Process
    BY <1>0, <1>4, ParserMoves, Who DEF mainVars, Asking, SignalsInv
  <2>1. p # q => jobs'[p] = jobs[p] /\ parsing'[p] = parsing[p] /\ buffer'[p] = buffer[p]
    BY <1>4, ParserMoves
  <2>2. CASE TakeJob(q)
    <3>1. /\ jobs[q] # <<>> /\ parsing'[q] = jobs[q][Len(jobs[q])] /\ parsing[q] = None
          /\ jobs'[q] = SubSeq(jobs[q], 1, Len(jobs[q]) - 1)
          /\ UNCHANGED <<buffer, pipe>>
      BY <2>2 DEF TakeJob, Types, QueueTypes
    <3>2. Members(jobs[q]) = {parsing'[q]} \cup Members(jobs'[q])
      BY <1>types, <3>1, MembersFacts
    <3> QED  BY <1>moved, <2>0, <2>1, <3>1, <3>2 DEF Whereabouts
  <2>3. CASE Parse(q)
    <3> DEFINE res == Result(parsing[q], parsing[q] \notin scene.broken)
    <3>1. /\ buffer'[q] = Append(buffer[q], res) /\ parsing'[q] = None /\ UNCHANGED <<jobs, pipe>>
      BY <2>3, Who DEF Parse, Types, QueueTypes
    <3>2. res \in Results /\ res.recipe = parsing[q]
      BY <2>3 DEF Parse, Result, Results
    <3> HIDE DEF res
    <3>3. RecipesOf(buffer'[q]) = RecipesOf(buffer[q]) \cup {parsing[q]}
      <4>1. RecipesOf(Append(buffer[q], res)) = RecipesOf(buffer[q]) \cup {res.recipe}
        BY <1>types, <3>2, ResultsFacts
      <4> QED  BY <3>1, <3>2, <4>1
    <3> QED  BY <1>moved, <2>0, <2>1, <3>1, <3>3 DEF Whereabouts
  <2>4. CASE Feed(q)
    <3>1. /\ buffer[q] # <<>> /\ pipe' = Append(pipe, Head(buffer[q])) /\ buffer'[q] = Tail(buffer[q])
          /\ UNCHANGED <<jobs, parsing>>
      BY <2>4 DEF Feed, Types, QueueTypes
    <3>2. /\ Head(buffer[q]) \in Results
          /\ RecipesOf(buffer[q]) = {Head(buffer[q]).recipe} \cup RecipesOf(buffer'[q])
      BY <1>types, <3>1, ResultsFacts
    <3>3. RecipesOf(pipe') = RecipesOf(pipe) \cup {Head(buffer[q]).recipe}
      BY <1>types, <3>1, <3>2, ResultsFacts
    <3> QED  BY <1>moved, <2>0, <2>1, <3>1, <3>2, <3>3 DEF Whereabouts
  <2>5. CASE Exit(q)
    <3>1. buffer[q] = <<>>
      BY <1>0, <2>0, <2>5 DEF Exit, DoneInv, VerdictInv
    <3>2. UNCHANGED <<jobs, parsing, pipe>> /\ buffer'[q] = <<>>
      BY <2>5 DEF Exit, Ends, Types, QueueTypes
    <3> QED  BY <1>moved, <2>0, <2>1, <3>1, <3>2 DEF Whereabouts
  <2>6. CASE ExitInterrupted(q) \/ Killed(q) \/ ParseInterrupted(q)
    BY <2>0, <2>6 DEF ExitInterrupted, Killed, ParseInterrupted
  <2>7. CASE LeaveLoop(q) \/ JoinFeeder(q) \/ ((Locking(q) \/ SaveStep(q)) /\ UNCHANGED queueVars)
    <3>1. UNCHANGED queueVars
      BY <2>7 DEF LeaveLoop, JoinFeeder
    <3> QED  BY <1>moved, <2>0, <3>1 DEF Whereabouts, queueVars
  <2> QED  BY <1>4, <2>2, <2>3, <2>4, <2>5, <2>6, <2>7 DEF ParserStep
<1> QED  BY <1>1, <1>2, <1>3, <1>4, StepsAre DEF StillSteps

\* When the server finds no process and no result left, all is parsed, or a
\* parser was hurt.
LEMMA NothingLeft ==
    ASSUME Types, PlacesInv, SourcesInv, DoneInv, ConservedInv, VerdictInv,
           main = "get", pipe = <<>>, processes = {}, hit = {}
    PROVE  FALSE
<1>1. ~quit /\ Asking /\ ~AllParsed
  BY DEF VerdictInv, Asking
<1>2. RecipesOf(<<>>) = {} /\ Members(<<>>) = {}
  <2>1. <<>> \in Seq(Results)
    OBVIOUS
  <2> QED  BY <2>1, ResultsFacts, MembersFacts
<1>3. ASSUME NEW p \in Parser PROVE Members(scene.jobs[p]) \subseteq got \cup {None}
  <2>1. pc[p] = "exited"
    BY DEF PlacesInv, ParserPlacesInv, Alive
  <2>2. jobs[p] = <<>> /\ parsing[p] = None /\ buffer[p] = <<>>
    BY <1>1, <2>1 DEF DoneInv
  <2> QED  BY <1>1, <1>2, <2>2 DEF ConservedInv, Whereabouts
<1>4. Toparse \subseteq got
  BY <1>3, ToparseIs DEF Types, QueueTypes
<1> QED  BY <1>1, <1>4, AllParsedIs DEF SourcesInv, Types, QueueTypes

LEMMA VerdictNext ==
    ASSUME Types, ParsersOnly, PlacesInv, SourcesInv, DoneInv, ConservedInv, VerdictInv, [Next]_vars
    PROVE  VerdictInv'
<1> USE DEF VerdictInv, Asking
<1>hit. hit \subseteq hit'
  BY HitGrows
<1>all. ASSUME got' = got PROVE AllParsed' = AllParsed
  BY <1>all, HitGrows DEF AllParsed, Toparse
<1>same. ASSUME UNCHANGED <<mainVars, quit>> PROVE VerdictInv'
  BY <1>same, <1>hit, <1>all DEF mainVars
<1>1. CASE UNCHANGED vars
  BY <1>1, <1>same DEF vars, rest
<1>2. CASE Start
  BY <1>2, <1>all DEF Start, rest
<1>3. CASE CheckAlive
  <2>1. UNCHANGED <<quit, got, empty, hit>> /\ main = "alive"
    BY <1>3 DEF CheckAlive, rest
  <2>2. CASE processes = {} /\ empty
    BY <1>3, <2>1, <2>2, <1>all DEF CheckAlive
  <2>3. CASE ~(processes = {} /\ empty)
    BY <1>3, <2>1, <2>3, <1>all DEF CheckAlive
  <2> QED  BY <2>2, <2>3
<1>4. CASE GetTimesOut
  <2>1. UNCHANGED <<quit, got, outcome, hit, processes>> /\ main = "get" /\ main' = "alive" /\ pipe = <<>>
    BY <1>4 DEF GetTimesOut, rest
  <2>2. processes # {} \/ hit # {}
    BY <2>1, NothingLeft
  <2> QED  BY <2>1, <2>2, <1>all
<1>5. CASE GetResult
  <2>1. UNCHANGED quit /\ main = "get" /\ empty' = FALSE /\ outcome = None
        /\ ((main' = "alive" /\ outcome' = outcome) \/ (main' = "drain" /\ outcome' = "failed"))
    BY <1>5 DEF GetResult, rest
  <2> QED  BY <2>1 DEF None
<1>6. CASE Halt \/ Drain \/ Interrupt \/ Terminate \/ Join \/ Merge \/ Finish
  <2>1. UNCHANGED got /\ main' \in {"drain", "join", "interrupted", "terminated", "save", "merge", "done", "raised"}
        /\ (outcome' = outcome \/ outcome' = "halted")
    BY <1>6, TerminateMoves DEF Halt, Drain, Interrupt, Join, Merge, Finish
  <2> QED  BY <2>1, <1>all, <1>hit
<1>7. ASSUME NEW p \in Parser, ParserStep(p) \/ Killed(p) PROVE VerdictInv'
  BY <1>7, <1>same, ParserMoves
<1>8. ASSUME NEW s \in Servers, ServerCache(s) PROVE VerdictInv'
  BY <1>8, <1>same, ServerMoves DEF rest
<1> QED  BY <1>1, <1>2, <1>3, <1>4, <1>5, <1>6, <1>7, <1>8, StepsAre

LEMMA FlowInit == Init => DoneInv /\ ConservedInv /\ VerdictInv
<1> SUFFICES ASSUME Init PROVE DoneInv /\ ConservedInv /\ VerdictInv
  OBVIOUS
<1>1. main = "init" /\ ~quit /\ outcome = None /\ empty = FALSE /\ hit = {} /\ jobs = scene.jobs
  BY DEF Init
<1>2. \A p \in Parser : pc[p] = "unborn"
  BY <1>1, PlacesInit DEF PlacesInv, ParserPlacesInv
<1> QED  BY <1>1, <1>2 DEF DoneInv, ConservedInv, Whereabouts, VerdictInv, Asking, None

-----------------------------------------------------------------------------
(* The outcome of a parse.                                                 *)

\* What a parse relies on.
ParseInv == PlacesInv /\ SlotsInv /\ SignalsInv /\ OldInv /\ SourcesInv /\ DoneInv /\ ConservedInv /\ VerdictInv /\ TakenInv

\* All of it holds throughout a parse, however its processes are stopped.
THEOREM ParseCorrect == Spec => []ParseInv
<1>1. Init => ParseInv /\ SavedKept
  BY PlacesInit, SlotsInit, OldInit, SourcesInit, FlowInit, TakenInit, Who
     DEF ParseInv, SavedKept, OldInv, Init, CacheInit
<1>2. /\ Types /\ Types' /\ ParsersOnly /\ SavedKept /\ MergeSeesWhole /\ MergeSeesWhole'
      /\ ParseInv /\ [Next]_vars
      => ParseInv'
  BY PlacesStep, SlotsNext, SignalsNext, OldNext, SourcesNext, DoneNext, ConservedNext,
     VerdictNext, TakenNext DEF ParseInv
<1> QED  BY <1>1, <1>2, TypesAlways, ParsersAlways, SavedCorrect, MergeCorrect, PTL DEF Spec

LEMMA CleanCaches ==
    ASSUME Types, ParseInv
    PROVE  CleanParseCaches
<1> SUFFICES ASSUME main = "done", outcome = "clean", hit = {}
             PROVE  Toparse \ Old \subseteq cachefile.data \cup UNION {cachedata[o] : o \in scene.sharing}
  BY DEF CleanParseCaches
<1> USE DEF ParseInv
<1>1. got = Toparse
  BY AllParsedIs DEF VerdictInv, SourcesInv, Types, QueueTypes
<1>2. Toparse \subseteq Added \cup Old
  BY <1>1 DEF SourcesInv
<1>3. Added \subseteq cachefile.data \cup InOthers
  BY DEF TakenInv, PlacesInv, ServerPlaces
<1>4. InOthers \subseteq UNION {cachedata[o] : o \in scene.sharing}
  BY DEF InOthers, PlacesInv, OtherPlaces
<1> QED  BY <1>2, <1>3, <1>4

\* A parse that ends clean has cached what it parsed, a parse is given up as
\* dead only when a process was killed or stopped, and all variables keep
\* their types.
THEOREM OutcomeCorrect == Spec => []OutcomeSound
<1>1. Types /\ LockTypeOK => TypeOK
  BY Who DEF Types, CacheTypes, QueueTypes, ServerTypes, PcTypes, TypeOK
<1>2. Types /\ LockTypeOK /\ ParseInv => OutcomeSound
  BY <1>1, CleanCaches DEF OutcomeSound, GivesUpOnlyWhenKilled, ParseInv, VerdictInv
<1>3. Spec => []LockTypeOK
  BY ParseLocks, LockTypesCorrect, PTL
<1> QED  BY <1>2, <1>3, TypesAlways, ParseCorrect, PTL

=============================================================================
