-------------------------- MODULE RunQueue_proofs --------------------------
(***************************************************************************)
(* Proofs about RunQueue, for any tasks, builds, hashes and number of      *)
(* threads: tasks are begun once and in the order of their dependencies,   *)
(* the workers are counted right, no task that was skipped has to run      *)
(* after all, no setscene task unpacks over what it covers, a task finds   *)
(* its inputs, tasks with one hash are kept apart until a hash changes,    *)
(* and a build that ends leaves what it should.  The first two need the    *)
(* third: the loop would halt the build by calling a task failed that      *)
(* never ran (HaltBuild).  Those about inputs and the end need the         *)
(* collapsed graph to be that of the paths, which is proved of             *)
(* process_endpoints on the way.                                           *)
(***************************************************************************)
EXTENDS RunQueue, TLAPS, FiniteSetTheorems

-----------------------------------------------------------------------------
(* The order of the tasks.  What is buildable has all it depends on, only  *)
(* buildable tasks run, and a failed task is one that ran and did not      *)
(* complete.                                                               *)

TasksApart ==
    /\ runq_running \subseteq Task \cap runq_buildable
    /\ runq_complete \subseteq runq_running
    /\ failed_tids \subseteq runq_running \ runq_complete

OrderInv ==
    /\ rqdata \in Builds
    /\ \A t \in runq_buildable : Satisfied(t, runq_complete)
    /\ TasksApart

orderVars == <<rqdata, runq_buildable, runq_running, runq_complete, failed_tids>>

\* The dependencies are a function from tasks to sets of tasks.
LEMMA DependsType == rqdata \in Builds => rqdata.depends \in [Task -> SUBSET Task]
BY BuildsAssumption DEF BuildType

\* Completing a task keeps the dependencies of all buildable tasks complete.
LEMMA CompletingKeepsOrder ==
    ASSUME \A u \in runq_buildable : Satisfied(u, runq_complete),
           NEW t, NEW made, NEW cache, CompleteOutright(t, made, cache), rqdata' = rqdata
    PROVE  /\ runq_complete' = runq_complete \cup {t}
           /\ runq_buildable \subseteq runq_buildable'
           /\ \A u \in runq_buildable' : Satisfied(u, runq_complete)'
<1>1. /\ runq_complete' = runq_complete \cup {t}
      /\ runq_buildable' = runq_buildable \cup
             {r \in Above(t) \ runq_running : Satisfied(r, runq_complete \cup {t})}
  BY DEF CompleteOutright
<1> QED  BY <1>1 DEF Satisfied

\* The actions that move no task: all but the skipping, starting and ending ones.
Still ==
    \/ Rehash \/ Migrate
    \/ \E t \in Task : SkipUnneeded(t) \/ DeferHard(t) \/ SceneDecided(t) \/ StartSetscene(t)
    \/ UpdateHoldoff \/ SetsceneDone
    \/ Wait \/ ForceDeferred \/ BuildOver \/ Finish
    \/ \E t \in Task : SceneCompleted(t) \/ SceneFailed(t)
    \/ \E t \in Task, h \in Unihash : UnihashReported(t, h)
    \/ StopBuild \/ Over

\* The actions that do.
Moving(t) == SkipTask(t) \/ NoexecTask(t) \/ StartTask(t) \/ TaskCompleted(t) \/ TaskFailed(t)

LEMMA NextSplit == Next => Still \/ \E t \in Task : Moving(t)
BY DEF Next, Loop, Exit, Still, Moving

\* Those keep the sets of tasks and let only satisfied tasks become buildable.
LEMMA StillKeeps ==
    ASSUME Still, ~(Migrate /\ Stranded # {})
    PROVE  /\ UNCHANGED <<rqdata, runq_running, runq_complete, failed_tids, active>>
           /\ runq_buildable \subseteq runq_buildable'
           /\ \A t \in runq_buildable' : t \in runq_buildable \/ Satisfied(t, runq_complete)
<1>1. CASE Rehash
  BY <1>1 DEF Rehash, runq
<1>2. CASE Migrate
  <2>1. MigrateTasks
    BY <1>2 DEF Migrate
  <2> QED  BY <1>2, <2>1 DEF Migrate, MigrateTasks
<1>3. ASSUME NEW t \in Task, SkipUnneeded(t) \/ DeferHard(t) \/ SceneDecided(t) \/ StartSetscene(t)
      PROVE  UNCHANGED <<rqdata, runq>>
  BY <1>3 DEF SkipUnneeded, DeferHard, SceneDecided, StartSetscene
<1>4. CASE UpdateHoldoff
  BY <1>4 DEF UpdateHoldoff
<1>5. CASE SetsceneDone \/ Wait \/ ForceDeferred \/ BuildOver \/ Finish
  BY <1>5 DEF SetsceneDone, Wait, ForceDeferred, BuildOver, Finish, runq
<1>6. ASSUME NEW t \in Task, SceneCompleted(t) \/ SceneFailed(t)
      PROVE  UNCHANGED <<rqdata, runq>>
  BY <1>6 DEF SceneCompleted, SceneFailed
<1>7. ASSUME NEW t \in Task, NEW h \in Unihash, UnihashReported(t, h)
      PROVE  UNCHANGED <<rqdata, runq>>
  BY <1>7 DEF UnihashReported
<1>8. CASE StopBuild \/ Over
  BY <1>8 DEF StopBuild, Over, vars, runq
<1> QED  BY <1>1, <1>2, <1>3, <1>4, <1>5, <1>6, <1>7, <1>8 DEF Still, runq

\* NeverStranded is what keeps Migrate from calling a task failed.
LEMMA NothingStranded == NeverStranded => ~(Migrate /\ Stranded # {})
BY DEF NeverStranded, Migrate

-----------------------------------------------------------------------------
(* What the moving actions do to the sets of tasks.                        *)

LEMMA Skipped ==
    ASSUME NEW t \in Task, SkipTask(t) \/ NoexecTask(t)
    PROVE  /\ t \in runq_buildable \ runq_running
           /\ runq_running' = runq_running \cup {t}
           /\ \E made, cache : CompleteOutright(t, made, cache)
           /\ UNCHANGED <<rqdata, failed_tids, active, sq_live>>
BY DEF SkipTask, NoexecTask, TaskChosen, TaskCandidates

LEMMA Started ==
    ASSUME NEW t \in Task, StartTask(t)
    PROVE  /\ t \in runq_buildable \ runq_running
           /\ CanStart(active, sq_live)
           /\ runq_running' = runq_running \cup {t}
           /\ active' = active + 1
           /\ UNCHANGED <<rqdata, runq_buildable, runq_complete, failed_tids, sq_live>>
BY DEF StartTask, TaskChosen, TaskCandidates, scene

LEMMA Completed ==
    ASSUME NEW t \in Task, TaskCompleted(t)
    PROVE  /\ t \in InFlight
           /\ \E made, cache : CompleteOutright(t, made, cache)
           /\ active' = active - 1
           /\ UNCHANGED <<rqdata, runq_running, failed_tids, sq_live>>
BY DEF TaskCompleted

LEMMA Failed ==
    ASSUME NEW t \in Task, TaskFailed(t)
    PROVE  /\ t \in InFlight
           /\ failed_tids' = failed_tids \cup {t}
           /\ active' = active - 1
           /\ UNCHANGED <<rqdata, runq_buildable, runq_running, runq_complete, sq_live>>
BY DEF TaskFailed, scene

-----------------------------------------------------------------------------
(* The invariant.                                                          *)

LEMMA OrderInit == Init => OrderInv
<1> SUFFICES ASSUME Init PROVE OrderInv
  OBVIOUS
<1>1. /\ rqdata \in Builds /\ runq_running = {} /\ runq_complete = {} /\ failed_tids = {}
      /\ \A t \in runq_buildable : rqdata.depends[t] = {}
  BY DEF Init
<1> QED  BY <1>1 DEF OrderInv, TasksApart, Satisfied

LEMMA OrderStep == OrderInv /\ NeverStranded /\ [Next]_vars => OrderInv'
<1> SUFFICES ASSUME OrderInv, NeverStranded, [Next]_vars PROVE OrderInv'
  OBVIOUS
<1> USE DEF OrderInv, TasksApart
<1>1. CASE UNCHANGED vars
  BY <1>1 DEF vars, runq, Satisfied
<1>2. CASE Still
  BY <1>2, StillKeeps, NothingStranded DEF Satisfied
<1>3. ASSUME NEW t \in Task, Moving(t) PROVE OrderInv'
  <2>1. CASE SkipTask(t) \/ NoexecTask(t)
    <3>1. PICK made, cache : CompleteOutright(t, made, cache)
      BY <2>1, Skipped
    <3>2. /\ runq_complete' = runq_complete \cup {t} /\ rqdata' = rqdata
          /\ runq_buildable \subseteq runq_buildable'
          /\ \A u \in runq_buildable' : Satisfied(u, runq_complete)'
      BY <2>1, <3>1, Skipped, CompletingKeepsOrder
    <3> QED  BY <2>1, <3>2, Skipped
  <2>2. CASE StartTask(t)
    BY <2>2, Started DEF Satisfied
  <2>3. CASE TaskCompleted(t)
    <3>1. PICK made, cache : CompleteOutright(t, made, cache)
      BY <2>3, Completed
    <3>2. /\ runq_complete' = runq_complete \cup {t} /\ rqdata' = rqdata
          /\ runq_buildable \subseteq runq_buildable'
          /\ \A u \in runq_buildable' : Satisfied(u, runq_complete)'
      BY <2>3, <3>1, Completed, CompletingKeepsOrder
    <3> QED  BY <2>3, <3>2, Completed DEF InFlight
  <2>4. CASE TaskFailed(t)
    BY <2>4, Failed DEF Satisfied, InFlight
  <2> QED  BY <1>3, <2>1, <2>2, <2>3, <2>4 DEF Moving
<1> QED  BY <1>1, <1>2, <1>3, NextSplit

-----------------------------------------------------------------------------
(* The setscene queue.                                                     *)

\* Every set of natural numbers has a least element: there would be more numbers
\* below a chosen one than there are.
LEMMA LeastNumber ==
    ASSUME NEW S \in SUBSET Nat, S # {}
    PROVE  \E x \in S : \A y \in S : x <= y
<1> SUFFICES ASSUME \A x \in S : \E y \in S : y < x PROVE FALSE
  OBVIOUS
<1>1. PICK n \in S : TRUE
  OBVIOUS
<1> DEFINE below == {k \in 0 .. n : \A j \in 0 .. k : j \notin S}
           shift == [k \in 0 .. n |-> IF k \in below THEN k + 1 ELSE k]
<1>2. 0 \in below
  BY <1>1
<1>3. \A k \in below : k + 1 \in below
  <2> TAKE k \in below
  <2>1. k # n /\ k + 1 \in 0 .. n
    BY <1>1
  <2>2. k + 1 \notin S
    BY <2>1
  <2> QED  BY <2>1, <2>2
<1>4. shift \in [0 .. n -> 1 .. n]
  BY <1>2, <1>3
<1>5. /\ Cardinality(1 .. n) < Cardinality(0 .. n)
      /\ IsFiniteSet(0 .. n) /\ IsFiniteSet(1 .. n)
  BY FS_Interval
<1>6. \E j, k \in 0 .. n : j # k /\ shift[j] = shift[k]
  <2> HIDE DEF shift, below
  <2> QED  BY <1>4, <1>5, FS_PigeonHole
<1> QED  BY <1>3, <1>6

\* The first of some tasks is one of them.
LEMMA MinOfTasks ==
    ASSUME NEW S \in SUBSET Task, S # {}
    PROVE  Min(S) \in S
<1>1. \E x \in S : \A y \in S : x <= y
  BY LeastNumber, TaskAssumption
<1> QED  BY <1>1 DEF Min


-----------------------------------------------------------------------------
\* The sets of the setscene queue hold setscene tasks, and what is decided was
\* marked as running first.
IsScene(s) ==
    /\ s = [buildable |-> s.buildable, running |-> s.running, covered |-> s.covered,
            notcovered |-> s.notcovered, done |-> s.done, harddep_deferred |-> s.harddep_deferred]
    /\ s.buildable \cup s.running \cup s.harddep_deferred \subseteq rqdata.setscene
    /\ s.covered \cup s.notcovered \subseteq s.running

\* From s to r the tasks cov become covered; not covered are fails at most, and
\* tasks with hard dependencies that were not covered.
Decides(s, r, cov, fails) ==
    /\ IsScene(r)
    /\ r.covered = s.covered \cup cov
    /\ s.notcovered \subseteq r.notcovered
    /\ \A d \in r.notcovered \ (s.notcovered \cup fails) : rqdata.hard[d] # {} /\ d \notin s.covered
    /\ s.running \subseteq r.running

LEMMA HardType ==
    ASSUME rqdata \in Builds
    PROVE  rqdata.setscene \subseteq Task /\ \A d \in rqdata.setscene : rqdata.hard[d] \subseteq rqdata.setscene
BY BuildsAssumption DEF BuildType

\* The recursion of FailClosure has a solution, the least set it describes; so a
\* task that fails is one of fails or has a hard dependency.
LEMMA FailsCaused ==
    ASSUME rqdata \in Builds, NEW s, NEW fails
    PROVE  /\ \A d \in FailClosure(s, fails) :
                 d \in rqdata.setscene /\ (d \in fails \/ (rqdata.hard[d] # {} /\ d \notin s.covered))
           /\ fails \cap rqdata.setscene \subseteq FailClosure(s, fails)
<1> DEFINE scenes == rqdata.setscene
           Open(d) == d \notin s.covered \cup s.notcovered /\ ~StampPresent(d)
           Fails(d, X) == d \in fails \/ (Open(d) /\ \E f \in rqdata.hard[d] : f \in X)
           Solves(g) == g = [d \in rqdata.setscene |->
                               d \in fails \/ (Open(d) /\ \E f \in rqdata.hard[d] : g[f])]
           failed[d \in rqdata.setscene] ==
               d \in fails \/ (Open(d) /\ \E f \in rqdata.hard[d] : failed[f])
           least == {d \in scenes : \A X \in SUBSET scenes :
                        (\A e \in scenes : Fails(e, X) => e \in X) => d \in X}
           solution == [d \in rqdata.setscene |-> d \in least]
<1>1. \A d \in scenes : Fails(d, least) => d \in least
  <2> HIDE DEF Open
  <2> QED  OBVIOUS
<1>2. \A d \in least : Fails(d, least)
  <2> SUFFICES ASSUME NEW d \in least, ~Fails(d, least) PROVE FALSE
    OBVIOUS
  <2> HIDE DEF Open
  <2>1. \A e \in scenes : Fails(e, least \ {d}) => e \in least \ {d}
    BY <1>1
  <2>2. least \ {d} \in SUBSET scenes
    OBVIOUS
  <2> QED  BY <2>1, <2>2
<1>3. Solves(solution)
  <2>1. ASSUME NEW d \in scenes
        PROVE  (d \in least) = (d \in fails \/ (Open(d) /\ \E f \in rqdata.hard[d] : solution[f]))
    <3> HIDE DEF Open, least
    <3>1. (\E f \in rqdata.hard[d] : solution[f]) <=> (\E f \in rqdata.hard[d] : f \in least)
      <4>1. \A f \in rqdata.hard[d] : solution[f] <=> f \in least
        BY HardType, Zenon
      <4> QED  BY <4>1, Zenon
    <3>2. d \in least <=> Fails(d, least)
      BY <1>1, <1>2
    <3> HIDE DEF solution
    <3>3. d \in least <=> (d \in fails \/ (Open(d) /\ \E f \in rqdata.hard[d] : solution[f]))
      BY <3>1, <3>2, Zenon
    <3> QED  BY <3>3
  <2> HIDE DEF Open, least
  <2> QED  BY <2>1, Zenon
<1>4. Solves(failed)
  <2> HIDE DEF Open, solution
  <2>1. \E g : Solves(g)
    BY <1>3, Zenon
  <2> QED  BY <2>1, Zenon
<1>5. \A d \in scenes : failed[d] => d \in fails \/ (rqdata.hard[d] # {} /\ d \notin s.covered)
  <2> SUFFICES ASSUME NEW d \in scenes, failed[d], d \notin fails
               PROVE  Open(d) /\ \E f \in rqdata.hard[d] : TRUE
    OBVIOUS
  <2> HIDE DEF failed, Open
  <2>1. failed[d] = (d \in fails \/ (Open(d) /\ \E f \in rqdata.hard[d] : failed[f]))
    BY <1>4, Zenon
  <2> QED  BY <2>1, Zenon
<1>6. FailClosure(s, fails) = {d \in rqdata.setscene : failed[d]}
  BY DEF FailClosure
<1>7. \A d \in scenes : d \in fails => failed[d]
  <2> SUFFICES ASSUME NEW d \in scenes, d \in fails PROVE failed[d]
    OBVIOUS
  <2> HIDE DEF failed, Open
  <2>1. failed[d] = (d \in fails \/ (Open(d) /\ \E f \in rqdata.hard[d] : failed[f]))
    BY <1>4, Zenon
  <2> QED  BY <2>1, Zenon
<1> HIDE DEF failed
<1> QED  BY <1>5, <1>6, <1>7

LEMMA SettleDecides ==
    ASSUME rqdata \in Builds, NEW s, IsScene(s),
           NEW cov \in SUBSET rqdata.setscene, NEW fails
    PROVE  Decides(s, Settle(s, cov, fails), cov, fails)
<1> DEFINE r == Settle(s, cov, fails)
<1>1. \A d \in FailClosure(s, fails) :
          d \in rqdata.setscene /\ (d \in fails \/ (rqdata.hard[d] # {} /\ d \notin s.covered))
  BY FailsCaused
<1>2. /\ r.covered = s.covered \cup cov
      /\ r.notcovered = s.notcovered \cup FailClosure(s, fails)
      /\ r.running = s.running \cup cov \cup FailClosure(s, fails)
      /\ r.buildable \subseteq s.buildable \cup cov \cup FailClosure(s, fails) \cup rqdata.setscene
      /\ r.harddep_deferred \subseteq s.harddep_deferred
      /\ r = [buildable |-> r.buildable, running |-> r.running, covered |-> r.covered,
            notcovered |-> r.notcovered, done |-> r.done, harddep_deferred |-> r.harddep_deferred]
  BY DEF Settle
<1> HIDE DEF r
<1>3. IsScene(r)
  BY <1>1, <1>2 DEF IsScene
<1> QED  BY <1>1, <1>2, <1>3 DEF r, Decides

LEMMA UpdateDecides ==
    ASSUME rqdata \in Builds, NEW s, IsScene(s), NEW fails,
           NEW tids \in SUBSET rqdata.setscene, NEW deferred, NEW cache,
           NEW update, update = UpdateScenequeue(s, fails, tids, deferred, cache)
    PROVE  /\ update.here \subseteq tids /\ Decides(s, update.sq, update.here, {})
           /\ update.here = {} => update.sq = s
<1> DEFINE here == {t \in tids : StampPresent(t)}
<1>1. /\ update.here = here
      /\ update.sq = IF here = {} THEN s ELSE Settle(s, here, {})
  BY DEF UpdateScenequeue
<1>2. here \subseteq tids
  OBVIOUS
<1> HIDE DEF here
<1>3. Decides(s, Settle(s, here, {}), here, {})
  BY <1>2, SettleDecides
<1> QED  BY <1>1, <1>2, <1>3 DEF Decides

-----------------------------------------------------------------------------
Undecided == rqdata.setscene \ (sq.covered \cup sq.notcovered)

\* The real tasks a setscene task stands for.
Replaced(t) == {t} \cup sqdata.covered[t]

SceneTypes ==
    /\ IsScene(sq)
    /\ sq_live \cup DOMAIN sq_deferred \cup pending_migrations \subseteq rqdata.setscene
    /\ sq_live \subseteq sq.running
    /\ sq_live \cap (sq.covered \cup DOMAIN sq_deferred) = {}

\* A task is decided one way, and then neither deferred nor on a worker.
DecidedOnce ==
    \A t \in sq.notcovered :
        rqdata.hard[t] = {} => t \notin sq.covered \cup sq_live \cup DOMAIN sq_deferred

\* What an undecided task stands for has not been started.
DecidedFirst == \A t \in Undecided : Replaced(t) \cap Unfinished = {}

\* A task waits for its migration after it was refused.
PendingRefused ==
    \A t \in pending_migrations :
        t \in sq.notcovered \/ (pc \in {"changed", "unchanged"} /\ t \notin sq.covered)

\* A setscene task that is covered for good.
Kept(t) == t \in sq.covered \ (pending_migrations \cup sq.notcovered)

\* Only what is covered was skipped.
SkippedCovered ==
    \A t \in rqdata.setscene :
        sqdata.covered[t] \cap (runq_complete \ runq_tasksrun) # {} => Kept(t)

\* Unless an update is due, holdoff_tasks holds back what is undecided, and what
\* a refused task stands for is not taken for covered.
HoldoffCurrent ==
    /\ pc = "task" => ~holdoff_need_update
    /\ ~holdoff_need_update =>
           /\ \A t \in Undecided : {t} \cup (sqdata.covered[t] \ runq_complete) \subseteq holdoff_tasks
           /\ \A t \in sq.notcovered : tasks_covered \cap sqdata.covered[t] = {}

SceneInv ==
    /\ rqdata \in Builds /\ SceneTypes /\ DecidedOnce
    /\ DecidedFirst /\ PendingRefused /\ SkippedCovered /\ HoldoffCurrent

LEMMA SceneInvNotStranded == SceneInv => NeverStranded
<1> SUFFICES ASSUME SceneInv, NEW t \in Stranded PROVE FALSE
  BY DEF NeverStranded
<1>1. t \in pending_migrations /\ t \in rqdata.setscene
  BY DEF Stranded, Migrating, SceneInv, SceneTypes
<1>2. sqdata.covered[t] \cap (runq_complete \ runq_tasksrun) # {}
  BY DEF Stranded
<1> QED  BY <1>1, <1>2 DEF SceneInv, SkippedCovered, Kept

LEMMA SceneInvWaits == SceneInv => CoveredWaits /\ CoveredApart
<1> SUFFICES ASSUME SceneInv PROVE CoveredWaits /\ CoveredApart
  OBVIOUS
<1>1. CoveredApart
  BY DEF CoveredApart, SceneInv, DecidedOnce
<1>2. ASSUME NEW t \in sq_live, ~(t \in sq.notcovered /\ rqdata.hard[t] # {})
      PROVE  ({t} \cup sqdata.covered[t]) \cap InFlight = {}
  <2>1. t \in Undecided
    BY <1>2 DEF SceneInv, SceneTypes, DecidedOnce, Undecided
  <2> QED  BY <2>1 DEF SceneInv, DecidedFirst, Replaced, Unfinished, InFlight
<1>3. CoveredWaits
  BY <1>2, Zenon DEF CoveredWaits
<1> QED  BY <1>1, <1>3

-----------------------------------------------------------------------------
(* What the steps have in common.                                          *)

SceneSettled == SceneTypes /\ DecidedOnce
SceneFollowed == DecidedFirst /\ PendingRefused /\ SkippedCovered /\ HoldoffCurrent

\* A decision about tasks that are not, or no longer, deferred or on a worker.
LEMMA DecisionKeeps ==
    ASSUME SceneInv, rqdata' = rqdata, pending_migrations' = pending_migrations,
           NEW cov, NEW fails, Decides(sq, sq', cov, fails),
           sq_live' \subseteq sq_live, DOMAIN sq_deferred' \subseteq DOMAIN sq_deferred,
           (cov \cup fails) \cap (sq_live' \cup DOMAIN sq_deferred') = {},
           cov \cap fails = {},
           \A d \in cov : rqdata.hard[d] = {} => d \notin sq.notcovered,
           \A d \in fails : rqdata.hard[d] = {} => d \notin sq.covered
    PROVE  SceneSettled'
<1>1. /\ IsScene(sq)'
      /\ sq'.covered = sq.covered \cup cov
      /\ sq.notcovered \subseteq sq'.notcovered
      /\ \A d \in sq'.notcovered : d \in sq.notcovered \/ d \in fails \/ rqdata.hard[d] # {}
      /\ sq.running \subseteq sq'.running
  BY DEF Decides, IsScene
<1>2. SceneTypes'
  BY <1>1 DEF SceneInv, SceneTypes
<1>3. DecidedOnce'
  <2> SUFFICES ASSUME NEW d \in sq'.notcovered, rqdata.hard[d] = {}
               PROVE  d \notin sq'.covered \cup sq_live' \cup DOMAIN sq_deferred'
    BY DEF DecidedOnce
  <2>1. CASE d \in sq.notcovered
    BY <2>1, <1>1 DEF SceneInv, DecidedOnce
  <2>2. CASE d \in fails
    BY <2>2, <1>1
  <2> QED  BY <2>1, <2>2, <1>1
<1> QED  BY <1>2, <1>3 DEF SceneSettled

\* Steps after which more is decided, and of the real tasks only such have started
\* or were skipped as may.
LEMMA GrowthKeeps ==
    ASSUME SceneInv, UNCHANGED <<rqdata, sqdata, holdoff_tasks, tasks_covered, pending_migrations>>,
           sq.covered \subseteq sq'.covered, sq.notcovered \subseteq sq'.notcovered,
           sq.covered \cap (sq'.notcovered \ sq.notcovered) = {},
           runq_complete \subseteq runq_complete',
           \A t \in Undecided : Replaced(t) \cap (Unfinished' \ Unfinished) = {},
           \A t \in rqdata.setscene :
               sqdata.covered[t] \cap ((runq_complete' \ runq_tasksrun') \ (runq_complete \ runq_tasksrun)) # {}
                   => Kept(t),
           pc \notin {"changed", "unchanged"},
           pc' = "task" => ~holdoff_need_update',
           ~holdoff_need_update' => /\ ~holdoff_need_update
                                    /\ sq'.covered = sq.covered /\ sq'.notcovered = sq.notcovered
    PROVE  SceneFollowed'
<1> USE DEF SceneInv
<1>1. Undecided' \subseteq Undecided
  BY DEF Undecided
<1>2. DecidedFirst'
  BY <1>1 DEF DecidedFirst, Replaced
<1>3. PendingRefused'
  BY DEF PendingRefused
<1>4. SkippedCovered'
  BY DEF SkippedCovered, Kept
<1>5. HoldoffCurrent'
  BY <1>1 DEF HoldoffCurrent
<1> QED  BY <1>2, <1>3, <1>4, <1>5 DEF SceneFollowed

realVars == <<runq_running, runq_complete, runq_tasksrun>>

LEMMA RealStill ==
    ASSUME UNCHANGED realVars, sqdata' = sqdata
    PROVE  /\ Unfinished' = Unfinished /\ runq_complete \subseteq runq_complete'
           /\ \A t \in Undecided : Replaced(t) \cap (Unfinished' \ Unfinished) = {}
           /\ \A t \in rqdata.setscene :
               sqdata.covered[t] \cap ((runq_complete' \ runq_tasksrun') \ (runq_complete \ runq_tasksrun)) # {}
                   => Kept(t)
BY DEF realVars, Unfinished

\* The task whose turn it is.
LEMMA TurnOf ==
    ASSUME SceneInv, NEW t, SceneTurn(t)
    PROVE  /\ t \in rqdata.setscene \ sq.running
           /\ t \notin sq.covered \cup sq.notcovered \cup sq_live
           /\ pc \notin {"changed", "unchanged", "task"}
<1>1. PICK acting \in SUBSET SceneCandidates : acting # {} /\ t = Min(acting)
  BY DEF SceneTurn
<1>2. SceneCandidates \subseteq rqdata.setscene \ sq.running
  BY DEF SceneCandidates, SceneInv, SceneTypes, IsScene
<1>3. acting \in SUBSET Task
  BY <1>1, <1>2, HardType DEF SceneInv
<1>4. t \in acting
  BY <1>1, <1>3, MinOfTasks
<1>5. pc \notin {"changed", "unchanged", "task"}
  BY DEF SceneTurn, AtScene, Begun
<1> QED  BY <1>1, <1>2, <1>4, <1>5 DEF SceneInv, SceneTypes, IsScene

-----------------------------------------------------------------------------
(* The actions.                                                            *)

\* Decisions that mark an update as due.
LEMMA DecisionStep ==
    ASSUME SceneInv, UNCHANGED <<rqdata, sqdata, holdoff, runq, pending_migrations>>,
           holdoff_need_update' = TRUE,
           pc \notin {"changed", "unchanged"}, pc' # "task", SceneSettled',
           sq.covered \subseteq sq'.covered, sq.notcovered \subseteq sq'.notcovered,
           sq.covered \cap (sq'.notcovered \ sq.notcovered) = {}
    PROVE  SceneInv'
<1>1. UNCHANGED realVars
  BY DEF runq, realVars
<1>2. SceneFollowed'
  BY <1>1, RealStill, GrowthKeeps DEF holdoff
<1> QED  BY <1>2 DEF SceneFollowed, SceneSettled, SceneInv

LEMMA ExitSteps ==
    ASSUME SceneInv, NEW t \in Task, SceneCompleted(t) \/ SceneFailed(t)
    PROVE  SceneInv'
<1> USE DEF SceneInv
<1>1. t \in rqdata.setscene /\ t \in sq_live
  BY DEF SceneCompleted, SceneFailed, SceneTypes
<1>2. CASE SceneCompleted(t)
  <2>1. Decides(sq, sq', {t}, {})
    BY <1>1, <1>2, SettleDecides DEF SceneCompleted, SceneTypes
  <2>2. /\ UNCHANGED <<rqdata, sq_deferred, pending_migrations>>
        /\ sq_live' = sq_live \ {t}
    BY <1>2 DEF SceneCompleted, hashing
  <2>3. t \notin DOMAIN sq_deferred' /\ (rqdata.hard[t] = {} => t \notin sq.notcovered) /\ t \notin sq.covered
    BY <1>1, <2>2 DEF SceneTypes, DecidedOnce
  <2>4. SceneSettled'
    BY <2>1, <2>2, <2>3, DecisionKeeps
  <2> QED  BY <1>2, <2>1, <2>3, <2>4, DecisionStep DEF SceneCompleted, Reading, Decides, hashing
<1>3. CASE SceneFailed(t)
  <2>1. Decides(sq, sq', {}, {t})
    BY <1>1, <1>3, SettleDecides DEF SceneFailed, SceneTypes
  <2>2. /\ UNCHANGED <<rqdata, sq_deferred, pending_migrations>>
        /\ sq_live' = sq_live \ {t}
    BY <1>3 DEF SceneFailed, hashing
  <2>3. t \notin DOMAIN sq_deferred' /\ (rqdata.hard[t] = {} => t \notin sq.notcovered) /\ t \notin sq.covered
    BY <1>1, <2>2 DEF SceneTypes, DecidedOnce
  <2>4. SceneSettled'
    BY <2>1, <2>2, <2>3, DecisionKeeps
  <2> QED  BY <1>3, <2>1, <2>3, <2>4, DecisionStep DEF SceneFailed, Reading, Decides, hashing
<1> QED  BY <1>2, <1>3

LEMMA TurnSteps ==
    ASSUME SceneInv, NEW t \in Task, SkipUnneeded(t) \/ SceneDecided(t)
    PROVE  SceneInv'
<1> USE DEF SceneInv
<1>1. SceneTurn(t) /\ DOMAIN sq_deferred' = DOMAIN sq_deferred \ {t}
  BY DEF SkipUnneeded, SceneDecided, SceneChosen, Restrict
<1>2. /\ UNCHANGED <<rqdata, sqdata, sq_live, holdoff, runq, pending_migrations>>
      /\ holdoff_need_update' = TRUE
  BY DEF SkipUnneeded, SceneDecided, hashing
<1>3. sq' = Settle(sq, {t}, {}) \/ sq' = Settle(sq, {}, {t})
  BY DEF SkipUnneeded, SceneDecided
<1>4. Decides(sq, sq', {t}, {}) \/ Decides(sq, sq', {}, {t})
  BY <1>1, <1>3, TurnOf, SettleDecides DEF SceneTypes
<1>5. SceneSettled'
  BY <1>1, <1>2, <1>4, TurnOf, DecisionKeeps
<1>6. /\ sq.covered \subseteq sq'.covered /\ sq.notcovered \subseteq sq'.notcovered
      /\ sq.covered \cap (sq'.notcovered \ sq.notcovered) = {}
  BY <1>1, <1>4, TurnOf DEF Decides
<1>7. pc' # "task"
  BY DEF SkipUnneeded, SceneDecided
<1> QED  BY <1>1, <1>2, <1>5, <1>6, <1>7, TurnOf, DecisionStep

LEMMA DeferHardStep ==
    ASSUME SceneInv, NEW t \in Task, DeferHard(t)
    PROVE  SceneInv'
<1> USE DEF SceneInv
<1>1. /\ UNCHANGED <<rqdata, sqdata, sq_live, sq_deferred, holdoff_tasks, tasks_covered,
                     pending_migrations, holdoff_need_update, runq_running, runq_complete, runq_tasksrun>>
      /\ SceneTurn(t) /\ pc' \in {"top", "scene"}
  BY DEF DeferHard, hashing, holdoff, runq
<1>2. PICK enabled \in SUBSET rqdata.hard[t] :
          sq' = [sq EXCEPT !.buildable = @ \cup enabled, !.harddep_deferred = @ \cup {t}]
  BY DEF DeferHard
<1>3. Decides(sq, sq', {}, {})
  <2>1. enabled \subseteq rqdata.setscene /\ t \in rqdata.setscene
    BY <1>1, <1>2, TurnOf, HardType
  <2>2. /\ sq'.buildable = sq.buildable \cup enabled
        /\ sq'.harddep_deferred = sq.harddep_deferred \cup {t}
        /\ sq'.running = sq.running /\ sq'.covered = sq.covered /\ sq'.notcovered = sq.notcovered
        /\ sq' = [buildable |-> sq'.buildable, running |-> sq'.running, covered |-> sq'.covered,
              notcovered |-> sq'.notcovered, done |-> sq'.done, harddep_deferred |-> sq'.harddep_deferred]
    BY <1>2 DEF SceneTypes, IsScene
  <2> QED  BY <2>1, <2>2 DEF Decides, SceneTypes, IsScene
<1>4. sq'.covered = sq.covered /\ sq'.notcovered = sq.notcovered
  BY <1>2 DEF SceneTypes, IsScene
<1>5. SceneSettled'
  BY <1>1, <1>3, DecisionKeeps
<1>6. SceneFollowed'
  BY <1>1, <1>4, TurnOf, RealStill, GrowthKeeps DEF realVars
<1> QED  BY <1>1, <1>5, <1>6 DEF SceneSettled, SceneFollowed

LEMMA StartSetsceneStep ==
    ASSUME SceneInv, NEW t \in Task, StartSetscene(t)
    PROVE  SceneInv'
<1> USE DEF SceneInv
<1>1. /\ UNCHANGED <<rqdata, sqdata, holdoff_tasks, tasks_covered,
                     pending_migrations, holdoff_need_update, runq_running, runq_complete, runq_tasksrun>>
      /\ SceneTurn(t) /\ pc' \in {"top", "holdoff"}
      /\ sq' = [sq EXCEPT !.running = @ \cup {t}] /\ sq_live' = sq_live \cup {t}
      /\ DOMAIN sq_deferred' = DOMAIN sq_deferred \ {t}
  BY DEF StartSetscene, SceneChosen, Restrict, hashing, holdoff, runq
<1>2. /\ IsScene(sq)'
      /\ sq'.covered = sq.covered /\ sq'.notcovered = sq.notcovered
      /\ sq'.running = sq.running \cup {t}
  BY <1>1, TurnOf DEF SceneTypes, IsScene
<1>3. SceneTypes'
  BY <1>1, <1>2, TurnOf DEF SceneTypes
<1>4. DecidedOnce'
  BY <1>1, <1>2, TurnOf DEF DecidedOnce
<1>6. SceneFollowed'
  BY <1>1, <1>2, TurnOf, RealStill, GrowthKeeps DEF realVars
<1> QED  BY <1>1, <1>3, <1>4, <1>6 DEF SceneFollowed

\* Steps that leave the setscene queue as it is, but for tasks no longer deferred.
LEMMA SceneStill ==
    ASSUME SceneInv, UNCHANGED <<rqdata, sq, sq_live, pending_migrations>>,
           DOMAIN sq_deferred' \subseteq DOMAIN sq_deferred
    PROVE  SceneSettled'
BY DEF SceneInv, SceneSettled, SceneTypes, DecidedOnce, IsScene

LEMMA QuietSteps ==
    ASSUME SceneInv,
           \/ \E t \in Task, h \in Unihash : UnihashReported(t, h)
           \/ \E t \in Task : TaskFailed(t)
           \/ SetsceneDone \/ Wait \/ ForceDeferred \/ BuildOver \/ Finish \/ StopBuild
    PROVE  SceneInv'
<1> USE DEF SceneInv
<1> DEFINE Quiet ==
              /\ UNCHANGED <<rqdata, sqdata, sq, sq_live, holdoff_tasks, tasks_covered, pending_migrations,
                             holdoff_need_update, runq_running, runq_complete, runq_tasksrun>>
              /\ DOMAIN sq_deferred' \subseteq DOMAIN sq_deferred
              /\ pc \notin {"changed", "unchanged"} /\ (pc' = "task" => pc = "task")
<1>1. Quiet
  <2>1. ASSUME NEW t \in Task, NEW h \in Unihash, UnihashReported(t, h) PROVE Quiet
    BY <2>1 DEF UnihashReported, Reading, hashing, holdoff, runq, scene
  <2>2. ASSUME NEW t \in Task, TaskFailed(t) PROVE Quiet
    BY <2>2 DEF TaskFailed, Reading, hashing, holdoff, runq, scene
  <2>3. CASE SetsceneDone \/ Wait \/ BuildOver \/ Finish \/ StopBuild
    BY <2>3 DEF SetsceneDone, Wait, BuildOver, Finish, StopBuild, NothingToStart, AtTask, Reading,
                hashing, holdoff, runq, scene
  <2>4. CASE ForceDeferred
    BY <2>4 DEF ForceDeferred, NothingToStart, AtTask, hashing, holdoff, runq, Restrict
  <2> QED  BY <2>1, <2>2, <2>3, <2>4
<1>2. SceneSettled'
  BY <1>1, SceneStill
<1>3. SceneFollowed'
  BY <1>1, RealStill, GrowthKeeps DEF realVars, HoldoffCurrent
<1> QED  BY <1>1, <1>2, <1>3 DEF SceneSettled, SceneFollowed

LEMMA UpdateHoldoffStep ==
    ASSUME SceneInv, UpdateHoldoff
    PROVE  SceneInv'
<1> USE DEF SceneInv
<1>1. /\ UNCHANGED <<rqdata, sqdata, sq, sq_live, sq_deferred, pending_migrations,
                     runq_running, runq_complete, runq_tasksrun>>
      /\ pc \notin {"changed", "unchanged"} /\ holdoff_need_update' = FALSE
  BY DEF UpdateHoldoff, AtScene, Begun, hashing, scene
<1>2. SceneSettled'
  BY <1>1, SceneStill
<1>3. DecidedFirst' /\ PendingRefused' /\ SkippedCovered'
  BY <1>1 DEF DecidedFirst, PendingRefused, SkippedCovered, Kept, Undecided, Replaced, Unfinished
<1>4. HoldoffCurrent'
  <2>1. CASE ~holdoff_need_update
    <3>1. UNCHANGED <<holdoff_tasks, tasks_covered>>
      BY <2>1 DEF UpdateHoldoff, holdoff
    <3> QED  BY <1>1, <2>1, <3>1 DEF HoldoffCurrent, Undecided
  <2>2. CASE holdoff_need_update
    <3> DEFINE Below(s) == UNION {sqdata.covered[t] : t \in s}
    <3>1. /\ holdoff_tasks' = Undecided \cup (Below(Undecided) \ runq_complete)
          /\ \A t \in tasks_covered' : t \in sq.done /\ ~(t \in sq.done /\ t \in Below(sq.notcovered))
      BY <2>2 DEF UpdateHoldoff, Undecided
    <3>2. \A t \in Undecided : {t} \cup (sqdata.covered[t] \ runq_complete) \subseteq holdoff_tasks'
      BY <3>1
    <3>3. \A t \in sq.notcovered : tasks_covered' \cap sqdata.covered[t] = {}
      BY <3>1
    <3> QED  BY <1>1, <3>2, <3>3 DEF HoldoffCurrent, Undecided
  <2> QED  BY <2>1, <2>2
<1> QED  BY <1>1, <1>2, <1>3, <1>4 DEF SceneSettled

\* What completing a task does to the setscene queue.
LEMMA CompletingDecides ==
    ASSUME SceneInv, rqdata' = rqdata, NEW t, NEW made, NEW cache, CompleteOutright(t, made, cache)
    PROVE  /\ runq_complete' = runq_complete \cup {t}
           /\ DOMAIN sq_deferred' \subseteq DOMAIN sq_deferred
           /\ \E here \in SUBSET (DOMAIN sq_deferred \ DOMAIN sq_deferred') :
                  /\ Decides(sq, sq', here, {})
                  /\ ~holdoff_need_update' => ~holdoff_need_update /\ sq' = sq
<1> DEFINE waiting == {d \in DOMAIN sq_deferred : sq_deferred[d] = t}
<1>1. runq_complete' = runq_complete \cup {t}
  BY DEF CompleteOutright
<1>2. CASE waiting = {}
  <2>1. sq_deferred' = sq_deferred /\ sq' = sq /\ holdoff_need_update' = (holdoff_need_update \/ FALSE)
    BY <1>2 DEF CompleteOutright
  <2>2. Decides(sq, sq', {}, {})
    BY <2>1 DEF Decides, SceneInv, SceneTypes
  <2> QED  BY <1>1, <2>1, <2>2
<1>3. CASE waiting # {}
  <2> DEFINE first == Min(waiting)
  <2>1. first \in waiting
    <3>1. waiting \in SUBSET Task
      BY HardType DEF SceneInv, SceneTypes
    <3> HIDE DEF waiting
    <3> QED  BY <1>3, <3>1, MinOfTasks
  <2> DEFINE deferred == [d \in DOMAIN sq_deferred \ {first} |->
                            IF d \in waiting THEN first ELSE sq_deferred[d]]
             update == UpdateScenequeue(sq, outrightfail, {first}, deferred, cache)
  <2>5. update = UpdateScenequeue(sq, outrightfail, {first}, deferred, cache)
    OBVIOUS
  <2>2. /\ DOMAIN sq_deferred' = DOMAIN sq_deferred \ {first}
            /\ sq' = update.sq
            /\ holdoff_need_update' = (holdoff_need_update \/ update.here # {})
    BY <1>3 DEF CompleteOutright
  <2>3. first \in DOMAIN sq_deferred /\ first \in rqdata.setscene
    BY <2>1 DEF SceneInv, SceneTypes
  <2> HIDE DEF first, update
  <2>4. update.here \subseteq {first} /\ Decides(sq, update.sq, update.here, {})
        /\ (update.here = {} => update.sq = sq)
    <3>1. {first} \in SUBSET rqdata.setscene /\ rqdata \in Builds /\ IsScene(sq)
      BY <2>3 DEF SceneInv, SceneTypes
    <3> HIDE DEF update, deferred
    <3> QED  BY <3>1, <2>5, UpdateDecides
  <2> QED  BY <1>1, <2>2, <2>3, <2>4
<1> QED  BY <1>2, <1>3

\* Completing a task that was on a worker, ran now or was skipped for the stamp it
\* has, or was covered by what it stands for.
LEMMA CompletingStep ==
    ASSUME SceneInv,
           UNCHANGED <<rqdata, sqdata, sq_live, holdoff_tasks, tasks_covered, pending_migrations>>,
           pc \notin {"changed", "unchanged"}, pc' = "top",
           NEW t, NEW made, NEW cache, CompleteOutright(t, made, cache),
           runq_running' \subseteq runq_running \cup {t}, runq_tasksrun \subseteq runq_tasksrun',
           \/ t \in runq_tasksrun'
           \/ \A s \in rqdata.setscene : t \in sqdata.covered[s] => Kept(s)
    PROVE  SceneInv'
<1>1. PICK here \in SUBSET (DOMAIN sq_deferred \ DOMAIN sq_deferred') :
          /\ Decides(sq, sq', here, {})
          /\ ~holdoff_need_update' => ~holdoff_need_update /\ sq' = sq
  BY CompletingDecides
<1>2. /\ runq_complete' = runq_complete \cup {t}
      /\ DOMAIN sq_deferred' \subseteq DOMAIN sq_deferred
  BY CompletingDecides
<1>3. SceneSettled'
  <2>1. here \cap (sq_live' \cup DOMAIN sq_deferred') = {}
    BY DEF SceneInv, SceneTypes
  <2>2. \A d \in here : rqdata.hard[d] = {} => d \notin sq.notcovered
    BY DEF SceneInv, DecidedOnce
  <2> QED  BY <1>1, <1>2, <2>1, <2>2, DecisionKeeps
<1>4. /\ sq.covered \subseteq sq'.covered /\ sq.notcovered \subseteq sq'.notcovered
      /\ sq.covered \cap (sq'.notcovered \ sq.notcovered) = {}
      /\ Unfinished' \subseteq Unfinished
  BY <1>1, <1>2 DEF Decides, Unfinished
<1>6. SceneFollowed'
  <2>1. \A s \in rqdata.setscene :
           sqdata.covered[s] \cap ((runq_complete' \ runq_tasksrun') \ (runq_complete \ runq_tasksrun)) # {}
               => Kept(s)
    BY <1>2
  <2>2. \A s \in Undecided : Replaced(s) \cap (Unfinished' \ Unfinished) = {}
    BY <1>4
  <2> QED  BY <1>1, <1>2, <1>4, <2>1, <2>2, GrowthKeeps
<1> QED  BY <1>3, <1>6 DEF SceneSettled, SceneFollowed, SceneInv

\* A real task that is begun is held back by no undecided task, and if it is covered
\* then by none that was refused.
LEMMA ChosenApart ==
    ASSUME SceneInv, NEW t, TaskChosen(t), t \notin runq_complete
    PROVE  /\ \A s \in Undecided : t \notin Replaced(s)
           /\ t \in tasks_covered =>
                  \A s \in rqdata.setscene : t \in sqdata.covered[s] => Kept(s)
           /\ pc \notin {"changed", "unchanged"}
<1>1. t \notin holdoff_tasks /\ pc = "task"
  BY DEF TaskChosen, AtTask, TaskCandidates
<1>2. ~holdoff_need_update
  BY <1>1 DEF SceneInv, HoldoffCurrent
<1>3. \A s \in Undecided : t \notin Replaced(s)
  BY <1>1, <1>2 DEF SceneInv, HoldoffCurrent, Replaced
<1>4. ASSUME t \in tasks_covered, NEW s \in rqdata.setscene, t \in sqdata.covered[s]
      PROVE  Kept(s)
  <2>1. s \notin Undecided
    BY <1>3, <1>4 DEF Replaced
  <2>2. s \notin sq.notcovered
    BY <1>2, <1>4 DEF SceneInv, HoldoffCurrent
  <2>3. s \notin pending_migrations
    BY <1>1, <2>2 DEF SceneInv, PendingRefused
  <2> QED  BY <2>1, <2>2, <2>3 DEF Undecided, Kept
<1> QED  BY <1>1, <1>3, <1>4

LEMMA StartTaskStep ==
    ASSUME SceneInv, NEW t \in Task, StartTask(t), runq_complete \subseteq runq_running
    PROVE  SceneInv'
<1>1. /\ UNCHANGED <<rqdata, sqdata, sq, sq_live, sq_deferred, pending_migrations, holdoff_tasks,
                     tasks_covered, holdoff_need_update, runq_complete, runq_tasksrun>>
      /\ runq_running' = runq_running \cup {t}
      /\ pc' \in {"top", "idle"} /\ TaskChosen(t)
  BY DEF StartTask, hashing, scene, holdoff
<1>2. t \notin runq_complete
  BY <1>1 DEF TaskChosen, TaskCandidates
<1>3. SceneSettled'
  BY <1>1, SceneStill
<1>4. \A s \in Undecided : Replaced(s) \cap (Unfinished' \ Unfinished) = {}
  BY <1>1, <1>2, ChosenApart DEF Unfinished
<1>5. SceneFollowed'
  BY <1>1, <1>2, <1>4, ChosenApart, GrowthKeeps
<1> QED  BY <1>1, <1>3, <1>5 DEF SceneSettled, SceneFollowed, SceneInv

LEMMA CompletingSteps ==
    ASSUME SceneInv, NEW t \in Task, SkipTask(t) \/ NoexecTask(t) \/ TaskCompleted(t),
           runq_complete \subseteq runq_running
    PROVE  SceneInv'
<1>1. /\ UNCHANGED <<rqdata, sqdata, sq_live, pending_migrations, holdoff_tasks, tasks_covered>>
      /\ pc' = "top"
      /\ \E made, cache : CompleteOutright(t, made, cache)
  BY DEF SkipTask, NoexecTask, TaskCompleted, hashing, holdoff
<1>2. CASE SkipTask(t)
  <2>1. /\ TaskChosen(t) /\ runq_running' = runq_running \cup {t}
        /\ runq_tasksrun' = IF t \in tasks_covered THEN runq_tasksrun ELSE runq_tasksrun \cup {t}
    BY <1>2 DEF SkipTask
  <2>2. t \notin runq_complete
    BY <2>1 DEF TaskChosen, TaskCandidates
  <2>3. t \in runq_tasksrun' \/ t \in tasks_covered
    BY <2>1
  <2>4. runq_tasksrun \subseteq runq_tasksrun'
    BY <2>1
  <2> QED  BY <1>1, <2>1, <2>2, <2>3, <2>4, ChosenApart, CompletingStep
<1>3. CASE NoexecTask(t)
  <2>1. /\ TaskChosen(t) /\ runq_running' = runq_running \cup {t}
        /\ runq_tasksrun' = runq_tasksrun \cup {t}
    BY <1>3 DEF NoexecTask
  <2>2. t \notin runq_complete
    BY <2>1 DEF TaskChosen, TaskCandidates
  <2>3. pc \notin {"changed", "unchanged"}
    BY <2>1, <2>2, ChosenApart
  <2> QED  BY <1>1, <2>1, <2>3, CompletingStep
<1>4. CASE TaskCompleted(t)
  <2>1. /\ runq_running' = runq_running
        /\ runq_tasksrun' = runq_tasksrun \cup {t}
        /\ pc \notin {"changed", "unchanged"}
    BY <1>4 DEF TaskCompleted, Reading
  <2> QED  BY <1>1, <2>1, CompletingStep
<1> QED  BY <1>2, <1>3, <1>4

\* A task that is covered, or on a worker, keeps its hash and does not migrate.
LEMMA RehashStep ==
    ASSUME SceneInv, Rehash
    PROVE  SceneInv'
<1> USE DEF SceneInv
<1>1. /\ UNCHANGED <<rqdata, sqdata, sq, sq_live, sq_deferred, holdoff_tasks, tasks_covered,
                     holdoff_need_update, runq_running, runq_complete, runq_tasksrun>>
      /\ pc \notin {"changed", "unchanged"} /\ pc' \in {"changed", "unchanged"}
  BY DEF Rehash, Begun, scene, holdoff, runq
<1>2. PICK changed : /\ changed \cap KeepsHash = {}
                     /\ pending_migrations' = pending_migrations \cup (changed \cap rqdata.setscene)
  <2> DEFINE total == UNION {TasksAbove(t) : t \in Rehashed.moved}
  <2>1. PICK newuni \in [total \ KeepsHash -> Unihash] :
            pending_migrations' = pending_migrations \cup
                ({t \in DOMAIN newuni : newuni[t] # Rehashed.unihash[t]} \cap rqdata.setscene)
    BY DEF Rehash
  <2>2. {t \in DOMAIN newuni : newuni[t] # Rehashed.unihash[t]} \cap KeepsHash = {}
    OBVIOUS
  <2> QED  BY <2>1, <2>2
<1>3. SceneTypes' /\ DecidedOnce'
  BY <1>1, <1>2 DEF SceneTypes, DecidedOnce, IsScene
<1>4. DecidedFirst' /\ HoldoffCurrent'
  BY <1>1 DEF DecidedFirst, HoldoffCurrent, Undecided, Replaced, Unfinished
<1>5. PendingRefused'
  BY <1>1, <1>2 DEF PendingRefused, KeepsHash
<1>6. SkippedCovered'
  BY <1>1, <1>2 DEF SkippedCovered, Kept, KeepsHash
<1> QED  BY <1>1, <1>3, <1>4, <1>5, <1>6

-----------------------------------------------------------------------------
(* Migration.                                                              *)

\* What is taken out and put back is decided anew, and all else stays.
\* The tasks here among tids are covered, nothing else that was decided is lost.
PutsBack(tids, back) ==
    /\ back.here \subseteq tids
    /\ IsScene(back.sq)
    /\ back.sq.covered = (sq.covered \ tids) \cup back.here
    /\ sq.notcovered \ tids \subseteq back.sq.notcovered
    /\ sq.running \ tids \subseteq back.sq.running
    /\ \A d \in back.sq.notcovered :
          d \in sq.notcovered \ tids \/ (rqdata.hard[d] # {} /\ d \notin sq.covered \ tids)

LEMMA PutBackDecides ==
    ASSUME SceneInv, NEW tids \in SUBSET rqdata.setscene, NEW deferred
    PROVE  PutsBack(tids, PutBack(tids, deferred))
<1> DEFINE s == TakenOut(tids)
           harddepfail == {t \in tids : rqdata.hard[t] \cap s.notcovered # {}}
           back == PutBack(tids, deferred)
           Updated(start) == UpdateScenequeue(start, outrightfail \ tids, tids, deferred, sstate)
<1>0. PICK ready \in SUBSET tids :
        \E start, update :
          /\ start = [s EXCEPT !.buildable = @ \cup ready]
          /\ update = Updated(start)
          /\ back = [update EXCEPT !.sq = IF harddepfail = {} THEN @ ELSE Settle(@, {}, harddepfail)]
  BY DEF PutBack
<1>1. PICK start, update :
          /\ start = [s EXCEPT !.buildable = @ \cup ready]
          /\ update = Updated(start)
          /\ back = [update EXCEPT !.sq = IF harddepfail = {} THEN @ ELSE Settle(@, {}, harddepfail)]
  BY <1>0
<1>2. /\ s.covered = sq.covered \ tids /\ s.notcovered = sq.notcovered \ tids
      /\ s.running = sq.running \ tids /\ s.buildable = sq.buildable \ tids
      /\ s.harddep_deferred = sq.harddep_deferred
      /\ s = [buildable |-> s.buildable, running |-> s.running, covered |-> s.covered,
            notcovered |-> s.notcovered, done |-> s.done, harddep_deferred |-> s.harddep_deferred]
  BY DEF TakenOut
<1> HIDE DEF s
<1>3. /\ start.covered = s.covered /\ start.notcovered = s.notcovered /\ start.running = s.running
      /\ start.buildable = s.buildable \cup ready /\ start.harddep_deferred = s.harddep_deferred
      /\ start = [buildable |-> start.buildable, running |-> start.running, covered |-> start.covered,
            notcovered |-> start.notcovered, done |-> start.done, harddep_deferred |-> start.harddep_deferred]
  BY <1>1, <1>2
<1>4. IsScene(start)
  BY <1>2, <1>3 DEF SceneInv, SceneTypes, IsScene
<1>5. update.here \subseteq tids /\ Decides(start, update.sq, update.here, {})
  <2>1. update = UpdateScenequeue(start, outrightfail \ tids, tids, deferred, sstate)
    BY <1>1
  <2>2. rqdata \in Builds
    BY DEF SceneInv
  <2> QED  BY <2>1, <2>2, <1>4, UpdateDecides
<1>6. \A d \in harddepfail : rqdata.hard[d] # {} /\ d \in tids
  OBVIOUS
<1> HIDE DEF harddepfail
<1>7. Decides(update.sq, Settle(update.sq, {}, harddepfail), {}, harddepfail)
  BY <1>5, SettleDecides DEF SceneInv, Decides
<1>8. /\ back.here = update.here
      /\ back.sq = IF harddepfail = {} THEN update.sq ELSE Settle(update.sq, {}, harddepfail)
  BY <1>1 DEF UpdateScenequeue
<1> HIDE DEF back
<1>9. PutsBack(tids, back)
  BY <1>2, <1>3, <1>5, <1>6, <1>7, <1>8 DEF Decides, PutsBack
<1> QED  BY <1>9 DEF back

LEMMA MigrateStep ==
    ASSUME SceneInv, Migrate
    PROVE  SceneInv'
<1> USE DEF SceneInv
<1>1. Stranded = {}
  BY SceneInvNotStranded DEF Migrate, NeverStranded
<1>2. MigrateTasks
  BY <1>1 DEF Migrate
<1>3. /\ UNCHANGED <<rqdata, sqdata, sq_live, holdoff_tasks, tasks_covered,
                     runq_running, runq_complete, runq_tasksrun>>
      /\ pc \in {"changed", "unchanged"} /\ pc' = "scene"
  BY DEF Migrate, holdoff
<1> DEFINE again == pc = "changed" \/ Migrating # {}
<1>4. PICK owned, deferred, back :
          /\ owned \subseteq Migrating
          /\ DOMAIN deferred = owned \cup DOMAIN sq_deferred
          /\ back = PutBack(Migrating, deferred)
          /\ sq_deferred' = deferred
          /\ sq' = IF again THEN [back.sq EXCEPT !.harddep_deferred = {}] ELSE sq
          /\ pending_migrations' = pending_migrations \ (TooLate \cup Migrating)
          /\ holdoff_need_update' = (holdoff_need_update \/ again)
  <2> DEFINE owned == {t \in Migrating : Index(t) \in DOMAIN sqdata.hashes /\ sqdata.hashes[Index(t)] # t}
             deferred == [t \in owned \cup DOMAIN sq_deferred |->
                            IF t \in owned THEN sqdata.hashes[Index(t)] ELSE sq_deferred[t]]
             back == PutBack(Migrating, deferred)
  <2>1. /\ sq_deferred' = deferred
        /\ sq' = IF again THEN [back.sq EXCEPT !.harddep_deferred = {}] ELSE sq
        /\ pending_migrations' = pending_migrations \ (TooLate \cup Migrating)
        /\ holdoff_need_update' = (holdoff_need_update \/ again)
    BY <1>2 DEF MigrateTasks
  <2>2. DOMAIN deferred = owned \cup DOMAIN sq_deferred
    OBVIOUS
  <2>3. owned \subseteq Migrating /\ back = PutBack(Migrating, deferred)
    OBVIOUS
  <2> HIDE DEF owned, deferred, back
  <2> QED  BY <2>1, <2>2, <2>3
<1>5. /\ Migrating \subseteq pending_migrations /\ Migrating \in SUBSET rqdata.setscene
      /\ Migrating \cap (runq_running \cup sq_live) = {}
      /\ \A t \in Migrating : Replaced(t) \cap Unfinished = {}
  BY DEF Migrating, TooLate, SceneTypes, Replaced, Unfinished
\* What still waits for its migration was decided before.
<1>6. \A t \in pending_migrations' : t \in sq.notcovered \ Migrating
  <2> SUFFICES ASSUME NEW t \in pending_migrations' PROVE t \in sq.notcovered \ Migrating
    OBVIOUS
  <2>1. t \in pending_migrations \ Migrating /\ sqdata.covered[t] \cap Unfinished # {}
    BY <1>4 DEF Migrating
  <2>2. t \in rqdata.setscene /\ t \notin Undecided
    BY <2>1 DEF SceneTypes, DecidedFirst, Replaced
  <2> QED  BY <2>1, <2>2 DEF PendingRefused, Undecided
<1>7. CASE again
  <2>1. /\ back.here \subseteq Migrating
        /\ IsScene(back.sq)
        /\ back.sq.covered = (sq.covered \ Migrating) \cup back.here
        /\ sq.notcovered \ Migrating \subseteq back.sq.notcovered
        /\ sq.running \ Migrating \subseteq back.sq.running
        /\ \A d \in back.sq.notcovered :
              d \in sq.notcovered \ Migrating \/ (rqdata.hard[d] # {} /\ d \notin sq.covered \ Migrating)
    <3>1. Migrating \in SUBSET rqdata.setscene
      BY <1>5
    <3>2. PutsBack(Migrating, PutBack(Migrating, deferred))
      <4> HIDE DEF SceneInv
      <4> QED  BY <3>1, PutBackDecides
    <3> QED  BY <1>4, <3>2 DEF PutsBack
  <2>2. /\ IsScene(sq)'
        /\ sq'.covered = back.sq.covered /\ sq'.notcovered = back.sq.notcovered
        /\ sq'.running = back.sq.running
        /\ holdoff_need_update' = TRUE
    BY <1>3, <1>4, <1>7, <2>1 DEF IsScene
  <2>3. SceneTypes'
    BY <1>3, <1>4, <1>5, <2>1, <2>2 DEF SceneTypes
  <2>4. DecidedOnce'
    BY <1>3, <1>4, <2>1, <2>2 DEF DecidedOnce
  <2>5. DecidedFirst'
    <3>1. Undecided' \subseteq Undecided \cup Migrating
      BY <1>3, <2>1, <2>2 DEF Undecided
    <3> QED  BY <1>3, <1>5, <3>1 DEF DecidedFirst, Replaced, Unfinished
  <2>6. PendingRefused'
    BY <1>6, <2>1, <2>2 DEF PendingRefused
  <2>7. SkippedCovered'
    BY <1>3, <1>4, <1>5, <2>1, <2>2 DEF SkippedCovered, Kept
  <2> QED  BY <1>3, <2>2, <2>3, <2>4, <2>5, <2>6, <2>7 DEF HoldoffCurrent
<1>8. CASE ~again
  <2>1. /\ sq' = sq /\ DOMAIN sq_deferred' = DOMAIN sq_deferred
        /\ holdoff_need_update' = (holdoff_need_update \/ FALSE)
        /\ pending_migrations' \subseteq pending_migrations
    BY <1>4, <1>8
  <2>2. SceneTypes' /\ DecidedOnce'
    BY <1>3, <2>1 DEF SceneTypes, DecidedOnce, IsScene
  <2>3. DecidedFirst' /\ SkippedCovered'
    BY <1>3, <2>1 DEF DecidedFirst, SkippedCovered, Kept, Undecided, Replaced, Unfinished
  <2>4. PendingRefused'
    BY <1>6, <2>1 DEF PendingRefused
  <2>5. HoldoffCurrent'
    BY <1>3, <2>1 DEF HoldoffCurrent, Undecided
  <2> QED  BY <1>3, <2>2, <2>3, <2>4, <2>5
<1> QED  BY <1>7, <1>8

-----------------------------------------------------------------------------
LEMMA SceneInit == Init => SceneInv
<1> SUFFICES ASSUME Init PROVE SceneInv
  OBVIOUS
<1>1. /\ rqdata \in Builds /\ sq_live = {} /\ pending_migrations = {}
      /\ runq_running = {} /\ runq_complete = {} /\ holdoff_need_update = TRUE /\ pc = "top"
  BY DEF Init
<1>2. DOMAIN sq_deferred \subseteq rqdata.setscene
  BY DEF Init, CollapsedFor, Deferred
<1>3. PICK start, update :
          /\ start.buildable \subseteq rqdata.setscene /\ start.running = {} /\ start.covered = {}
          /\ start.notcovered = {} /\ start.harddep_deferred = {}
          /\ start = [buildable |-> start.buildable, running |-> start.running,
                covered |-> start.covered, notcovered |-> start.notcovered,
                done |-> start.done, harddep_deferred |-> start.harddep_deferred]
          /\ update = UpdateScenequeue(start, {}, rqdata.setscene, sqdata.deferred, sstate)
          /\ sq = update.sq
  <2> DEFINE plain == sqdata.unskippable \ rqdata.setscene
             start == [buildable |-> {t \in rqdata.setscene : sqdata.revdeps[t] = {}},
                       running |-> {}, covered |-> {}, notcovered |-> {},
                       done |-> plain, harddep_deferred |-> {}]
             update == UpdateScenequeue(start, {}, rqdata.setscene, sqdata.deferred, sstate)
  <2>1. sq = update.sq
    BY DEF Init
  <2>2. update = UpdateScenequeue(start, {}, rqdata.setscene, sqdata.deferred, sstate)
    OBVIOUS
  <2>3. /\ start.buildable \subseteq rqdata.setscene /\ start.running = {} /\ start.covered = {}
        /\ start.notcovered = {} /\ start.harddep_deferred = {}
        /\ start = [buildable |-> start.buildable, running |-> start.running,
              covered |-> start.covered, notcovered |-> start.notcovered,
              done |-> start.done, harddep_deferred |-> start.harddep_deferred]
    OBVIOUS
  <2> HIDE DEF start, update
  <2> QED  BY <2>1, <2>2, <2>3
<1>4. IsScene(start)
  BY <1>3 DEF IsScene
<1>5. Decides(start, sq, update.here, {})
  <2>1. update = UpdateScenequeue(start, {}, rqdata.setscene, sqdata.deferred, sstate)
    BY <1>3
  <2> QED  BY <1>1, <1>3, <1>4, <2>1, UpdateDecides
<1>6. SceneTypes /\ DecidedOnce
  BY <1>1, <1>2, <1>3, <1>5 DEF SceneTypes, DecidedOnce, Decides
<1> QED  BY <1>1, <1>6 DEF SceneInv, DecidedFirst, PendingRefused, SkippedCovered, Kept, HoldoffCurrent, Unfinished

LEMMA SceneStep == OrderInv /\ SceneInv /\ [Next]_vars => SceneInv'
<1> SUFFICES ASSUME OrderInv, SceneInv, [Next]_vars PROVE SceneInv'
  OBVIOUS
<1>1. CASE UNCHANGED vars
  BY <1>1 DEF vars, scene, holdoff, runq, hashing, SceneInv, SceneTypes, IsScene, DecidedOnce,
              DecidedFirst, PendingRefused, SkippedCovered, Kept, HoldoffCurrent, Undecided, Replaced, Unfinished
<1>2. CASE Still
  BY <1>1, <1>2, RehashStep, MigrateStep, TurnSteps, DeferHardStep, StartSetsceneStep,
     UpdateHoldoffStep, QuietSteps, ExitSteps DEF Still, Over
<1>3. ASSUME NEW t \in Task, Moving(t) PROVE SceneInv'
  BY <1>3, StartTaskStep, CompletingSteps, QuietSteps DEF Moving, OrderInv, TasksApart
<1> QED  BY <1>1, <1>2, <1>3, NextSplit

-----------------------------------------------------------------------------
(* What always holds.                                                      *)

LEMMA RunAlways == Spec => [](OrderInv /\ SceneInv)
BY OrderInit, OrderStep, SceneInit, SceneStep, SceneInvNotStranded, PTL DEF Spec

\* "Task %s marked as completed but now needing to rerun? Halting build.": it never
\* comes to that, for only what a covered setscene task stands for was skipped.
THEOREM StrandedCorrect == Spec => []NeverStranded
BY RunAlways, SceneInvNotStranded, PTL

\* No setscene task unpacks while what it stands for is running, and only a task
\* that failed with a hard dependency is ever decided both ways.
THEOREM CoveredCorrect == Spec => [](CoveredWaits /\ CoveredApart)
BY RunAlways, SceneInvWaits, PTL

\* A task is on a worker only when all it depends on is complete.
THEOREM InputsComplete ==
    Spec => [](\A t \in InFlight : Satisfied(t, runq_complete))
<1>1. OrderInv => \A t \in InFlight : Satisfied(t, runq_complete)
  BY DEF OrderInv, TasksApart, InFlight
<1> QED  BY <1>1, RunAlways, PTL

-----------------------------------------------------------------------------
(* The paths of the graph, and what Collapsed says of them: what is reached, *)
(* and what cannot be skipped, is closed under the dependencies.            *)

\* The elements of S that are in from, or that step leads to from others.
Leads(S, from, step, X) == from \cup {y \in S : \E x \in X : <<x, y>> \in step}

\* The least set that is closed under step holds nothing else.
Least(S, from, step) ==
    {y \in S : \A X \in SUBSET S : Leads(S, from, step, X) \subseteq X => y \in X}

LEMMA LeastClosed ==
    ASSUME NEW S, NEW from, NEW step, from \subseteq S
    PROVE  /\ Least(S, from, step) \subseteq S
           /\ \A y \in S : y \in Least(S, from, step) <=>
                             y \in from \/ \E x \in Least(S, from, step) : <<x, y>> \in step
<1> DEFINE least == Least(S, from, step)
           Lead(X) == Leads(S, from, step, X)
<1>1. Lead(least) \subseteq least
  BY DEF Leads, Least
<1>2. \A y \in least : y \in Lead(least)
  <2> SUFFICES ASSUME NEW y \in least, y \notin Lead(least) PROVE FALSE
    OBVIOUS
  <2>1. Lead(least \ {y}) \subseteq least \ {y}
    BY <1>1 DEF Leads
  <2>2. least \ {y} \in SUBSET S
    BY DEF Least
  <2> QED  BY <2>1, <2>2 DEF Least
<1>3. least \subseteq S
  BY DEF Least
<1> HIDE DEF least
<1>4. \A y \in S : y \in least <=> y \in from \/ \E x \in least : <<x, y>> \in step
  BY <1>1, <1>2 DEF Leads
<1> QED  BY <1>3, <1>4 DEF least

\* The recursion of Reach has a solution, which is then what Reach computes.
LEMMA ReachSolved ==
    ASSUME NEW depends \in [Task -> SUBSET Task], NEW setscene
    PROVE  \A t \in Task : Reach(depends, setscene, t) =
               depends[t] \cup UNION {Reach(depends, setscene, d) : d \in depends[t] \ setscene}
<1> DEFINE Pairs == Task \X Task
           base == {y \in Pairs : y[2] \in depends[y[1]]}
           rel == {y \in Pairs \X Pairs : y[1][1] \in depends[y[2][1]] \ setscene /\ y[1][2] = y[2][2]}
<1> DEFINE R == Least(Pairs, base, rel)
<1>1. /\ R \subseteq Pairs
      /\ \A y \in Pairs : y \in R <=> y \in base \/ \E x \in R : <<x, y>> \in rel
  <2>1. base \subseteq Pairs
    OBVIOUS
  <2> HIDE DEF Pairs, base, rel
  <2> QED  BY <2>1, LeastClosed
<1> HIDE DEF R
<1> DEFINE Solves(g) == g = [u \in Task |-> depends[u] \cup UNION {g[d] : d \in depends[u] \ setscene}]
           found[u \in Task] == depends[u] \cup UNION {found[d] : d \in depends[u] \ setscene}
           solution == [u \in Task |-> {x \in Task : <<u, x>> \in R}]
<1>2. \A u, x \in Task : <<u, x>> \in R <=>
          x \in depends[u] \/ \E d \in depends[u] \ setscene : <<d, x>> \in R
  <2> TAKE u \in Task, x \in Task
  <2>1. <<u, x>> \in base <=> x \in depends[u]
    OBVIOUS
  <2>2. ASSUME NEW z \in R, <<z, <<u, x>>>> \in rel
        PROVE  \E d \in depends[u] \ setscene : <<d, x>> \in R
    <3>1. z \in Pairs /\ z = <<z[1], z[2]>>
      BY <1>1
    <3>2. z[1] \in depends[u] \ setscene /\ z[2] = x
      BY <2>2
    <3> QED  BY <3>1, <3>2
  <2>3. ASSUME NEW d \in depends[u] \ setscene, <<d, x>> \in R
        PROVE  <<<<d, x>>, <<u, x>>>> \in rel
    <3>1. <<d, x>> \in Pairs /\ <<u, x>> \in Pairs
      OBVIOUS
    <3> QED  BY <3>1
  <2>4. <<u, x>> \in Pairs
    OBVIOUS
  <2>5. <<u, x>> \in R <=> <<u, x>> \in base \/ \E z \in R : <<z, <<u, x>>>> \in rel
    <3> HIDE DEF base, rel, Pairs
    <3> QED  BY <1>1, <2>4
  <2> HIDE DEF base, rel, Pairs
  <2> QED  BY <2>1, <2>2, <2>3, <2>5
<1>3. Solves(solution)
  <2>1. ASSUME NEW u \in Task
        PROVE  solution[u] = depends[u] \cup UNION {solution[d] : d \in depends[u] \ setscene}
    <3> HIDE DEF base, rel, Pairs
    <3>1. \A d \in depends[u] : d \in Task /\ solution[d] = {x \in Task : <<d, x>> \in R}
      <4>1. depends[u] \subseteq Task
        OBVIOUS
      <4> QED  BY <4>1
    <3>2. \A x \in Task : x \in solution[u] <=> x \in depends[u] \/ \E d \in depends[u] \ setscene : x \in solution[d]
      BY <1>2, <3>1
    <3>3. solution[u] \subseteq Task /\ depends[u] \subseteq Task
      OBVIOUS
    <3> HIDE DEF solution
    <3>4. \A d \in depends[u] : solution[d] \subseteq Task
      <4> HIDE DEF solution
      <4> QED  BY <3>1
    <3> QED  BY <3>2, <3>3, <3>4
  <2> HIDE DEF base, rel, Pairs, solution
  <2>2. solution = [u \in Task |-> solution[u]]
    BY DEF solution
  <2> QED  BY <2>1, <2>2
<1>4. Solves(found)
  <2> HIDE DEF solution
  <2>1. \E g : Solves(g)
    BY <1>3, Zenon
  <2> QED  BY <2>1, Zenon
<1>5. \A t \in Task : Reach(depends, setscene, t) = found[t]
  BY DEF Reach
<1> HIDE DEF found
<1>6. \A t \in Task : found[t] = depends[t] \cup UNION {found[d] : d \in depends[t] \ setscene}
  BY <1>4
<1> QED  BY <1>5, <1>6

\* What is reached is closed under the dependencies of plain tasks.
LEMMA ReachClosed ==
    ASSUME NEW depends \in [Task -> SUBSET Task], NEW setscene, Acyclic(depends)
    PROVE  \A s \in Task : \A p \in Reach(depends, setscene, s) \ setscene :
               p \in Task /\ depends[p] \subseteq Reach(depends, setscene, s)
<1> DEFINE found == [t \in Task |-> Reach(depends, setscene, t)]
           Good(s) == \A p \in found[s] \ setscene : p \in Task /\ depends[p] \subseteq found[s]
           N == Cardinality(Task)
<1>1. PICK weight \in [Task -> 1 .. N] : \A t \in Task : \A d \in depends[t] : weight[d] < weight[t]
  BY DEF Acyclic
<1>2. \A t \in Task : found[t] = depends[t] \cup UNION {found[d] : d \in depends[t] \ setscene}
  <2>1. \A t \in Task : \A d \in depends[t] : d \in Task
    OBVIOUS
  <2>2. \A t \in Task : found[t] = Reach(depends, setscene, t)
    OBVIOUS
  <2> HIDE DEF found
  <2> QED  BY <2>1, <2>2, ReachSolved
<1> HIDE DEF found
<1>3. ASSUME NEW s \in Task, \A d \in depends[s] \ setscene : Good(d)
      PROVE  Good(s)
  <2> SUFFICES ASSUME NEW p \in found[s] \ setscene
               PROVE  p \in Task /\ depends[p] \subseteq found[s]
    OBVIOUS
  <2>1. CASE p \in depends[s]
    <3>1. p \in Task /\ depends[p] \subseteq found[p]
      BY <2>1, <1>2
    <3>2. found[p] \subseteq found[s]
      BY <2>1, <1>2
    <3> QED  BY <3>1, <3>2
  <2>2. ASSUME NEW d \in depends[s] \ setscene, p \in found[d]
        PROVE  p \in Task /\ depends[p] \subseteq found[s]
    <3>1. p \in Task /\ depends[p] \subseteq found[d]
      BY <1>3, <2>2
    <3>2. found[d] \subseteq found[s]
      BY <1>2
    <3> QED  BY <3>1, <3>2
  <2> QED  BY <1>2, <2>1, <2>2
<1>4. \A s \in Task : Good(s)
  <2> DEFINE bad == {s \in Task : ~Good(s)}
             W == {weight[s] : s \in bad}
  <2> SUFFICES ASSUME bad # {} PROVE FALSE
    OBVIOUS
  <2>1. W \in SUBSET Nat /\ W # {}
    <3>1. N \in Nat
      BY FS_CardinalityType, TaskAssumption
    <3> HIDE DEF N, Good
    <3> QED  BY <3>1
  <2>2. PICK w \in W : \A y \in W : w <= y
    <3> HIDE DEF W
    <3> QED  BY <2>1, LeastNumber
  <2>3. PICK s \in bad : w = weight[s]
    OBVIOUS
  <2>4. PICK d \in depends[s] \ setscene : ~Good(d)
    <3> HIDE DEF Good
    <3> QED BY <1>3, <2>3
  <2>5. d \in bad /\ weight[d] < weight[s]
    <3> HIDE DEF Good
    <3> QED BY <1>1, <2>3, <2>4
  <2>6. weight[d] \in W
    BY <2>5
  <2> HIDE DEF W, bad
  <2>7. w \in Nat /\ weight[d] \in Nat
    BY <2>1, <2>2, <2>6
  <2> QED  BY <2>2, <2>3, <2>5, <2>6, <2>7
<1> QED  BY <1>4 DEF found

\* The levels of Unskippable, as many as there are tasks.
Levels(depends, setscene, start, N) ==
    LET grown[n \in 0 .. N] ==
            IF n = 0 THEN start
            ELSE UNION {{t} \cup (IF t \in setscene THEN {} ELSE depends[t]) : t \in grown[n - 1]}
    IN  grown

\* From t a level leads to x.
Leading(depends, setscene, t, x) == x = t \/ (t \notin setscene /\ x \in depends[t])

\* The recursion has a solution.
LEMMA LevelsSolved ==
    ASSUME NEW depends \in [Task -> SUBSET Task], NEW setscene, NEW start \in SUBSET Task, NEW N \in Nat
    PROVE  /\ Levels(depends, setscene, start, N)[0] = start
           /\ \A n \in 1 .. N : \A x : x \in Levels(depends, setscene, start, N)[n] <=>
                  \E t \in Levels(depends, setscene, start, N)[n - 1] : Leading(depends, setscene, t, x)
<1> DEFINE Places == (0 .. N) \X Task
           from == {y \in Places : y[1] = 0 /\ y[2] \in start}
           step == {z \in Places \X Places :
                       z[2][1] = z[1][1] + 1 /\ Leading(depends, setscene, z[1][2], z[2][2])}
           R == Least(Places, from, step)
<1>1. /\ R \subseteq Places
      /\ \A y \in Places : y \in R <=> y \in from \/ \E x \in R : <<x, y>> \in step
  <2>1. from \subseteq Places
    OBVIOUS
  <2> HIDE DEF Places, from, step
  <2> QED  BY <2>1, LeastClosed
<1> HIDE DEF R
<1>2. \A n \in 0 .. N, x \in Task :
          <<n, x>> \in R <=> \/ n = 0 /\ x \in start
                           \/ \E t \in Task : /\ n > 0 /\ <<n - 1, t>> \in R
                                            /\ Leading(depends, setscene, t, x)
  <2> TAKE n \in 0 .. N, x \in Task
  <2>1. <<n, x>> \in from <=> n = 0 /\ x \in start
    OBVIOUS
  <2>2. ASSUME NEW z \in R, <<z, <<n, x>>>> \in step
        PROVE  \E t \in Task : n > 0 /\ <<n - 1, t>> \in R /\ Leading(depends, setscene, t, x)
    <3>1. z \in Places /\ z = <<z[1], z[2]>>
      BY <1>1
    <3>2. n = z[1] + 1 /\ Leading(depends, setscene, z[2], x)
      BY <2>2
    <3>3. z[1] \in 0 .. N /\ z[2] \in Task
      BY <3>1
    <3>4. z[1] = n - 1 /\ n > 0
      BY <3>2, <3>3
    <3> QED  BY <3>1, <3>2, <3>3, <3>4
  <2>3. ASSUME NEW t \in Task, n > 0, <<n - 1, t>> \in R, Leading(depends, setscene, t, x)
        PROVE  <<<<n - 1, t>>, <<n, x>>>> \in step
    <3>1. n - 1 \in 0 .. N /\ (n - 1) + 1 = n
      BY <2>3
    <3> QED  BY <2>3, <3>1
  <2>4. <<n, x>> \in R <=> <<n, x>> \in from \/ \E z \in R : <<z, <<n, x>>>> \in step
    <3>1. <<n, x>> \in Places
      OBVIOUS
    <3> HIDE DEF from, step, Places
    <3> QED  BY <1>1, <3>1
  <2> HIDE DEF from, step, Places
  <2> QED  BY <2>1, <2>2, <2>3, <2>4
<1> DEFINE Onward(X) == UNION {{t} \cup (IF t \in setscene THEN {} ELSE depends[t]) : t \in X}
           Solves(g) == g = [n \in 0 .. N |-> IF n = 0 THEN start ELSE Onward(g[n - 1])]
           grown[n \in 0 .. N] == IF n = 0 THEN start ELSE Onward(grown[n - 1])
           solution == [n \in 0 .. N |-> {x \in Task : <<n, x>> \in R}]
<1> HIDE DEF Places, from, step
<1>3. ASSUME NEW X, NEW x
      PROVE  x \in Onward(X) <=> \E t \in X : Leading(depends, setscene, t, x)
  BY DEF Leading
<1> HIDE DEF Onward
<1>4. Solves(solution)
  <2>1. ASSUME NEW n \in 0 .. N
        PROVE  solution[n] = IF n = 0 THEN start ELSE Onward(solution[n - 1])
    <3>1. \A x \in Task : x \in solution[n] <=>
              \/ n = 0 /\ x \in start
              \/ \E t \in Task : n > 0 /\ <<n - 1, t>> \in R /\ Leading(depends, setscene, t, x)
      BY <1>2
    <3>2. solution[n] \subseteq Task
      OBVIOUS
    <3>3. CASE n = 0
      <4> HIDE DEF solution
      <4>1. \A x : x \in solution[n] <=> x \in start
        BY <3>1, <3>2, <3>3
      <4> QED  BY <3>3, <4>1
    <3>4. CASE n # 0
      <4>1. n > 0 /\ n - 1 \in 0 .. N
        BY <3>4
      <4>2. \A t \in Task : t \in solution[n - 1] <=> <<n - 1, t>> \in R
        BY <4>1
      <4>3. solution[n - 1] \subseteq Task
        BY <4>1
      <4>4. \A t \in Task : \A x : Leading(depends, setscene, t, x) => x \in Task
        BY DEF Leading
      <4> HIDE DEF solution
      <4>5. \A x : x \in solution[n] <=> \E t \in solution[n - 1] : Leading(depends, setscene, t, x)
        <5> DEFINE before == solution[n - 1]
        <5>1. \A x \in Task : x \in solution[n] <=>
                  \E t \in Task : <<n - 1, t>> \in R /\ Leading(depends, setscene, t, x)
          BY <3>1, <3>4, <4>1, Zenon
        <5>2. \A x \in Task : x \in solution[n] <=>
                  \E t \in before : Leading(depends, setscene, t, x)
          BY <4>2, <4>3, <5>1
        <5> HIDE DEF before
        <5>3. \A x : x \in solution[n] <=> \E t \in before : Leading(depends, setscene, t, x)
          BY <3>2, <4>3, <4>4, <5>2 DEF before
        <5> QED  BY <5>3 DEF before
      <4>6. \A x : x \in solution[n] <=> x \in Onward(solution[n - 1])
        BY <1>3, <4>5
      <4> QED  BY <3>4, <4>6
    <3> HIDE DEF solution
    <3> QED  BY <3>3, <3>4
  <2>2. solution = [n \in 0 .. N |-> solution[n]]
    OBVIOUS
  <2> HIDE DEF solution
  <2> QED  BY <2>1, <2>2
<1>5. Solves(grown)
  <2> HIDE DEF solution
  <2>1. \E g : Solves(g)
    BY <1>4, Zenon
  <2> QED  BY <2>1, Zenon
<1>6. grown = Levels(depends, setscene, start, N)
  BY DEF Levels, Onward
<1> HIDE DEF grown
<1>7. /\ grown[0] = start
      /\ \A n \in 1 .. N : grown[n] = Onward(grown[n - 1])
  <2>1. \A n \in 0 .. N : grown[n] = IF n = 0 THEN start ELSE Onward(grown[n - 1])
    BY <1>5
  <2>2. 0 \in 0 .. N /\ \A n \in 1 .. N : n \in 0 .. N /\ n # 0
    OBVIOUS
  <2> QED  BY <2>1, <2>2
<1>8. \A n \in 1 .. N : \A x :
          x \in grown[n] <=> \E t \in grown[n - 1] : Leading(depends, setscene, t, x)
  BY <1>3, <1>7
<1> QED  BY <1>6, <1>7, <1>8

\* Unskippable is closed under the dependencies of its plain tasks: a task that is
\* new on a level weighs the less the later the level is.
LEMMA UnskippableClosed ==
    ASSUME NEW depends \in [Task -> SUBSET Task], NEW setscene, NEW targets, Acyclic(depends)
    PROVE  /\ \A t \in Unskippable(depends, setscene, targets) \ setscene :
                  t \in Task /\ depends[t] \subseteq Unskippable(depends, setscene, targets)
           /\ {t \in Task : Revdeps(depends, t) = {}} \cup Cantskip(setscene, targets)
                 \subseteq Unskippable(depends, setscene, targets)
<1> DEFINE N == Cardinality(Task)
           start == {t \in Task : Revdeps(depends, t) = {}} \cup Cantskip(setscene, targets)
           grown == Levels(depends, setscene, start, N)
<1>1. start \in SUBSET Task /\ N \in Nat
  BY FS_CardinalityType, TaskAssumption DEF Cantskip
<1>2. Unskippable(depends, setscene, targets) = grown[N]
  BY DEF Unskippable, Levels
<1> HIDE DEF start, N
<1>3. /\ grown[0] = start
      /\ \A n \in 1 .. N : \A x :
             x \in grown[n] <=> \E t \in grown[n - 1] : Leading(depends, setscene, t, x)
  BY <1>1, LevelsSolved
<1>4. PICK weight \in [Task -> 1 .. N] : \A t \in Task : \A d \in depends[t] : weight[d] < weight[t]
  BY DEF Acyclic, N
<1> HIDE DEF grown
<1> DEFINE Fine(n) == /\ start \subseteq grown[n] /\ grown[n] \subseteq Task
                      /\ \A x \in grown[n] : weight[x] <= N - n \/ (n > 0 /\ x \in grown[n - 1])
<1>5. Fine(0)
  BY <1>1, <1>3, <1>4
<1>6. ASSUME NEW n \in 1 .. N, Fine(n - 1)
      PROVE  Fine(n)
  <2>1. \A x \in grown[n] : x \in grown[n - 1] \/ \E t \in grown[n - 1] : t \notin setscene /\ x \in depends[t]
    BY <1>3 DEF Leading
  <2>2. grown[n - 1] \subseteq grown[n] /\ grown[n] \subseteq Task
    BY <1>3, <1>6, <2>1 DEF Leading
  <2>3. ASSUME NEW x \in grown[n], x \notin grown[n - 1] PROVE weight[x] <= N - n
    <3>1. PICK t \in grown[n - 1] : t \notin setscene /\ x \in depends[t]
      BY <2>1, <2>3
    <3>2. weight[x] < weight[t] /\ weight[x] \in Nat /\ weight[t] \in Nat
      BY <1>4, <1>6, <3>1
    <3>3. CASE weight[t] <= N - (n - 1)
      BY <1>1, <3>2, <3>3
    <3>4. CASE n - 1 > 0 /\ t \in grown[n - 1 - 1]
      <4>1. n - 1 \in 1 .. N
        BY <1>1, <3>4
      <4>2. Leading(depends, setscene, t, x)
        BY <3>1 DEF Leading
      <4>3. x \in grown[n - 1]
        BY <1>3, <3>4, <4>1, <4>2
      <4> QED  BY <2>3, <4>3
    <3> QED  BY <1>6, <3>3, <3>4
  <2> QED  BY <1>6, <2>2, <2>3
<1>7. \A n \in 0 .. N : Fine(n)
  <2> DEFINE bad == {n \in 0 .. N : ~Fine(n)}
  <2> SUFFICES ASSUME bad # {} PROVE FALSE
    OBVIOUS
  <2> HIDE DEF Fine
  <2>1. PICK n \in bad : \A m \in bad : n <= m
    <3>1. bad \in SUBSET Nat
      OBVIOUS
    <3> HIDE DEF bad
    <3> QED  BY <3>1, LeastNumber
  <2>2. n \in 1 .. N
    BY <1>5
  <2>3. n - 1 \in 0 .. N /\ n - 1 \notin bad
    BY <1>1, <2>1, <2>2
  <2> QED  BY <1>6, <2>2, <2>3
<1>8. ASSUME NEW t \in grown[N], t \notin setscene
      PROVE  t \in Task /\ depends[t] \subseteq grown[N]
  <2>1. Fine(N)
    BY <1>1, <1>7
  <2>2. t \in Task /\ weight[t] \in 1 .. N
    BY <1>4, <1>8, <2>1
  <2>3. N > 0 /\ t \in grown[N - 1]
    BY <1>1, <1>8, <2>1, <2>2
  <2> QED  BY <1>1, <1>3, <1>8, <2>2, <2>3 DEF Leading
<1>9. {t \in Task : Revdeps(depends, t) = {}} \cup Cantskip(setscene, targets) \subseteq grown[N]
  <2>1. Fine(N)
    BY <1>1, <1>7
  <2> QED  BY <2>1 DEF start
<1> QED  BY <1>2, <1>8, <1>9

\* What the setscene queue rests on: what a task reaches through tasks without
\* setscene it covers, or is waited for by; and nothing that cannot be skipped is
\* above what can.
GraphFacts ==
    /\ \A s \in rqdata.setscene :
          /\ sqdata.covered[s] \cap rqdata.setscene = {}
          /\ \A p \in Replaced(s) : \A d \in rqdata.depends[p] :
                 IF d \in rqdata.setscene THEN s \in sqdata.revdeps[d] ELSE d \in sqdata.covered[s]
    /\ \A p \in sqdata.unskippable \ rqdata.setscene : rqdata.depends[p] \subseteq sqdata.unskippable
    /\ Cantskip(rqdata.setscene, rqdata.targets) \subseteq sqdata.unskippable \ rqdata.setscene

UnskippableRight == sqdata.unskippable = Unskippable(rqdata.depends, rqdata.setscene, rqdata.targets)

LEMMA GraphRight ==
    ASSUME rqdata \in Builds, Collapsed, UnskippableRight
    PROVE  GraphFacts
<1> DEFINE reach(t) == Reach(rqdata.depends, rqdata.setscene, t)
<1>1. rqdata.depends \in [Task -> SUBSET Task] /\ Acyclic(rqdata.depends)
  BY DependsType, BuildsAssumption
<1>2. rqdata.setscene \subseteq Task
  BY HardType
<1>3. /\ \A t \in rqdata.setscene : sqdata.revdeps[t] = {s \in rqdata.setscene : t \in reach(s)}
      /\ \A s \in rqdata.setscene : sqdata.covered[s] = reach(s) \ rqdata.setscene
  BY <1>2 DEF Collapsed, IsCollapsed
<1>4. \A s \in rqdata.setscene : \A p \in Replaced(s) : rqdata.depends[p] \subseteq reach(s)
  <2> TAKE s \in rqdata.setscene
  <2> TAKE p \in Replaced(s)
  <2>1. CASE p = s
    BY <2>1, <1>1, <1>2, ReachSolved
  <2>2. CASE p \in sqdata.covered[s]
    BY <2>2, <1>1, <1>2, <1>3, ReachClosed
  <2> QED  BY <2>1, <2>2 DEF Replaced
<1>5. \A s \in rqdata.setscene : \A p \in Replaced(s) : \A d \in rqdata.depends[p] :
          IF d \in rqdata.setscene THEN s \in sqdata.revdeps[d] ELSE d \in sqdata.covered[s]
  <2> HIDE DEF reach
  <2> QED  BY <1>3, <1>4
<1>6. /\ \A p \in sqdata.unskippable \ rqdata.setscene : rqdata.depends[p] \subseteq sqdata.unskippable
      /\ Cantskip(rqdata.setscene, rqdata.targets) \subseteq sqdata.unskippable
  BY <1>1, UnskippableClosed DEF UnskippableRight
<1>7. Cantskip(rqdata.setscene, rqdata.targets) \cap rqdata.setscene = {}
  BY DEF Cantskip
<1> QED  BY <1>3, <1>5, <1>6, <1>7 DEF GraphFacts

-----------------------------------------------------------------------------
(* Recursion along a chain: the loops of the fold are such recursions.      *)

\* What holds at the bottom and passes from the one before it to an element holds of
\* all, if the ones before weigh less.
LEMMA ChainInduction ==
    ASSUME NEW I, NEW bottom \in I, NEW pred \in [I -> I], NEW rank \in [I -> Nat],
           \A i \in I \ {bottom} : rank[pred[i]] < rank[i],
           NEW G, bottom \in G, \A i \in I \ {bottom} : pred[i] \in G => i \in G
    PROVE  I \subseteq G
<1> DEFINE W == {rank[i] : i \in I \ G}
<1> SUFFICES ASSUME I \ G # {} PROVE FALSE
  OBVIOUS
<1>1. W \in SUBSET Nat /\ W # {}
  OBVIOUS
<1>2. PICK w \in W : \A y \in W : w <= y
  <2> HIDE DEF W
  <2> QED  BY <1>1, LeastNumber
<1>3. PICK i \in I \ G : w = rank[i]
  OBVIOUS
<1>4. pred[i] \in I \ G /\ rank[pred[i]] < rank[i]
  BY <1>3
<1>5. rank[pred[i]] \in W
  BY <1>4
<1> HIDE DEF W
<1>6. rank[pred[i]] \in Nat /\ w \in Nat
  BY <1>1, <1>4
<1> QED  BY <1>2, <1>3, <1>4, <1>5, <1>6

\* A recursion along such a chain has a solution.
Chained(I, bottom, pred, base, step, g) ==
    \A i \in I : g[i] = IF i = bottom THEN base ELSE step[<<i, g[pred[i]]>>]

LEMMA ChainRecursion ==
    ASSUME NEW I, NEW bottom \in I, NEW pred \in [I -> I], NEW rank \in [I -> Nat],
           \A i \in I \ {bottom} : rank[pred[i]] < rank[i],
           NEW V, NEW base \in V, NEW step \in [I \X V -> V]
    PROVE  \E g \in [I -> V] : Chained(I, bottom, pred, base, step, g)
<1> DEFINE Places == I \X V
           from == {<<bottom, base>>}
           rel == {z \in Places \X Places : /\ z[2][1] # bottom /\ pred[z[2][1]] = z[1][1]
                                            /\ z[2][2] = step[<<z[2][1], z[1][2]>>]}
           R == Least(Places, from, rel)
<1>1. /\ R \subseteq Places
      /\ \A y \in Places : y \in R <=> y \in from \/ \E x \in R : <<x, y>> \in rel
  <2>1. from \subseteq Places
    OBVIOUS
  <2> HIDE DEF Places, from, rel
  <2> QED  BY <2>1, LeastClosed
<1> HIDE DEF R
<1>2. \A i \in I, v \in V : <<i, v>> \in R <=>
          \/ i = bottom /\ v = base
          \/ i # bottom /\ \E w \in V : <<pred[i], w>> \in R /\ v = step[<<i, w>>]
  <2> TAKE i \in I, v \in V
  <2>1. <<i, v>> \in from <=> i = bottom /\ v = base
    OBVIOUS
  <2>2. ASSUME NEW z \in R, <<z, <<i, v>>>> \in rel
        PROVE  i # bottom /\ \E w \in V : <<pred[i], w>> \in R /\ v = step[<<i, w>>]
    <3>1. z \in Places /\ z = <<z[1], z[2]>>
      BY <1>1
    <3>2. i # bottom /\ pred[i] = z[1] /\ v = step[<<i, z[2]>>]
      BY <2>2
    <3> QED  BY <3>1, <3>2
  <2>3. ASSUME i # bottom, NEW w \in V, <<pred[i], w>> \in R, v = step[<<i, w>>]
        PROVE  <<<<pred[i], w>>, <<i, v>>>> \in rel
    BY <2>3
  <2>4. <<i, v>> \in R <=> <<i, v>> \in from \/ \E z \in R : <<z, <<i, v>>>> \in rel
    <3>1. <<i, v>> \in Places
      OBVIOUS
    <3> HIDE DEF from, rel, Places
    <3> QED  BY <1>1, <3>1
  <2> HIDE DEF from, rel, Places
  <2> QED  BY <2>1, <2>2, <2>3, <2>4
<1> HIDE DEF Places, from, rel
<1> DEFINE Only(i, v) == <<i, v>> \in R /\ \A w \in V : <<i, w>> \in R => w = v
           G == {i \in I : \E v \in V : Only(i, v)}
           g == [i \in I |-> CHOOSE v \in V : Only(i, v)]
<1>3. bottom \in G
  BY <1>2
<1>4. ASSUME NEW i \in I \ {bottom}, pred[i] \in G PROVE i \in G
  <2>1. PICK w \in V : Only(pred[i], w)
    BY <1>4
  <2>2. step[<<i, w>>] \in V
    OBVIOUS
  <2>3. <<i, step[<<i, w>>]>> \in R
    BY <1>2, <2>1, <2>2
  <2>4. ASSUME NEW v \in V, <<i, v>> \in R PROVE v = step[<<i, w>>]
    <3>1. PICK x \in V : <<pred[i], x>> \in R /\ v = step[<<i, x>>]
      BY <1>2, <2>4
    <3> QED  BY <2>1, <3>1
  <2> QED  BY <2>2, <2>3, <2>4
<1>5. I \subseteq G
  <2> HIDE DEF G
  <2> QED  BY <1>3, <1>4, ChainInduction
<1>6. \A i \in I : g[i] \in V /\ Only(i, g[i])
  <2> TAKE i \in I
  <2>1. \E v \in V : Only(i, v)
    BY <1>5
  <2> HIDE DEF Only
  <2> QED  BY <2>1
<1>7. g = [i \in I |-> g[i]]
  <2> HIDE DEF Only
  <2> QED  OBVIOUS
<1> HIDE DEF g
<1>8. ASSUME NEW i \in I PROVE g[i] = IF i = bottom THEN base ELSE step[<<i, g[pred[i]]>>]
  <2>1. CASE i = bottom
    BY <1>2, <1>6, <2>1
  <2>2. CASE i # bottom
    <3>1. pred[i] \in I /\ g[pred[i]] \in V /\ <<pred[i], g[pred[i]]>> \in R
      BY <1>6
    <3>2. step[<<i, g[pred[i]]>>] \in V
      BY <3>1
    <3>3. <<i, step[<<i, g[pred[i]]>>]>> \in R
      BY <1>2, <2>2, <3>1, <3>2
    <3> QED  BY <1>6, <2>2, <3>2, <3>3
  <2> QED  BY <2>1, <2>2
<1> QED  BY <1>6, <1>7, <1>8 DEF Chained

-----------------------------------------------------------------------------
(* The fold of process_endpoints.  A point is one turn of its loop, a level *)
(* one pass over the points.                                                *)

\* The states it goes through.
Marks(setscene) == UNION {[D -> SUBSET setscene] : D \in SUBSET Task}

Queues(setscene) ==
    [points : Marks(setscene), next : Marks(setscene), sq_revdeps : [Task -> SUBSET Task],
     squash : [Task -> SUBSET setscene], collated : [setscene -> SUBSET Task]]

\* What one turn does with a plain task.
PlainPoint(depends, setscene, q, p, r) ==
    LET tasks == q.points[p] \cup q.squash[p]
    IN  /\ r.points = q.points
        /\ \A s \in setscene :
               r.collated[s] = IF s \in tasks THEN q.collated[s] \cup {p} ELSE q.collated[s]
        /\ \A d \in Task :
               /\ r.squash[d] = IF d = p THEN {} ELSE IF d \in depends[p] THEN q.squash[d] \cup tasks
                                ELSE q.squash[d]
               /\ r.sq_revdeps[d] = IF d \in depends[p] THEN q.sq_revdeps[d] \ {p} ELSE q.sq_revdeps[d]
        /\ \A d \in depends[p] \ setscene : r.sq_revdeps[d] = {} => d \in DOMAIN r.next
        /\ DOMAIN q.next \subseteq DOMAIN r.next
        /\ \A d \in DOMAIN r.next :
               \/ d \in depends[p] \ setscene /\ r.next[d] = q.points[p]
               \/ d \in DOMAIN q.next /\ r.next[d] = q.next[d]

LEMMA PlainProcessed ==
    ASSUME NEW depends \in [Task -> SUBSET Task], NEW setscene \in SUBSET Task,
           NEW q, q \in Queues(setscene), NEW p, p \in DOMAIN q.points, p \notin setscene,
           NEW r, r = ProcessPoint(depends, setscene, q, p)
    PROVE  r \in Queues(setscene) /\ PlainPoint(depends, setscene, q, p, r)
<1> DEFINE tasks == q.points[p] \cup q.squash[p]
           left == [d \in Task |-> IF d \in depends[p] THEN q.sq_revdeps[d] \ {p} ELSE q.sq_revdeps[d]]
           reached == {d \in depends[p] \ setscene : left[d] = {}}
           next == [d \in reached \cup DOMAIN q.next |->
                       IF d \in reached THEN q.points[p] ELSE q.next[d]]
           collated == [s \in setscene |-> IF s \in tasks THEN q.collated[s] \cup {p} ELSE q.collated[s]]
           squash == [d \in Task |-> IF d = p THEN {} ELSE IF d \in depends[p] THEN q.squash[d] \cup tasks
                                     ELSE q.squash[d]]
<1>1. /\ q = [points |-> q.points, next |-> q.next, sq_revdeps |-> q.sq_revdeps,
              squash |-> q.squash, collated |-> q.collated]
      /\ q.points \in Marks(setscene) /\ q.next \in Marks(setscene)
      /\ q.sq_revdeps \in [Task -> SUBSET Task]
      /\ q.squash \in [Task -> SUBSET setscene] /\ q.collated \in [setscene -> SUBSET Task]
  BY DEF Queues
<1>2. r = [points |-> q.points, next |-> next, sq_revdeps |-> left,
           squash |-> squash, collated |-> collated]
  BY <1>1 DEF ProcessPoint
<1>3. /\ DOMAIN q.points \in SUBSET Task /\ DOMAIN q.next \in SUBSET Task
      /\ q.points \in [DOMAIN q.points -> SUBSET setscene]
      /\ q.next \in [DOMAIN q.next -> SUBSET setscene]
  BY <1>1 DEF Marks
<1>4. tasks \subseteq setscene /\ p \in Task
  BY <1>1, <1>3
<1>5. depends[p] \subseteq Task
  BY <1>4
<1>6. left \in [Task -> SUBSET Task] /\ squash \in [Task -> SUBSET setscene]
      /\ collated \in [setscene -> SUBSET Task]
  BY <1>1, <1>4
<1>7. next \in Marks(setscene)
  <2>1. reached \cup DOMAIN q.next \in SUBSET Task
    BY <1>3, <1>5
  <2>2. next \in [reached \cup DOMAIN q.next -> SUBSET setscene]
    BY <1>3
  <2> HIDE DEF reached
  <2> QED  BY <2>1, <2>2 DEF Marks
<1>8. r \in Queues(setscene)
  <2> HIDE DEF next, left, squash, collated
  <2> QED  BY <1>1, <1>2, <1>6, <1>7 DEF Queues
<1>9. DOMAIN next = reached \cup DOMAIN q.next
  OBVIOUS
<1>10. \A d \in depends[p] \ setscene : left[d] = {} => d \in DOMAIN next
  BY <1>9
<1>11. \A d \in DOMAIN next :
           \/ d \in depends[p] \ setscene /\ next[d] = q.points[p]
           \/ d \in DOMAIN q.next /\ next[d] = q.next[d]
  BY <1>9
<1>12. /\ r.points = q.points /\ r.next = next /\ r.sq_revdeps = left
       /\ r.collated = collated /\ r.squash = squash
  BY <1>2
<1>13. PlainPoint(depends, setscene, q, p, r)
  BY <1>9, <1>10, <1>11, <1>12 DEF PlainPoint
<1> QED  BY <1>8, <1>13

\* And with a setscene task.
ScenePoint(q, p, r) ==
    /\ r.points = q.points /\ r.next = q.next
    /\ r.sq_revdeps = q.sq_revdeps /\ r.collated = q.collated
    /\ \A d \in Task : r.squash[d] = IF d = p THEN q.points[p] \cup q.squash[p] ELSE q.squash[d]

LEMMA SceneProcessed ==
    ASSUME NEW depends \in [Task -> SUBSET Task], NEW setscene \in SUBSET Task,
           NEW q, q \in Queues(setscene), NEW p, p \in DOMAIN q.points, p \in setscene,
           NEW r, r = ProcessPoint(depends, setscene, q, p)
    PROVE  r \in Queues(setscene) /\ ScenePoint(q, p, r)
<1>1. /\ q = [points |-> q.points, next |-> q.next, sq_revdeps |-> q.sq_revdeps,
              squash |-> q.squash, collated |-> q.collated]
      /\ q.points \in Marks(setscene) /\ q.next \in Marks(setscene)
      /\ q.sq_revdeps \in [Task -> SUBSET Task]
      /\ q.squash \in [Task -> SUBSET setscene] /\ q.collated \in [setscene -> SUBSET Task]
  BY DEF Queues
<1> DEFINE squash == [q.squash EXCEPT ![p] = q.points[p] \cup q.squash[p]]
<1>2. r = [points |-> q.points, next |-> q.next, sq_revdeps |-> q.sq_revdeps,
           squash |-> squash, collated |-> q.collated]
  BY <1>1 DEF ProcessPoint
<1>3. q.points \in [DOMAIN q.points -> SUBSET setscene]
  BY <1>1 DEF Marks
<1>4. squash \in [Task -> SUBSET setscene]
  BY <1>1, <1>3
<1>5. \A d \in Task : squash[d] = IF d = p THEN q.points[p] \cup q.squash[p] ELSE q.squash[d]
  BY <1>1
<1> HIDE DEF squash
<1>6. /\ r.points = q.points /\ r.next = q.next /\ r.sq_revdeps = q.sq_revdeps
      /\ r.collated = q.collated /\ r.squash = squash
  BY <1>2
<1>7. r \in Queues(setscene)
  BY <1>1, <1>2, <1>4 DEF Queues
<1>8. ScenePoint(q, p, r)
  BY <1>5, <1>6 DEF ScenePoint
<1> QED  BY <1>7, <1>8

LEMMA PointProcessed ==
    ASSUME NEW depends \in [Task -> SUBSET Task], NEW setscene \in SUBSET Task,
           NEW q, q \in Queues(setscene), NEW p, p \in DOMAIN q.points,
           NEW r, r = ProcessPoint(depends, setscene, q, p)
    PROVE  r \in Queues(setscene) /\ r.points = q.points
<1>1. CASE p \in setscene
  <2>1. r \in Queues(setscene) /\ ScenePoint(q, p, r)
    BY <1>1, SceneProcessed
  <2> QED  BY <2>1 DEF ScenePoint
<1>2. CASE p \notin setscene
  <2>1. r \in Queues(setscene) /\ PlainPoint(depends, setscene, q, p, r)
    BY <1>2, PlainProcessed
  <2> QED  BY <2>1 DEF PlainPoint
<1> QED  BY <1>1, <1>2

\* The loop over the points of a level, by the points that are done.
Folded(depends, setscene, q, S) ==
    LET iter[s \in SUBSET S] ==
            IF s = {} THEN q
            ELSE LET x == CHOOSE x \in s : TRUE
                 IN  ProcessPoint(depends, setscene, iter[s \ {x}], x)
    IN  iter

LevelDone(done) == [done EXCEPT !.points = done.next, !.next = [t \in {} |-> {}]]

LEMMA LevelFolded ==
    ASSUME NEW depends, NEW setscene, NEW q, NEW S, S = DOMAIN q.points
    PROVE  ProcessLevel(depends, setscene, q) = LevelDone(Folded(depends, setscene, q, S)[S])
BY DEF ProcessLevel, FoldSet, MapThenFoldSet, Folded, LevelDone

\* The recursion has a solution.
FoldSteps(depends, setscene, S, F) ==
    \A s \in SUBSET S : s # {} =>
        \E x \in s : F[s] = ProcessPoint(depends, setscene, F[s \ {x}], x)

LEMMA FoldSolved ==
    ASSUME NEW depends \in [Task -> SUBSET Task], NEW setscene \in SUBSET Task,
           NEW q, q \in Queues(setscene), NEW S, S = DOMAIN q.points,
           NEW F, F = Folded(depends, setscene, q, S)
    PROVE  F[{}] = q /\ FoldSteps(depends, setscene, S, F)
<1> DEFINE I == SUBSET S
           pick(s) == CHOOSE x \in s : TRUE
           pred == [s \in I |-> s \ {pick(s)}]
           rank == [s \in I |-> Cardinality(s)]
           V == {v \in Queues(setscene) : v.points = q.points}
           Step(s, v) == ProcessPoint(depends, setscene, v, pick(s))
           step == [z \in I \X V |-> IF z[1] = {} THEN q ELSE Step(z[1], z[2])]
           Solves(g) == g = [s \in I |-> IF s = {} THEN q ELSE Step(s, g[s \ {pick(s)}])]
           iter[s \in I] == IF s = {} THEN q ELSE Step(s, iter[s \ {pick(s)}])
<1>1. S \in SUBSET Task /\ IsFiniteSet(S)
  <2>1. S \in SUBSET Task
    BY DEF Queues, Marks
  <2> QED  BY <2>1, FS_Subset, TaskAssumption
<1>2. /\ {} \in I /\ q \in V /\ pred \in [I -> I]
      /\ \A s \in I : s # {} => pick(s) \in s
  OBVIOUS
<1>3. rank \in [I -> Nat]
  BY <1>1, FS_Subset, FS_CardinalityType
<1>4. \A s \in I \ {{}} : rank[pred[s]] < rank[s]
  <2> TAKE s \in I \ {{}}
  <2>1. IsFiniteSet(s) /\ pick(s) \in s
    BY <1>1, FS_Subset
  <2>2. Cardinality(s \ {pick(s)}) = Cardinality(s) - 1 /\ Cardinality(s) \in Nat
    <3> HIDE DEF pick
    <3> QED  BY <2>1, FS_RemoveElement, FS_CardinalityType
  <2>3. rank[pred[s]] = Cardinality(s \ {pick(s)}) /\ rank[s] = Cardinality(s)
    OBVIOUS
  <2> QED  BY <2>2, <2>3
<1>5. step \in [I \X V -> V]
  <2>1. ASSUME NEW s \in I, s # {}, NEW v \in V PROVE Step(s, v) \in V
    <3>1. pick(s) \in DOMAIN v.points
      BY <1>2, <2>1
    <3> HIDE DEF pick
    <3> QED  BY <3>1, PointProcessed
  <2> HIDE DEF Step, V
  <2> QED  BY <1>2, <2>1
<1>6. PICK g \in [I -> V] : Chained(I, {}, pred, q, step, g)
  <2>1. {} \in I /\ q \in V /\ pred \in [I -> I]
    BY <1>2
  <2> HIDE DEF I, V, pred, rank, step
  <2> QED  BY <2>1, <1>3, <1>4, <1>5, ChainRecursion
<1>7. Solves(g)
  <2>1. ASSUME NEW s \in I
        PROVE  g[s] = IF s = {} THEN q ELSE Step(s, g[s \ {pick(s)}])
    <3>1. pred[s] \in I /\ pred[s] = s \ {pick(s)} /\ g[pred[s]] \in V
      BY <1>2
    <3>2. step[<<s, g[pred[s]]>>] = IF s = {} THEN q ELSE Step(s, g[pred[s]])
      <4> HIDE DEF Step, V, pred, I
      <4> QED  BY <3>1
    <3> HIDE DEF Step, V, pred, I, step
    <3> QED  BY <1>6, <3>1, <3>2 DEF Chained
  <2> HIDE DEF Step, V, pick
  <2> QED  BY <2>1
<1>8. Solves(iter)
  <2> HIDE DEF Step, V, pred, rank, step
  <2>1. \E h : Solves(h)
    BY <1>7, Zenon
  <2> QED  BY <2>1, Zenon
<1>9. F = iter
  BY DEF Folded
<1> HIDE DEF iter, Step
<1>10. /\ F[{}] = q
       /\ \A s \in I : s # {} => F[s] = Step(s, F[s \ {pick(s)}])
  <2> HIDE DEF pick
  <2> QED  BY <1>2, <1>8, <1>9
<1>11. ASSUME NEW s \in I, s # {}
       PROVE  pick(s) \in s /\ F[s] = ProcessPoint(depends, setscene, F[s \ {pick(s)}], pick(s))
  BY <1>2, <1>10, <1>11 DEF Step
<1> HIDE DEF pick
<1> QED  BY <1>10, <1>11 DEF FoldSteps

\* What holds before the loop, and after each point if it did before, holds after it.
FoldKeeps(depends, setscene, S, F, G) ==
    \A s \in SUBSET S : \A x \in s :
        s \ {x} \in G /\ F[s] = ProcessPoint(depends, setscene, F[s \ {x}], x) => s \in G

LEMMA FoldInduction ==
    ASSUME NEW depends \in [Task -> SUBSET Task], NEW setscene \in SUBSET Task,
           NEW q, q \in Queues(setscene), NEW S, S = DOMAIN q.points,
           NEW F, F = Folded(depends, setscene, q, S),
           NEW G, {} \in G, FoldKeeps(depends, setscene, S, F, G)
    PROVE  F[{}] = q /\ S \in G
<1>1. F[{}] = q /\ FoldSteps(depends, setscene, S, F)
  BY FoldSolved
<1>2. IsFiniteSet(S) /\ \A s \in SUBSET S : IsFiniteSet(s) /\ Cardinality(s) \in Nat
  <2>1. S \in SUBSET Task
    BY DEF Queues, Marks
  <2>2. IsFiniteSet(S)
    BY <2>1, FS_Subset, TaskAssumption
  <2> QED  BY <2>2, FS_Subset, FS_CardinalityType
<1> DEFINE W == {Cardinality(s) : s \in (SUBSET S) \ G}
<1>3. SUBSET S \subseteq G
  <2> SUFFICES ASSUME (SUBSET S) \ G # {} PROVE FALSE
    OBVIOUS
  <2>1. W \in SUBSET Nat /\ W # {}
    BY <1>2
  <2>2. PICK w \in W : \A y \in W : w <= y
    <3> HIDE DEF W
    <3> QED  BY <2>1, LeastNumber
  <2>3. PICK s \in (SUBSET S) \ G : w = Cardinality(s)
    OBVIOUS
  <2>4. PICK x \in s : s \ {x} \notin G
    <3>1. s # {}
      BY <2>3
    <3>2. PICK x \in s : F[s] = ProcessPoint(depends, setscene, F[s \ {x}], x)
      BY <1>1, <2>3, <3>1 DEF FoldSteps
    <3> QED  BY <2>3, <3>2 DEF FoldKeeps
  <2>5. IsFiniteSet(s) /\ s \ {x} \in SUBSET S
    BY <1>2, FS_Subset
  <2>6. Cardinality(s \ {x}) = Cardinality(s) - 1 /\ Cardinality(s) \in Nat
    BY <2>5, FS_RemoveElement, FS_CardinalityType
  <2>7. Cardinality(s \ {x}) \in W
    BY <2>4, <2>5
  <2> HIDE DEF W
  <2> QED  BY <2>2, <2>3, <2>6, <2>7
<1> QED  BY <1>1, <1>3

-----------------------------------------------------------------------------
(* What process_endpoints keeps.  rest are the points of a level that are   *)
(* still to be processed.                                                   *)

\* s has come to t.
CameTo(q, rest, s, t) ==
    t \in q.collated[s] \/ s \in q.squash[t] \/ (t \in rest /\ s \in q.points[t])

\* It comes along paths only, and from where it has been to all that is next.
AlongPaths(depends, setscene, q) ==
    /\ \A t \in DOMAIN q.points : \A s \in q.points[t] : t \in Reach(depends, setscene, s)
    /\ \A t \in DOMAIN q.next : \A s \in q.next[t] : t \in Reach(depends, setscene, s)
    /\ \A t \in Task : \A s \in q.squash[t] : t \in Reach(depends, setscene, s)
    /\ \A s \in setscene : q.collated[s] \subseteq Reach(depends, setscene, s) \ setscene

PassedOn(depends, setscene, q, rest) ==
    \A s \in setscene :
        /\ \A d \in depends[s] : CameTo(q, rest, s, d)
        /\ \A p \in q.collated[s] : \A d \in depends[p] : CameTo(q, rest, s, d)

\* t is still to be processed.
Coming(q, rest, t) == t \in rest \cup DOMAIN q.next \/ q.sq_revdeps[t] # {}

\* So is any task that a task has to wait for, and a task that has anything left.
NoneForgotten(depends, setscene, q, rest) ==
    \A t \in Task :
        /\ \A r \in q.sq_revdeps[t] : r \in Task \ setscene /\ t \in depends[r] /\ Coming(q, rest, r)
        /\ t \notin setscene /\ q.squash[t] # {} => Coming(q, rest, t)

QueueInv(depends, setscene, q, rest) ==
    /\ q \in Queues(setscene)
    /\ AlongPaths(depends, setscene, q)
    /\ PassedOn(depends, setscene, q, rest)
    /\ NoneForgotten(depends, setscene, q, rest)

LEMMA QueueTypes ==
    ASSUME NEW setscene \in SUBSET Task, NEW q, q \in Queues(setscene)
    PROVE  /\ q = [points |-> q.points, next |-> q.next, sq_revdeps |-> q.sq_revdeps,
                   squash |-> q.squash, collated |-> q.collated]
           /\ q.points \in Marks(setscene) /\ q.next \in Marks(setscene)
           /\ DOMAIN q.points \in SUBSET Task /\ DOMAIN q.next \in SUBSET Task
           /\ q.points \in [DOMAIN q.points -> SUBSET setscene]
           /\ q.next \in [DOMAIN q.next -> SUBSET setscene]
           /\ q.sq_revdeps \in [Task -> SUBSET Task]
           /\ q.squash \in [Task -> SUBSET setscene] /\ q.collated \in [setscene -> SUBSET Task]
<1>1. /\ q = [points |-> q.points, next |-> q.next, sq_revdeps |-> q.sq_revdeps,
              squash |-> q.squash, collated |-> q.collated]
      /\ q.points \in Marks(setscene) /\ q.next \in Marks(setscene)
      /\ q.sq_revdeps \in [Task -> SUBSET Task]
      /\ q.squash \in [Task -> SUBSET setscene] /\ q.collated \in [setscene -> SUBSET Task]
  BY DEF Queues
<1>2. /\ DOMAIN q.points \in SUBSET Task /\ DOMAIN q.next \in SUBSET Task
      /\ q.points \in [DOMAIN q.points -> SUBSET setscene]
      /\ q.next \in [DOMAIN q.next -> SUBSET setscene]
  BY <1>1 DEF Marks
<1> QED  BY <1>1, <1>2

\* A turn with a plain task keeps all this.
LEMMA PlainKeeps ==
    ASSUME NEW depends \in [Task -> SUBSET Task], NEW setscene \in SUBSET Task, Acyclic(depends),
           NEW q, NEW rest, QueueInv(depends, setscene, q, rest),
           NEW p, p \in rest, rest \subseteq DOMAIN q.points, p \notin setscene,
           NEW r, r \in Queues(setscene), PlainPoint(depends, setscene, q, p, r)
    PROVE  QueueInv(depends, setscene, r, rest \ {p})
<1> DEFINE tasks == q.points[p] \cup q.squash[p]
           R(s) == Reach(depends, setscene, s)
<1>1. /\ p \in Task /\ depends[p] \subseteq Task /\ tasks \subseteq setscene
      /\ q.squash \in [Task -> SUBSET setscene] /\ q.collated \in [setscene -> SUBSET Task]
      /\ DOMAIN q.points \subseteq Task
      /\ \A t \in DOMAIN q.points : q.points[t] \subseteq setscene
      /\ \A t \in DOMAIN q.next : q.next[t] \subseteq setscene
  <2>1. q \in Queues(setscene)
    BY DEF QueueInv
  <2> QED  BY <2>1, QueueTypes
<1>2. /\ r.points = q.points
      /\ \A s \in setscene :
             r.collated[s] = IF s \in tasks THEN q.collated[s] \cup {p} ELSE q.collated[s]
      /\ \A d \in Task :
             /\ r.squash[d] = IF d = p THEN {} ELSE IF d \in depends[p] THEN q.squash[d] \cup tasks
                              ELSE q.squash[d]
             /\ r.sq_revdeps[d] = IF d \in depends[p] THEN q.sq_revdeps[d] \ {p} ELSE q.sq_revdeps[d]
      /\ \A d \in depends[p] \ setscene : r.sq_revdeps[d] = {} => d \in DOMAIN r.next
      /\ DOMAIN q.next \subseteq DOMAIN r.next
      /\ \A d \in DOMAIN r.next :
             \/ d \in depends[p] \ setscene /\ r.next[d] = q.points[p]
             \/ d \in DOMAIN q.next /\ r.next[d] = q.next[d]
  BY DEF PlainPoint
<1>3. \A t \in Task : t \notin depends[t]
  <2>1. PICK weight \in [Task -> 1 .. Cardinality(Task)] :
            \A t \in Task : \A d \in depends[t] : weight[d] < weight[t]
    BY DEF Acyclic
  <2>2. \A t \in Task : weight[t] \in Int
    BY <2>1
  <2> QED  BY <2>1, <2>2
<1>4. AlongPaths(depends, setscene, r)
  <2>1. \A s \in tasks : p \in R(s) /\ depends[p] \subseteq R(s)
    <3>1. \A s \in tasks : p \in R(s)
      BY <1>1 DEF QueueInv, AlongPaths
    <3> QED  BY <1>1, <3>1, ReachClosed
  <2> HIDE DEF R
  <2>2. \A t \in DOMAIN r.points : \A s \in r.points[t] : t \in R(s)
    BY <1>2 DEF QueueInv, AlongPaths, R
  <2>3. \A t \in DOMAIN r.next : \A s \in r.next[t] : t \in R(s)
    BY <1>2, <2>1 DEF QueueInv, AlongPaths, R
  <2>4. \A t \in Task : \A s \in r.squash[t] : t \in R(s)
    BY <1>2, <2>1 DEF QueueInv, AlongPaths, R
  <2>5. \A s \in setscene : r.collated[s] \subseteq R(s) \ setscene
    <3> TAKE s \in setscene
    <3>1. q.collated[s] \subseteq R(s) \ setscene
      BY DEF QueueInv, AlongPaths, R
    <3>2. r.collated[s] = IF s \in tasks THEN q.collated[s] \cup {p} ELSE q.collated[s]
      BY <1>2
    <3> HIDE DEF tasks
    <3> QED  BY <2>1, <3>1, <3>2
  <2> QED  BY <2>2, <2>3, <2>4, <2>5 DEF AlongPaths, R
<1>5. \A s \in setscene, t \in Task : CameTo(q, rest, s, t) => CameTo(r, rest \ {p}, s, t)
  BY <1>1, <1>2, <1>3 DEF CameTo
<1>6. PassedOn(depends, setscene, r, rest \ {p})
  <2> SUFFICES ASSUME NEW s \in setscene
               PROVE  /\ \A d \in depends[s] : CameTo(r, rest \ {p}, s, d)
                      /\ \A c \in r.collated[s] : \A d \in depends[c] : CameTo(r, rest \ {p}, s, d)
    BY DEF PassedOn
  <2>1. /\ \A d \in depends[s] : CameTo(q, rest, s, d)
        /\ \A c \in q.collated[s] : \A d \in depends[c] : CameTo(q, rest, s, d)
    BY DEF QueueInv, PassedOn
  <2>2. \A t \in Task : depends[t] \subseteq Task
    OBVIOUS
  <2>3. \A c \in q.collated[s] : c \in Task
    BY <1>1
  <2>4. \A c \in q.collated[s] : \A d \in depends[c] : CameTo(r, rest \ {p}, s, d)
    BY <1>5, <2>1, <2>2, <2>3
  <2>5. s \in tasks => \A d \in depends[p] : CameTo(r, rest \ {p}, s, d)
    BY <1>1, <1>2, <1>3 DEF CameTo
  <2>6. \A d \in depends[s] : CameTo(r, rest \ {p}, s, d)
    BY <1>5, <2>1, <2>2
  <2>7. r.collated[s] = IF s \in tasks THEN q.collated[s] \cup {p} ELSE q.collated[s]
    BY <1>2
  <2> HIDE DEF tasks
  <2> QED  BY <2>4, <2>5, <2>6, <2>7
<1>7. \A t \in Task : Coming(q, rest, t) /\ t # p /\ t \notin setscene => Coming(r, rest \ {p}, t)
  BY <1>2 DEF Coming
<1>8. NoneForgotten(depends, setscene, r, rest \ {p})
  <2> SUFFICES ASSUME NEW t \in Task
               PROVE  /\ \A x \in r.sq_revdeps[t] :
                             x \in Task \ setscene /\ t \in depends[x] /\ Coming(r, rest \ {p}, x)
                      /\ t \notin setscene /\ r.squash[t] # {} => Coming(r, rest \ {p}, t)
    BY DEF NoneForgotten
  <2>1. /\ \A x \in q.sq_revdeps[t] : x \in Task \ setscene /\ t \in depends[x] /\ Coming(q, rest, x)
        /\ t \notin setscene /\ q.squash[t] # {} => Coming(q, rest, t)
    BY DEF QueueInv, NoneForgotten
  <2>2. ASSUME NEW x \in r.sq_revdeps[t]
        PROVE  x \in Task \ setscene /\ t \in depends[x] /\ Coming(r, rest \ {p}, x)
    <3>1. x \in q.sq_revdeps[t] /\ (x = p => t \notin depends[p])
      <4>1. r.sq_revdeps[t] = IF t \in depends[p] THEN q.sq_revdeps[t] \ {p} ELSE q.sq_revdeps[t]
        BY <1>2
      <4> QED  BY <2>2, <4>1
    <3>2. x # p
      BY <2>1, <3>1
    <3> QED  BY <1>7, <2>1, <3>1, <3>2
  <2>3. ASSUME t \notin setscene, r.squash[t] # {}
        PROVE  Coming(r, rest \ {p}, t)
    <3>1. t # p
      BY <1>2, <2>3
    <3>2. CASE t \in depends[p]
      BY <1>2, <2>3, <3>2 DEF Coming
    <3>3. CASE t \notin depends[p]
      BY <1>2, <1>7, <2>1, <2>3, <3>1, <3>3
    <3> QED  BY <3>2, <3>3
  <2> QED  BY <2>2, <2>3
<1> QED  BY <1>4, <1>6, <1>8 DEF QueueInv

\* So does a turn with a setscene task.
LEMMA SceneKeeps ==
    ASSUME NEW depends \in [Task -> SUBSET Task], NEW setscene \in SUBSET Task,
           NEW q, NEW rest, QueueInv(depends, setscene, q, rest),
           NEW p, p \in rest, rest \subseteq DOMAIN q.points, p \in setscene,
           NEW r, r \in Queues(setscene), ScenePoint(q, p, r)
    PROVE  QueueInv(depends, setscene, r, rest \ {p})
<1>1. /\ r.points = q.points /\ r.next = q.next
      /\ r.sq_revdeps = q.sq_revdeps /\ r.collated = q.collated
      /\ \A d \in Task : r.squash[d] = IF d = p THEN q.points[p] \cup q.squash[p] ELSE q.squash[d]
  BY DEF ScenePoint
<1>2. q.collated \in [setscene -> SUBSET Task]
  BY QueueTypes DEF QueueInv
<1>3. AlongPaths(depends, setscene, r)
  BY <1>1 DEF QueueInv, AlongPaths
<1>4. \A s \in setscene, t \in Task : CameTo(q, rest, s, t) => CameTo(r, rest \ {p}, s, t)
  BY <1>1 DEF CameTo
<1>5. PassedOn(depends, setscene, r, rest \ {p})
  <2> SUFFICES ASSUME NEW s \in setscene
               PROVE  /\ \A d \in depends[s] : CameTo(r, rest \ {p}, s, d)
                      /\ \A c \in q.collated[s] : \A d \in depends[c] : CameTo(r, rest \ {p}, s, d)
    BY <1>1 DEF PassedOn
  <2>1. /\ \A d \in depends[s] : CameTo(q, rest, s, d)
        /\ \A c \in q.collated[s] : \A d \in depends[c] : CameTo(q, rest, s, d)
    BY DEF QueueInv, PassedOn
  <2>2. \A t \in Task : depends[t] \subseteq Task
    OBVIOUS
  <2>3. \A c \in q.collated[s] : c \in Task
    BY <1>2
  <2> QED  BY <1>4, <2>1, <2>2, <2>3
<1>6. \A t \in Task \ setscene : Coming(q, rest, t) => Coming(r, rest \ {p}, t)
  BY <1>1 DEF Coming
<1>7. NoneForgotten(depends, setscene, r, rest \ {p})
  BY <1>1, <1>6 DEF QueueInv, NoneForgotten
<1> QED  BY <1>3, <1>5, <1>7 DEF QueueInv

\* A level leads no further than the edges from its points.
Beyond(depends, setscene, q, r) ==
    /\ r.points = q.points
    /\ \A t \in DOMAIN r.next : \E p \in DOMAIN q.points : t \in depends[p]

\* All points of a level.
LEMMA LevelProcessed ==
    ASSUME NEW depends \in [Task -> SUBSET Task], NEW setscene \in SUBSET Task, Acyclic(depends),
           NEW q, QueueInv(depends, setscene, q, DOMAIN q.points), DOMAIN q.next = {},
           NEW r, r = ProcessLevel(depends, setscene, q)
    PROVE  /\ QueueInv(depends, setscene, r, DOMAIN r.points) /\ DOMAIN r.next = {}
           /\ \A t \in DOMAIN r.points : \E p \in DOMAIN q.points : t \in depends[p]
<1> DEFINE S == DOMAIN q.points
           F == Folded(depends, setscene, q, S)
           Good(s) == /\ QueueInv(depends, setscene, F[s], S \ s)
                      /\ Beyond(depends, setscene, q, F[s])
           G == {s \in SUBSET S : Good(s)}
<1>1. q \in Queues(setscene)
  BY DEF QueueInv
<1>2. F[{}] = q
  <2>1. S = DOMAIN q.points /\ F = Folded(depends, setscene, q, S)
    OBVIOUS
  <2> HIDE DEF S, F
  <2> QED  BY <1>1, <2>1, FoldSolved
<1> HIDE DEF F
<1>3. {} \in G
  <2>1. S \ {} = DOMAIN q.points
    OBVIOUS
  <2> QED  BY <1>2, <2>1 DEF Beyond
<1>4. ASSUME NEW s \in SUBSET S, NEW x \in s, s \ {x} \in G,
             F[s] = ProcessPoint(depends, setscene, F[s \ {x}], x)
      PROVE  s \in G
  <2> DEFINE v == F[s \ {x}]
             rest == S \ (s \ {x})
  <2>1. /\ QueueInv(depends, setscene, v, rest) /\ Beyond(depends, setscene, q, v)
        /\ F[s] = ProcessPoint(depends, setscene, v, x)
    BY <1>4
  <2>2. x \in rest /\ rest \subseteq S /\ rest \ {x} = S \ s /\ x \in S
    OBVIOUS
  <2>3. v \in Queues(setscene) /\ v.points = q.points
    BY <2>1 DEF QueueInv, Beyond
  <2> HIDE DEF v, rest
  <2>4. x \in DOMAIN v.points /\ rest \subseteq DOMAIN v.points
    BY <2>2, <2>3
  <2>5. CASE x \in setscene
    <3>1. F[s] \in Queues(setscene) /\ ScenePoint(v, x, F[s])
      BY <2>1, <2>3, <2>4, <2>5, SceneProcessed
    <3>2. QueueInv(depends, setscene, F[s], rest \ {x})
      BY <2>1, <2>2, <2>4, <2>5, <3>1, SceneKeeps
    <3>3. Beyond(depends, setscene, q, F[s])
      BY <2>1, <3>1 DEF Beyond, ScenePoint
    <3> QED  BY <2>2, <3>2, <3>3
  <2>6. CASE x \notin setscene
    <3>1. F[s] \in Queues(setscene) /\ PlainPoint(depends, setscene, v, x, F[s])
      BY <2>1, <2>3, <2>4, <2>6, PlainProcessed
    <3>2. QueueInv(depends, setscene, F[s], rest \ {x})
      BY <2>1, <2>2, <2>4, <2>6, <3>1, PlainKeeps
    <3>3. Beyond(depends, setscene, q, F[s])
      <4>1. /\ F[s].points = v.points
            /\ \A d \in DOMAIN F[s].next : d \in depends[x] \/ d \in DOMAIN v.next
        BY <3>1 DEF PlainPoint
      <4> QED  BY <2>1, <2>2, <4>1 DEF Beyond
    <3> QED  BY <2>2, <3>2, <3>3
  <2> QED  BY <2>5, <2>6
<1>5. S \in G
  <2>1. S = DOMAIN q.points /\ F = Folded(depends, setscene, q, S)
    BY DEF F
  <2>2. FoldKeeps(depends, setscene, S, F, G)
    <3> HIDE DEF S, G
    <3> QED  BY <1>4 DEF FoldKeeps
  <2> HIDE DEF S, G
  <2> QED  BY <1>1, <1>3, <2>1, <2>2, FoldInduction
<1> DEFINE done == F[S]
           none == [t \in {} |-> {}]
<1>6. QueueInv(depends, setscene, done, {}) /\ Beyond(depends, setscene, q, done)
  <2>1. S \ S = {}
    OBVIOUS
  <2> QED  BY <1>5, <2>1
<1>7. r = LevelDone(done)
  <2>1. S = DOMAIN q.points
    OBVIOUS
  <2> HIDE DEF S
  <2> QED  BY <2>1, LevelFolded DEF F
<1> HIDE DEF done, G, S
<1>8. /\ done = [points |-> done.points, next |-> done.next, sq_revdeps |-> done.sq_revdeps,
                 squash |-> done.squash, collated |-> done.collated]
      /\ done.next \in Marks(setscene)
      /\ done.sq_revdeps \in [Task -> SUBSET Task]
      /\ done.squash \in [Task -> SUBSET setscene] /\ done.collated \in [setscene -> SUBSET Task]
  <2>1. done \in Queues(setscene)
    BY <1>6 DEF QueueInv
  <2> QED  BY <2>1, QueueTypes
<1>9. none \in Marks(setscene) /\ DOMAIN none = {}
  BY DEF Marks
<1>10. r = [points |-> done.next, next |-> none, sq_revdeps |-> done.sq_revdeps,
            squash |-> done.squash, collated |-> done.collated]
  BY <1>7, <1>8 DEF LevelDone
<1> HIDE DEF none
<1>11. /\ r.points = done.next /\ r.next = none /\ r.sq_revdeps = done.sq_revdeps
       /\ r.squash = done.squash /\ r.collated = done.collated
  BY <1>10
<1>12. r \in Queues(setscene)
  BY <1>8, <1>9, <1>10 DEF Queues
<1>13. AlongPaths(depends, setscene, r)
  BY <1>6, <1>9, <1>11 DEF QueueInv, AlongPaths
<1>14. PassedOn(depends, setscene, r, DOMAIN r.points)
  <2>1. \A s, t : CameTo(done, {}, s, t) => CameTo(r, DOMAIN r.points, s, t)
    BY <1>11 DEF CameTo
  <2> QED  BY <1>6, <1>11, <2>1 DEF QueueInv, PassedOn
<1>15. NoneForgotten(depends, setscene, r, DOMAIN r.points)
  <2>1. \A t : Coming(done, {}, t) => Coming(r, DOMAIN r.points, t)
    BY <1>11 DEF Coming
  <2> QED  BY <1>6, <1>11, <2>1 DEF QueueInv, NoneForgotten
<1>16. \A t \in DOMAIN r.points : \E p \in DOMAIN q.points : t \in depends[p]
  BY <1>6, <1>11 DEF Beyond
<1> QED  BY <1>9, <1>11, <1>12, <1>13, <1>14, <1>15, <1>16 DEF QueueInv

\* The state before the first level.
LEMMA EndpointsRight ==
    ASSUME NEW depends \in [Task -> SUBSET Task], NEW setscene \in SUBSET Task, Acyclic(depends),
           NEW q, q = Endpoints(depends, setscene)
    PROVE  QueueInv(depends, setscene, q, DOMAIN q.points) /\ DOMAIN q.next = {}
<1> DEFINE ends == {t \in Task \ setscene : Revdeps(depends, t) = {}}
           below == UNION {depends[s] : s \in setscene}
           points == [t \in ends \cup below |-> {s \in setscene : t \in depends[s]}]
           none == [t \in {} |-> {}]
           sq_revdeps == [t \in Task |-> Revdeps(depends, t) \ setscene]
           squash == [t \in Task |-> {}]
           collated == [s \in setscene |-> {}]
<1>1. q = [points |-> points, next |-> none, sq_revdeps |-> sq_revdeps,
           squash |-> squash, collated |-> collated]
  BY DEF Endpoints
<1>2. /\ q.points = points /\ q.next = none /\ q.sq_revdeps = sq_revdeps
      /\ q.squash = squash /\ q.collated = collated
  BY <1>1
<1>3. ends \cup below \in SUBSET Task
  OBVIOUS
<1>4. points \in Marks(setscene) /\ none \in Marks(setscene) /\ DOMAIN none = {}
  <2>1. points \in [ends \cup below -> SUBSET setscene] /\ none \in [{} -> SUBSET setscene]
    OBVIOUS
  <2> HIDE DEF points, none, ends, below
  <2> QED  BY <1>3, <2>1 DEF Marks
<1>5. /\ sq_revdeps \in [Task -> SUBSET Task] /\ squash \in [Task -> SUBSET setscene]
      /\ collated \in [setscene -> SUBSET Task]
  BY DEF Revdeps
<1>6. q \in Queues(setscene)
  <2> HIDE DEF points, none, sq_revdeps, squash, collated
  <2> QED  BY <1>1, <1>4, <1>5 DEF Queues
<1>7. AlongPaths(depends, setscene, q)
  <2>1. \A s \in setscene : depends[s] \subseteq Reach(depends, setscene, s)
    BY ReachSolved
  <2>2. \A t \in DOMAIN q.points : \A s \in q.points[t] : s \in setscene /\ t \in depends[s]
    BY <1>2
  <2>3. /\ \A t \in Task : q.squash[t] = {}
        /\ \A s \in setscene : q.collated[s] = {}
    BY <1>2
  <2> QED  BY <1>2, <1>4, <2>1, <2>2, <2>3 DEF AlongPaths
<1>8. PassedOn(depends, setscene, q, DOMAIN q.points)
  <2>1. \A s \in setscene : \A d \in depends[s] : d \in DOMAIN q.points /\ s \in q.points[d]
    BY <1>2
  <2>2. \A s \in setscene : q.collated[s] = {}
    BY <1>2
  <2> QED  BY <2>1, <2>2 DEF PassedOn, CameTo
<1>9. NoneForgotten(depends, setscene, q, DOMAIN q.points)
  <2>1. \A t \in Task : q.squash[t] = {}
    BY <1>2
  <2>2. ASSUME NEW t \in Task, NEW r \in q.sq_revdeps[t]
        PROVE  r \in Task \ setscene /\ t \in depends[r] /\ Coming(q, DOMAIN q.points, r)
    <3>1. r \in Task \ setscene /\ t \in depends[r]
      BY <1>2, <2>2 DEF Revdeps
    <3>2. q.sq_revdeps[r] = Revdeps(depends, r) \ setscene
      BY <1>2, <3>1
    <3>3. CASE Revdeps(depends, r) = {}
      BY <1>2, <3>1, <3>3 DEF Coming
    <3>4. CASE Revdeps(depends, r) # {}
      <4>1. PICK x \in Task : r \in depends[x] /\ x \in Revdeps(depends, r)
        BY <3>4 DEF Revdeps
      <4>2. CASE x \in setscene
        <5>1. r \in DOMAIN q.points
          BY <1>2, <4>1, <4>2
        <5> HIDE DEF points, none, ends, below
        <5> QED  BY <3>1, <5>1 DEF Coming
      <4>3. CASE x \notin setscene
        <5>1. x \in q.sq_revdeps[r]
          BY <3>2, <4>1, <4>3
        <5>2. q.sq_revdeps[r] # {}
          BY <5>1
        <5> QED  BY <3>1, <5>2 DEF Coming
      <4> QED  BY <4>2, <4>3
    <3> QED  BY <3>1, <3>3, <3>4
  <2> QED  BY <2>1, <2>2 DEF NoneForgotten
<1> HIDE DEF none
<1> QED  BY <1>2, <1>4, <1>6, <1>7, <1>8, <1>9 DEF QueueInv

\* The levels, one after another.
Processed(depends, setscene, N) ==
    LET level[n \in 0 .. N] ==
            IF n = 0 THEN Endpoints(depends, setscene)
            ELSE ProcessLevel(depends, setscene, level[n - 1])
    IN  level

LEMMA LevelsProcessed ==
    ASSUME NEW depends \in [Task -> SUBSET Task], NEW setscene \in SUBSET Task, Acyclic(depends),
           NEW N \in Nat, NEW L, L = Processed(depends, setscene, N)
    PROVE  /\ L[0] = Endpoints(depends, setscene)
           /\ \A n \in 1 .. N : L[n] = ProcessLevel(depends, setscene, L[n - 1])
<1> DEFINE I == 0 .. N
           base == Endpoints(depends, setscene)
           Step(v) == ProcessLevel(depends, setscene, v)
           pred == [n \in I |-> IF n = 0 THEN 0 ELSE n - 1]
           rank == [n \in I |-> n]
           V == {v \in Queues(setscene) : QueueInv(depends, setscene, v, DOMAIN v.points) /\ DOMAIN v.next = {}}
           step == [z \in I \X V |-> Step(z[2])]
           Solves(g) == g = [n \in I |-> IF n = 0 THEN base ELSE Step(g[n - 1])]
           level[n \in I] == IF n = 0 THEN base ELSE Step(level[n - 1])
<1>1. base \in V
  <2> HIDE DEF base
  <2>1. QueueInv(depends, setscene, base, DOMAIN base.points) /\ DOMAIN base.next = {}
    BY EndpointsRight DEF base
  <2> QED  BY <2>1 DEF QueueInv
<1>2. step \in [I \X V -> V]
  <2>1. ASSUME NEW v \in V PROVE Step(v) \in V
    <3> DEFINE r == Step(v)
    <3>1. QueueInv(depends, setscene, v, DOMAIN v.points) /\ DOMAIN v.next = {}
          /\ r = ProcessLevel(depends, setscene, v)
      OBVIOUS
    <3> HIDE DEF r
    <3>2. QueueInv(depends, setscene, r, DOMAIN r.points) /\ DOMAIN r.next = {}
      BY <3>1, LevelProcessed
    <3>3. r \in V
      BY <3>2 DEF QueueInv
    <3> QED  BY <3>3 DEF r
  <2> HIDE DEF V, Step
  <2> QED  BY <2>1
<1>3. /\ 0 \in I /\ pred \in [I -> I] /\ rank \in [I -> Nat]
      /\ \A n \in I \ {0} : rank[pred[n]] < rank[n]
  OBVIOUS
<1>4. PICK g \in [I -> V] : Chained(I, 0, pred, base, step, g)
  <2> HIDE DEF I, V, pred, rank, step, base
  <2> QED  BY <1>1, <1>2, <1>3, ChainRecursion
<1>5. Solves(g)
  <2>1. ASSUME NEW n \in I
        PROVE  g[n] = IF n = 0 THEN base ELSE Step(g[n - 1])
    <3>1. g[n] = IF n = 0 THEN base ELSE step[<<n, g[pred[n]]>>]
      BY <1>4 DEF Chained
    <3>2. n # 0 => n - 1 \in I /\ pred[n] = n - 1
      OBVIOUS
    <3>3. n # 0 => step[<<n, g[n - 1]>>] = Step(g[n - 1])
      <4> HIDE DEF Step, V, pred
      <4>1. n # 0 => g[n - 1] \in V
        BY <1>4, <3>2
      <4> HIDE DEF I
      <4> QED  BY <4>1
    <3> HIDE DEF Step, V, pred, I, step, base
    <3> QED  BY <3>1, <3>2, <3>3
  <2> HIDE DEF Step, V, base
  <2> QED  BY <2>1
<1>6. Solves(level)
  <2> HIDE DEF Step, V, pred, rank, step, base
  <2>1. \E h : Solves(h)
    BY <1>5, Zenon
  <2> QED  BY <2>1, Zenon
<1>7. L = level
  BY DEF Processed
<1> HIDE DEF level
<1>8. \A n \in 1 .. N : n \in I /\ n # 0
  OBVIOUS
<1> HIDE DEF Step, base
<1>9. L[0] = base /\ \A n \in 1 .. N : L[n] = Step(L[n - 1])
  BY <1>6, <1>7, <1>8, <1>3
<1> QED  BY <1>9 DEF Step, base

\* What is reached is the least set with the dependencies of s, and those of its plain tasks.
LEMMA ReachLeast ==
    ASSUME NEW depends \in [Task -> SUBSET Task], NEW setscene, Acyclic(depends),
           NEW s \in Task, NEW X \in SUBSET Task, depends[s] \subseteq X,
           \A p \in X \ setscene : depends[p] \subseteq X
    PROVE  Reach(depends, setscene, s) \subseteq X
<1> DEFINE bad == {t \in Task : (t = s \/ t \in X \ setscene) /\ ~(Reach(depends, setscene, t) \subseteq X)}
           N == Cardinality(Task)
<1>1. PICK weight \in [Task -> 1 .. N] : \A t \in Task : \A d \in depends[t] : weight[d] < weight[t]
  BY DEF Acyclic
<1> DEFINE W == {weight[t] : t \in bad}
<1> SUFFICES ASSUME bad # {} PROVE FALSE
  OBVIOUS
<1>2. W \in SUBSET Nat /\ W # {}
  <2>1. N \in Nat
    BY FS_CardinalityType, TaskAssumption
  <2> HIDE DEF N
  <2> QED  BY <2>1
<1>3. PICK w \in W : \A y \in W : w <= y
  <2> HIDE DEF W
  <2> QED  BY <1>2, LeastNumber
<1>4. PICK t \in bad : w = weight[t]
  OBVIOUS
<1>5. depends[t] \subseteq X
  BY <1>4
<1>6. PICK d \in depends[t] \ setscene : ~(Reach(depends, setscene, d) \subseteq X)
  <2>1. Reach(depends, setscene, t) =
            depends[t] \cup UNION {Reach(depends, setscene, x) : x \in depends[t] \ setscene}
    BY ReachSolved
  <2>2. ~(Reach(depends, setscene, t) \subseteq X)
    OBVIOUS
  <2> QED  BY <1>5, <2>1, <2>2
<1>7. d \in bad /\ weight[d] < weight[t]
  BY <1>1, <1>5, <1>6
<1>8. weight[d] \in W
  BY <1>7
<1> HIDE DEF W, bad
<1>9. w \in Nat /\ weight[d] \in Nat
  BY <1>2, <1>3, <1>8
<1> QED  BY <1>3, <1>4, <1>7, <1>8, <1>9

\* When no point is left nothing is left at plain tasks: what a task still waits for
\* would have to wait as well, for a task that weighs more.
LEMMA NothingLeft ==
    ASSUME NEW depends \in [Task -> SUBSET Task], NEW setscene \in SUBSET Task, Acyclic(depends),
           NEW q, QueueInv(depends, setscene, q, {}), DOMAIN q.next = {}
    PROVE  \A t \in Task \ setscene : q.squash[t] = {}
<1> DEFINE N == Cardinality(Task)
           waits == {t \in Task : q.sq_revdeps[t] # {}}
<1>1. PICK weight \in [Task -> 1 .. N] : \A t \in Task : \A d \in depends[t] : weight[d] < weight[t]
  BY DEF Acyclic
<1>2. N \in Nat
  BY FS_CardinalityType, TaskAssumption
<1> HIDE DEF N
<1> DEFINE W == {N - weight[t] : t \in waits}
<1>3. waits = {}
  <2> SUFFICES ASSUME waits # {} PROVE FALSE
    OBVIOUS
  <2>1. W \in SUBSET Nat /\ W # {}
    BY <1>1, <1>2
  <2>2. PICK w \in W : \A y \in W : w <= y
    <3> HIDE DEF W
    <3> QED  BY <2>1, LeastNumber
  <2>3. PICK t \in waits : w = N - weight[t]
    OBVIOUS
  <2>4. PICK r \in q.sq_revdeps[t] : TRUE
    OBVIOUS
  <2>5. r \in waits /\ t \in depends[r]
    BY <2>3, <2>4 DEF QueueInv, NoneForgotten, Coming
  <2>6. weight[t] < weight[r] /\ N - weight[r] \in W
    BY <1>1, <2>5
  <2>7. weight[t] \in Int /\ weight[r] \in Int
    BY <1>1, <2>3, <2>5
  <2> HIDE DEF W, waits
  <2> QED  BY <1>2, <2>2, <2>3, <2>6, <2>7
<1> QED  BY <1>3 DEF QueueInv, NoneForgotten, Coming

\* "collapse the huge runqueue dependency tree into a smaller one only containing the
\* setscene functions": of every graph without cycles process_endpoints makes the graph
\* of its paths, and leaves nothing at a plain task.
THEOREM EndpointsCorrect ==
    ASSUME NEW depends \in [Task -> SUBSET Task], NEW setscene \in SUBSET Task, Acyclic(depends),
           NEW q, q = ProcessEndpoints(depends, setscene)
    PROVE  IsCollapsed(depends, setscene, q)
<1> DEFINE N == Cardinality(Task)
           L == Processed(depends, setscene, N)
           R(s) == Reach(depends, setscene, s)
<1>1. N \in Nat
  BY FS_CardinalityType, TaskAssumption
<1>2. q = L[N]
  BY DEF ProcessEndpoints, Processed
<1>3. PICK weight \in [Task -> 1 .. N] : \A t \in Task : \A d \in depends[t] : weight[d] < weight[t]
  BY DEF Acyclic
<1> HIDE DEF N
<1>4. /\ L[0] = Endpoints(depends, setscene)
      /\ \A n \in 1 .. N : L[n] = ProcessLevel(depends, setscene, L[n - 1])
  BY <1>1, LevelsProcessed
<1> HIDE DEF L
<1> DEFINE Good(n) == /\ QueueInv(depends, setscene, L[n], DOMAIN L[n].points) /\ DOMAIN L[n].next = {}
                      /\ \A t \in DOMAIN L[n].points : weight[t] <= N - n
           G == {n \in 0 .. N : Good(n)}
           pred == [n \in 0 .. N |-> IF n = 0 THEN 0 ELSE n - 1]
           rank == [n \in 0 .. N |-> n]
<1>5. 0 \in G
  <2> DEFINE v == L[0]
  <2> HIDE DEF v
  <2>1. QueueInv(depends, setscene, v, DOMAIN v.points) /\ DOMAIN v.next = {}
    BY <1>4, EndpointsRight DEF v
  <2>2. DOMAIN v.points \subseteq Task
    BY <2>1, QueueTypes DEF QueueInv
  <2>3. \A t \in DOMAIN v.points : weight[t] <= N - 0
    BY <1>1, <1>3, <2>2
  <2> QED  BY <1>1, <2>1, <2>3 DEF v
<1>6. ASSUME NEW n \in (0 .. N) \ {0}, pred[n] \in G PROVE n \in G
  <2> DEFINE v == L[n - 1]
             r == L[n]
  <2>1. n - 1 \in 0 .. N /\ pred[n] = n - 1 /\ n \in 1 .. N
    BY <1>1
  <2>2. /\ QueueInv(depends, setscene, v, DOMAIN v.points) /\ DOMAIN v.next = {}
        /\ \A t \in DOMAIN v.points : weight[t] <= N - (n - 1)
    BY <1>6, <2>1
  <2>3. r = ProcessLevel(depends, setscene, v)
    BY <1>4, <2>1
  <2> HIDE DEF v, r
  <2>4. /\ QueueInv(depends, setscene, r, DOMAIN r.points) /\ DOMAIN r.next = {}
        /\ \A t \in DOMAIN r.points : \E p \in DOMAIN v.points : t \in depends[p]
    BY <2>2, <2>3, LevelProcessed
  <2>5. DOMAIN v.points \subseteq Task
    BY <2>2, QueueTypes DEF QueueInv
  <2>6. ASSUME NEW t \in DOMAIN r.points PROVE weight[t] <= N - n
    <3>1. PICK p \in DOMAIN v.points : t \in depends[p]
      BY <2>4
    <3>2. weight[t] < weight[p] /\ weight[p] <= N - (n - 1)
      BY <1>3, <2>2, <2>5, <3>1
    <3>3. p \in Task /\ t \in Task
      BY <2>5, <3>1
    <3>4. weight[t] \in Int /\ weight[p] \in Int
      BY <1>3, <3>3
    <3> QED  BY <1>1, <3>2, <3>4
  <2> QED  BY <2>4, <2>6 DEF r
<1>7. 0 .. N \subseteq G
  <2>1. /\ 0 \in 0 .. N /\ pred \in [0 .. N -> 0 .. N] /\ rank \in [0 .. N -> Nat]
        /\ \A n \in (0 .. N) \ {0} : rank[pred[n]] < rank[n]
    BY <1>1
  <2> DEFINE I == 0 .. N
  <2>2. /\ 0 \in I /\ pred \in [I -> I] /\ rank \in [I -> Nat]
        /\ \A n \in I \ {0} : rank[pred[n]] < rank[n]
        /\ \A n \in I \ {0} : pred[n] \in G => n \in G
    BY <1>6, <2>1
  <2> HIDE DEF pred, rank, G, I
  <2>3. I \subseteq G
    BY <1>5, <2>2, ChainInduction
  <2> QED  BY <2>3 DEF I
<1>8. QueueInv(depends, setscene, q, {}) /\ DOMAIN q.next = {}
  <2>1. /\ QueueInv(depends, setscene, q, DOMAIN q.points) /\ DOMAIN q.next = {}
        /\ \A t \in DOMAIN q.points : weight[t] <= N - N
    <3>1. N \in 0 .. N
      BY <1>1
    <3> QED  BY <1>2, <1>7, <3>1
  <2>2. DOMAIN q.points \subseteq Task
    BY <2>1, QueueTypes DEF QueueInv
  <2>3. \A t \in Task : weight[t] > 0
    BY <1>1, <1>3
  <2>4. DOMAIN q.points = {}
    <3> SUFFICES ASSUME NEW t \in DOMAIN q.points PROVE FALSE
      OBVIOUS
    <3>1. weight[t] <= N - N /\ weight[t] \in 1 .. N
      BY <1>3, <2>1, <2>2
    <3> QED  BY <1>1, <3>1
  <2> QED  BY <2>1, <2>4
<1> HIDE DEF G, pred, rank
<1>9. \A t \in Task \ setscene : q.squash[t] = {}
  BY <1>8, NothingLeft
<1>10. /\ q.squash \in [Task -> SUBSET setscene] /\ q.collated \in [setscene -> SUBSET Task]
       /\ \A t \in Task : \A s \in q.squash[t] : t \in R(s)
       /\ \A s \in setscene : q.collated[s] \subseteq R(s) \ setscene
  BY <1>8, QueueTypes DEF QueueInv, AlongPaths
<1>11. ASSUME NEW s \in setscene
       PROVE  R(s) \subseteq q.collated[s] \cup {t \in setscene : s \in q.squash[t]}
  <2> DEFINE X == q.collated[s] \cup {t \in Task : s \in q.squash[t]}
  <2>1. X \in SUBSET Task
    BY <1>10
  <2>2. \A t : CameTo(q, {}, s, t) /\ t \in Task => t \in X
    BY DEF CameTo
  <2>3. /\ \A d \in depends[s] : CameTo(q, {}, s, d)
        /\ \A p \in q.collated[s] : \A d \in depends[p] : CameTo(q, {}, s, d)
    BY <1>8 DEF QueueInv, PassedOn
  <2>4. X \subseteq q.collated[s] \cup {t \in setscene : s \in q.squash[t]}
    BY <1>9
  <2>5. \A t \in Task : depends[t] \subseteq Task
    OBVIOUS
  <2>6. depends[s] \subseteq X
    BY <2>2, <2>3, <2>5
  <2>7. \A p \in X \ setscene : depends[p] \subseteq X
    <3> TAKE p \in X \ setscene
    <3>1. p \in q.collated[s] /\ p \in Task
      BY <2>1, <2>4
    <3> QED  BY <2>2, <2>3, <2>5, <3>1
  <2> HIDE DEF X
  <2>8. R(s) \subseteq X
    BY <2>1, <2>6, <2>7, ReachLeast
  <2> QED  BY <2>4, <2>8
<1> HIDE DEF R
<1>12. \A t \in setscene : q.squash[t] = {s \in setscene : t \in R(s)}
  <2> TAKE t \in setscene
  <2>1. q.squash[t] \subseteq {s \in setscene : t \in R(s)}
    BY <1>10
  <2>2. \A s \in setscene : t \in R(s) => s \in q.squash[t]
    BY <1>10, <1>11
  <2> QED  BY <2>1, <2>2
<1>13. \A s \in setscene : q.collated[s] = R(s) \ setscene
  BY <1>10, <1>11
<1> QED  BY <1>9, <1>12, <1>13 DEF IsCollapsed, R

\* So the run queue begins with the graph of the paths.
LEMMA CollapsedInit == Init => Collapsed
<1> SUFFICES ASSUME Init PROVE Collapsed
  OBVIOUS
<1> DEFINE depends == rqdata.depends
           setscene == rqdata.setscene
           q == ProcessEndpoints(depends, setscene)
<1>1. /\ depends \in [Task -> SUBSET Task] /\ setscene \in SUBSET Task /\ Acyclic(depends)
      /\ rqdata \in Builds
  BY HardType, DependsType, BuildsAssumption DEF Init, BuildType
<1>2. sqdata.revdeps = [t \in setscene |-> q.squash[t]] /\ sqdata.covered = q.collated
  BY DEF Init, CollapsedFor
<1> HIDE DEF depends, setscene, q
<1>3. IsCollapsed(depends, setscene, q)
  BY <1>1, EndpointsCorrect DEF q
<1> DEFINE c == [squash |-> [t \in Task |-> IF t \in setscene THEN sqdata.revdeps[t] ELSE {}],
                 collated |-> sqdata.covered]
<1>4. /\ c.collated = q.collated
      /\ \A t \in setscene : c.squash[t] = q.squash[t]
      /\ \A t \in Task \ setscene : c.squash[t] = {}
  BY <1>1, <1>2
<1> HIDE DEF c
<1>5. IsCollapsed(depends, setscene, c)
  BY <1>3, <1>4 DEF IsCollapsed
<1> QED  BY <1>5 DEF Collapsed, c, depends, setscene

-----------------------------------------------------------------------------
(* The outputs a task needs.                                               *)

\* A setscene task that was skipped is covered, and no plain task was that cannot be.
SkippedRightly ==
    \A d \in runq_complete \ runq_tasksrun :
        IF d \in rqdata.setscene THEN d \in sq.covered ELSE d \notin sqdata.unskippable

\* What is covered without being there was not needed.
AbsentRightly ==
    \A d \in sq.covered \ present :
        /\ d \notin sqdata.unskippable \cup rqdata.targets
        /\ \A s \in sqdata.revdeps[d] : s \in sq.covered \/ rqdata.hard[s] # {}

\* Unless an update is due, the real tasks to be skipped or run are what the setscene
\* queue says.
HoldoffRight ==
    ~holdoff_need_update =>
        /\ tasks_covered \cap rqdata.setscene \subseteq sq.covered
        /\ tasks_covered \cap (sqdata.unskippable \ rqdata.setscene) = {}
        /\ \A t \in tasks_notcovered : \/ t \in sqdata.unskippable \ rqdata.setscene
                                      \/ \E s \in sq.notcovered : t \in Replaced(s)

InputInv ==
    /\ UnskippableRight /\ runq_tasksrun \subseteq present
    /\ SkippedRightly /\ AbsentRightly /\ HoldoffRight /\ InputsPresent

\* The steps that take no decision back.
LEMMA InputsGrow ==
    ASSUME InputInv, UNCHANGED <<rqdata, sqdata>>, present \subseteq present',
           runq_tasksrun' \subseteq present',
           sq.covered \subseteq sq'.covered,
           \A d \in sq'.covered \ (sq.covered \cup present') :
               d \notin sqdata.unskippable \cup rqdata.targets /\ sqdata.revdeps[d] \subseteq sq.covered,
           \A d \in (runq_complete' \ runq_tasksrun') \ (runq_complete \ runq_tasksrun) :
               IF d \in rqdata.setscene THEN d \in sq.covered ELSE d \notin sqdata.unskippable,
           \A t \in InFlight' \ InFlight : rqdata.depends[t] \subseteq present \cup Spared,
           HoldoffRight'
    PROVE  InputInv'
<1> USE DEF InputInv
<1>1. UnskippableRight'
  BY DEF UnskippableRight
<1>2. SkippedRightly'
  BY DEF SkippedRightly
<1>3. AbsentRightly'
  BY DEF AbsentRightly
<1>4. InputsPresent'
  <2>1. Spared' = Spared
    BY DEF Spared
  <2> QED  BY <2>1 DEF InputsPresent
<1> QED  BY <1>1, <1>2, <1>3, <1>4

\* Where the holdoff was right it stays so until an update is due.
LEMMA HoldoffStays ==
    ASSUME HoldoffRight, UNCHANGED <<rqdata, sqdata, tasks_covered, tasks_notcovered>>,
           ~holdoff_need_update' => /\ ~holdoff_need_update
                                    /\ sq'.covered = sq.covered /\ sq'.notcovered = sq.notcovered
    PROVE  HoldoffRight'
BY DEF HoldoffRight, Replaced

LEMMA SettleCovers ==
    ASSUME NEW s, NEW cov, NEW fails
    PROVE  Settle(s, cov, fails).covered = s.covered \cup cov
BY DEF Settle

\* The steps of the setscene queue between migrations.
LEMMA SceneInputs ==
    ASSUME SceneInv, InputInv, NEW t \in Task,
           SceneCompleted(t) \/ SceneFailed(t) \/ SkipUnneeded(t) \/ SceneDecided(t)
    PROVE  InputInv'
<1>1. /\ UNCHANGED <<rqdata, sqdata, runq>> /\ holdoff_need_update' = TRUE
      /\ sq' = Settle(sq, {t}, {}) \/ sq' = Settle(sq, {}, {t})
  BY DEF SceneCompleted, SceneFailed, SkipUnneeded, SceneDecided
<1>2. UNCHANGED <<runq_complete, runq_tasksrun, InFlight>>
  BY <1>1 DEF runq, InFlight
<1>3. sq.covered \subseteq sq'.covered /\ sq'.covered \subseteq sq.covered \cup {t}
  BY <1>1, SettleCovers
<1>4. /\ present \subseteq present'
      /\ \A d \in sq'.covered \ (sq.covered \cup present') :
             d \notin sqdata.unskippable \cup rqdata.targets /\ sqdata.revdeps[d] \subseteq sq.covered
  <2>1. CASE SceneCompleted(t)
    BY <2>1, <1>3 DEF SceneCompleted
  <2>2. CASE SceneFailed(t)
    BY <2>2, SettleCovers DEF SceneFailed, disk
  <2>3. CASE SkipUnneeded(t)
    BY <2>3, <1>3 DEF SkipUnneeded, NotNeeded, disk
  <2>4. CASE SceneDecided(t)
    BY <2>4, SettleCovers DEF SceneDecided
  <2> QED  BY <2>1, <2>2, <2>3, <2>4
<1>5. HoldoffRight'
  BY <1>1 DEF HoldoffRight
<1>6. runq_tasksrun' \subseteq present'
  BY <1>2, <1>4 DEF InputInv
<1> QED  BY <1>1, <1>2, <1>3, <1>4, <1>5, <1>6, InputsGrow

\* What completing a task covers is there.
LEMMA CompletingCovers ==
    ASSUME NEW t, NEW made, NEW cache, CompleteOutright(t, made, cache)
    PROVE  /\ runq_complete' = runq_complete \cup {t}
           /\ present \cup made \subseteq present'
           /\ sq.covered \subseteq sq'.covered /\ sq'.covered \subseteq sq.covered \cup present'
           /\ ~holdoff_need_update' => ~holdoff_need_update /\ sq' = sq
<1> DEFINE waiting == {d \in DOMAIN sq_deferred : sq_deferred[d] = t}
           first == Min(waiting)
           deferred == [d \in DOMAIN sq_deferred \ {first} |->
                            IF d \in waiting THEN first ELSE sq_deferred[d]]
           update == UpdateScenequeue(sq, outrightfail, {first}, deferred, cache)
<1>1. /\ runq_complete' = runq_complete \cup {t}
      /\ sq' = IF waiting = {} THEN sq ELSE update.sq
      /\ present' = present \cup made \cup (IF waiting = {} THEN {} ELSE update.here)
      /\ holdoff_need_update' = (holdoff_need_update \/ (~(waiting = {}) /\ update.here # {}))
  BY DEF CompleteOutright
<1>2. /\ update.sq = IF update.here = {} THEN sq ELSE Settle(sq, update.here, {})
  BY DEF UpdateScenequeue
<1> HIDE DEF update, waiting
<1>3. update.sq.covered = sq.covered \/ update.sq.covered = sq.covered \cup update.here
  BY <1>2, SettleCovers
<1> QED  BY <1>1, <1>2, <1>3

LEMMA CompletingInputs ==
    ASSUME SceneInv, InputInv, NEW t \in Task, SkipTask(t) \/ NoexecTask(t) \/ TaskCompleted(t)
    PROVE  InputInv'
<1>1. PICK made, cache :
          /\ made \in SUBSET {t}
          /\ CompleteOutright(t, made, cache)
          /\ runq_tasksrun' = runq_tasksrun \cup made
          /\ made = IF SkipTask(t) THEN {t} \ tasks_covered ELSE {t}
  <2>1. CASE SkipTask(t)
    <3>1. /\ CompleteOutright(t, {t} \ tasks_covered, sstate)
          /\ runq_tasksrun' = runq_tasksrun \cup ({t} \ tasks_covered)
      BY <2>1 DEF SkipTask
    <3> QED  BY <2>1, <3>1
  <2>2. CASE ~SkipTask(t) /\ NoexecTask(t)
    BY <2>2 DEF NoexecTask
  <2>3. CASE ~SkipTask(t) /\ TaskCompleted(t)
    BY <2>3 DEF TaskCompleted
  <2> QED  BY <2>1, <2>2, <2>3
<1>2. UNCHANGED <<rqdata, sqdata, tasks_covered, tasks_notcovered, failed_tids>>
  BY DEF SkipTask, NoexecTask, TaskCompleted, holdoff
<1>3. runq_running' \subseteq runq_running \cup {t}
  BY DEF SkipTask, NoexecTask, TaskCompleted
<1>4. InFlight' \subseteq InFlight
  BY <1>1, <1>2, <1>3, CompletingCovers DEF InFlight
<1>5. HoldoffRight'
  BY <1>1, <1>2, CompletingCovers, HoldoffStays DEF InputInv
<1>6. \A d \in (runq_complete' \ runq_tasksrun') \ (runq_complete \ runq_tasksrun) :
          IF d \in rqdata.setscene THEN d \in sq.covered ELSE d \notin sqdata.unskippable
  <2> SUFFICES ASSUME NEW d \in (runq_complete' \ runq_tasksrun') \ (runq_complete \ runq_tasksrun)
               PROVE  IF d \in rqdata.setscene THEN d \in sq.covered ELSE d \notin sqdata.unskippable
    OBVIOUS
  <2>1. d = t /\ SkipTask(t) /\ t \in tasks_covered
    BY <1>1, CompletingCovers
  <2>2. ~holdoff_need_update
    BY <2>1 DEF SkipTask, TaskChosen, AtTask, SceneInv, HoldoffCurrent
  <2> QED  BY <2>1, <2>2 DEF InputInv, HoldoffRight
<1>7. runq_tasksrun' \subseteq present'
  BY <1>1, CompletingCovers DEF InputInv
<1>8. /\ present \subseteq present' /\ sq.covered \subseteq sq'.covered
      /\ sq'.covered \subseteq sq.covered \cup present'
  BY <1>1, CompletingCovers
<1> QED  BY <1>2, <1>4, <1>5, <1>6, <1>7, <1>8, InputsGrow

\* A task that is begun finds its inputs.
LEMMA StartInputs ==
    ASSUME OrderInv, SceneInv, GraphFacts, InputInv, NEW t \in Task, StartTask(t)
    PROVE  InputInv'
<1>1. /\ t \in runq_buildable /\ t \in tasks_notcovered /\ pc = "task"
      /\ InFlight' \subseteq InFlight \cup {t}
      /\ UNCHANGED <<rqdata, sqdata, sq, tasks_covered, tasks_notcovered, holdoff_need_update,
                     runq_complete, runq_tasksrun, present>>
  BY DEF StartTask, TaskChosen, AtTask, TaskCandidates, InFlight, scene, holdoff, disk
<1>2. ~holdoff_need_update
  BY <1>1 DEF SceneInv, HoldoffCurrent
<1>3. rqdata.depends[t] \subseteq runq_complete
  BY <1>1 DEF OrderInv, Satisfied
\* Why t runs.
<1>4. \/ t \in sqdata.unskippable \ rqdata.setscene
      \/ \E s \in sq.notcovered : t \in Replaced(s)
  BY <1>1, <1>2 DEF InputInv, HoldoffRight
<1>5. ASSUME NEW d \in rqdata.depends[t], d \notin present
      PROVE  d \in Spared
  <2>1. d \in runq_complete \ runq_tasksrun
    BY <1>3, <1>5 DEF InputInv
  <2>2. IF d \in rqdata.setscene THEN d \in sq.covered ELSE d \notin sqdata.unskippable
    BY <2>1 DEF InputInv, SkippedRightly
  <2>3. d \in sq.covered => /\ d \notin sqdata.unskippable
                           /\ \A s \in sqdata.revdeps[d] : s \in sq.covered \/ rqdata.hard[s] # {}
    BY <1>5 DEF InputInv, AbsentRightly
  <2>4. t \notin sqdata.unskippable \ rqdata.setscene
    BY <2>2, <2>3 DEF GraphFacts
  <2>5. PICK s \in sq.notcovered : t \in Replaced(s)
    BY <1>4, <2>4
  <2>6. s \in rqdata.setscene
    BY DEF SceneInv, SceneTypes, IsScene
  <2>7. CASE d \in rqdata.setscene
    <3>1. s \in sqdata.revdeps[d]
      BY <2>5, <2>6, <2>7 DEF GraphFacts
    <3>2. rqdata.hard[s] # {}
      BY <2>2, <2>3, <2>7, <3>1 DEF SceneInv, DecidedOnce
    <3> QED  BY <2>7, <3>1, <3>2 DEF Spared
  <2>8. CASE d \notin rqdata.setscene
    <3>1. d \in sqdata.covered[s]
      BY <2>5, <2>6, <2>8 DEF GraphFacts
    <3>2. Kept(s)
      BY <2>1, <2>6, <3>1 DEF SceneInv, SkippedCovered
    <3> QED  BY <3>2 DEF Kept
  <2> QED  BY <2>7, <2>8
<1>6. HoldoffRight'
  BY <1>1, HoldoffStays DEF InputInv
<1>7. \A u \in InFlight' \ InFlight : rqdata.depends[u] \subseteq present \cup Spared
  BY <1>1, <1>5
<1>8. runq_tasksrun' \subseteq present'
  BY <1>1 DEF InputInv
<1> QED  BY <1>1, <1>6, <1>7, <1>8, InputsGrow

LEMMA UpdateInputs ==
    ASSUME SceneInv, GraphFacts, InputInv, UpdateHoldoff
    PROVE  InputInv'
<1>1. UNCHANGED <<rqdata, sqdata, sq, runq_complete, runq_tasksrun, present, InFlight>>
  BY DEF UpdateHoldoff, scene, disk, InFlight
<1>2. HoldoffRight'
  <2>1. CASE ~holdoff_need_update
    BY <2>1, <1>1, HoldoffStays DEF UpdateHoldoff, holdoff, InputInv
  <2>2. CASE holdoff_need_update
    <3> DEFINE Below(s) == UNION {sqdata.covered[t] : t \in s}
    <3>1. /\ tasks_covered' = (sq.done \cap (sq.covered \cup Below(sq.covered))) \ tasks_notcovered'
          /\ tasks_notcovered' = sq.done \cap (sq.notcovered \cup Below(sq.notcovered)
                             \cup Cantskip(rqdata.setscene, rqdata.targets)
                             \cup (sqdata.unskippable \ rqdata.setscene))
      BY <2>2 DEF UpdateHoldoff
    <3>2. \A s \in sq.covered : sqdata.covered[s] \cap rqdata.setscene = {}
      BY DEF GraphFacts, SceneInv, SceneTypes, IsScene
    <3>3. tasks_covered' \cap rqdata.setscene \subseteq sq.covered
      BY <3>1, <3>2
    <3>4. tasks_covered' \cap (sqdata.unskippable \ rqdata.setscene) = {}
      BY <3>1
    <3>5. \A t \in tasks_notcovered' : \/ t \in sqdata.unskippable \ rqdata.setscene
                                        \/ \E s \in sq.notcovered : t \in Replaced(s)
      BY <3>1 DEF GraphFacts, Replaced
    <3> QED  BY <1>1, <3>3, <3>4, <3>5 DEF HoldoffRight, Replaced
  <2> QED  BY <2>1, <2>2
<1>3. runq_tasksrun' \subseteq present'
  BY <1>1 DEF InputInv
<1> QED  BY <1>1, <1>2, <1>3, InputsGrow

\* The steps that touch nothing of this, or only fail a task.
LEMMA QuietInputs ==
    ASSUME SceneInv, InputInv,
           \/ Rehash \/ SetsceneDone \/ Wait \/ ForceDeferred \/ BuildOver \/ Finish \/ StopBuild
           \/ \E t \in Task : DeferHard(t) \/ StartSetscene(t) \/ TaskFailed(t)
           \/ \E t \in Task, h \in Unihash : UnihashReported(t, h)
    PROVE  InputInv'
<1> DEFINE Quiet ==
              /\ UNCHANGED <<rqdata, sqdata, tasks_covered, tasks_notcovered, holdoff_need_update,
                             runq_running, runq_complete, runq_tasksrun, present>>
              /\ sq'.covered = sq.covered /\ sq'.notcovered = sq.notcovered
              /\ failed_tids \subseteq failed_tids'
<1>1. Quiet
  <2>1. ASSUME NEW t \in Task, NEW h \in Unihash, UnihashReported(t, h) PROVE Quiet
    BY <2>1 DEF UnihashReported, holdoff, runq, scene, disk
  <2>2. ASSUME NEW t \in Task, TaskFailed(t) PROVE Quiet
    BY <2>2 DEF TaskFailed, holdoff, scene, disk
  <2>3. CASE Rehash \/ SetsceneDone \/ Wait \/ BuildOver \/ Finish \/ StopBuild
    BY <2>3 DEF Rehash, SetsceneDone, Wait, BuildOver, Finish, StopBuild, holdoff, runq, scene, disk
  <2>4. CASE ForceDeferred
    BY <2>4 DEF ForceDeferred, holdoff, runq, disk
  <2>5. ASSUME NEW t \in Task, DeferHard(t) \/ StartSetscene(t) PROVE Quiet
    <3>1. UNCHANGED <<rqdata, sqdata, holdoff, holdoff_need_update, runq, disk>>
      BY <2>5 DEF DeferHard, StartSetscene
    <3>2. \/ \E e, d : sq' = [sq EXCEPT !.buildable = @ \cup e, !.harddep_deferred = @ \cup {d}]
          \/ \E d : sq' = [sq EXCEPT !.running = @ \cup {d}]
      BY <2>5 DEF DeferHard, StartSetscene
    <3>3. sq'.covered = sq.covered /\ sq'.notcovered = sq.notcovered
      BY <3>2 DEF SceneInv, SceneTypes, IsScene
    <3> QED  BY <3>1, <3>3 DEF holdoff, runq, disk
  <2> QED  BY <2>1, <2>2, <2>3, <2>4, <2>5
<1>2. HoldoffRight'
  BY <1>1, HoldoffStays DEF InputInv
<1>3. InFlight' \subseteq InFlight
  BY <1>1 DEF InFlight
<1>4. runq_tasksrun' \subseteq present'
  BY <1>1 DEF InputInv
<1> QED  BY <1>1, <1>2, <1>3, <1>4, InputsGrow

\* What is taken out to migrate was not skipped, and who is covered and migrates has
\* hard dependencies.
LEMMA MigrateInputs ==
    ASSUME OrderInv, SceneInv, InputInv, Migrate
    PROVE  InputInv'
<1>1. Stranded = {}
  BY SceneInvNotStranded DEF Migrate, NeverStranded
<1>2. MigrateTasks
  BY <1>1 DEF Migrate
<1>3. UNCHANGED <<rqdata, sqdata, tasks_covered, tasks_notcovered, runq_running, runq_complete,
                  runq_tasksrun, failed_tids>>
  BY <1>2 DEF Migrate, MigrateTasks, holdoff
<1>4. InFlight' \subseteq InFlight
  BY <1>3 DEF InFlight
<1>5. /\ Migrating \in SUBSET rqdata.setscene /\ Migrating \subseteq pending_migrations
      /\ Migrating \cap runq_complete = {}
  BY DEF Migrating, TooLate, SceneInv, SceneTypes, OrderInv, TasksApart
<1> DEFINE again == pc = "changed" \/ Migrating # {}
<1>6. PICK deferred, back :
          /\ back = PutBack(Migrating, deferred)
          /\ sq' = IF again THEN [back.sq EXCEPT !.harddep_deferred = {}] ELSE sq
          /\ present' = present \cup back.here
          /\ holdoff_need_update' = (holdoff_need_update \/ again)
  BY <1>2 DEF MigrateTasks
<1>7. PutsBack(Migrating, back)
  BY <1>5, <1>6, PutBackDecides
<1>8. \/ holdoff_need_update' /\ sq'.covered = (sq.covered \ Migrating) \cup back.here
      \/ /\ Migrating = {} /\ sq' = sq
         /\ holdoff_need_update' = (holdoff_need_update \/ FALSE)
  <2>1. CASE again
    BY <2>1, <1>6, <1>7 DEF PutsBack, IsScene
  <2>2. CASE ~again
    BY <2>2, <1>6
  <2> QED  BY <2>1, <2>2
<1>9. /\ sq.covered \ Migrating \subseteq sq'.covered
      /\ sq'.covered \ present' \subseteq sq.covered \ present
  BY <1>6, <1>8
<1>10. UnskippableRight' /\ (runq_tasksrun \subseteq present)'
  BY <1>3, <1>6 DEF InputInv, UnskippableRight
<1>11. SkippedRightly'
  BY <1>3, <1>5, <1>9 DEF InputInv, SkippedRightly
<1>12. AbsentRightly'
  <2> SUFFICES ASSUME NEW d \in sq.covered \ present, NEW s \in sqdata.revdeps[d],
                      s \in Migrating \cap sq.covered
               PROVE  rqdata.hard[s] # {}
    BY <1>3, <1>9 DEF InputInv, AbsentRightly
  <2>1. s \in sq.notcovered
    BY <1>5 DEF SceneInv, PendingRefused
  <2> QED  BY <2>1 DEF SceneInv, DecidedOnce
<1>13. HoldoffRight'
  BY <1>3, <1>8, HoldoffStays DEF InputInv, HoldoffRight
<1>14. InputsPresent'
  <2>1. Spared' = Spared
    BY <1>3 DEF Spared
  <2> QED  BY <1>3, <1>4, <1>6, <2>1 DEF InputInv, InputsPresent
<1> QED  BY <1>10, <1>11, <1>12, <1>13, <1>14 DEF InputInv

LEMMA InputInit == Init => InputInv
<1> SUFFICES ASSUME Init PROVE InputInv
  OBVIOUS
<1>1. /\ rqdata \in Builds /\ runq_running = {} /\ runq_complete = {} /\ runq_tasksrun = {}
      /\ holdoff_need_update = TRUE
  BY DEF Init
<1>2. UnskippableRight
  BY DEF Init, CollapsedFor, UnskippableRight
<1>3. PICK start, update :
          /\ IsScene(start) /\ start.covered = {}
          /\ update = UpdateScenequeue(start, {}, rqdata.setscene, sqdata.deferred, sstate)
          /\ sq = update.sq /\ present = update.here
  <2> DEFINE plain == sqdata.unskippable \ rqdata.setscene
             start == [buildable |-> {t \in rqdata.setscene : sqdata.revdeps[t] = {}},
                       running |-> {}, covered |-> {}, notcovered |-> {},
                       done |-> plain, harddep_deferred |-> {}]
             update == UpdateScenequeue(start, {}, rqdata.setscene, sqdata.deferred, sstate)
  <2>1. sq = update.sq /\ present = update.here
    BY DEF Init
  <2>2. update = UpdateScenequeue(start, {}, rqdata.setscene, sqdata.deferred, sstate)
    OBVIOUS
  <2>3. IsScene(start) /\ start.covered = {}
    BY DEF IsScene
  <2> HIDE DEF start, update
  <2> QED  BY <2>1, <2>2, <2>3
<1>4. sq.covered = {} \cup present
  <2>1. Decides(start, update.sq, update.here, {})
    BY <1>1, <1>3, UpdateDecides
  <2> QED  BY <1>3, <2>1 DEF Decides
<1>5. InFlight = {}
  BY <1>1 DEF InFlight
<1> QED  BY <1>1, <1>2, <1>4, <1>5
         DEF InputInv, SkippedRightly, AbsentRightly, HoldoffRight, InputsPresent

LEMMA InputStep ==
    OrderInv /\ SceneInv /\ Collapsed /\ InputInv /\ [Next]_vars => InputInv'
<1> SUFFICES ASSUME OrderInv, SceneInv, Collapsed, InputInv, [Next]_vars PROVE InputInv'
  OBVIOUS
<1>1. GraphFacts
  BY GraphRight DEF SceneInv, InputInv
<1>2. CASE UNCHANGED vars
  BY <1>2 DEF vars, scene, holdoff, runq, disk, hashing, InputInv, UnskippableRight, SkippedRightly,
              AbsentRightly, HoldoffRight, InputsPresent, Spared, InFlight, Replaced
<1>3. CASE Still
  BY <1>1, <1>2, <1>3, QuietInputs, SceneInputs, UpdateInputs, MigrateInputs DEF Still, Over
<1>4. ASSUME NEW t \in Task, Moving(t) PROVE InputInv'
  BY <1>1, <1>4, CompletingInputs, StartInputs, QuietInputs DEF Moving
<1> QED  BY <1>2, <1>3, <1>4, NextSplit

\* The graphs are never changed.
LEMMA GraphStays == Collapsed /\ [Next]_vars => Collapsed'
<1> SUFFICES ASSUME Collapsed, [Next]_vars PROVE Collapsed'
  OBVIOUS
<1>1. UNCHANGED <<rqdata, sqdata>>
  <2>1. CASE UNCHANGED vars
    BY <2>1 DEF vars
  <2>2. CASE Still
    BY <2>1, <2>2 DEF Still, Over, Rehash, Migrate, SkipUnneeded, DeferHard, SceneDecided,
       StartSetscene, UpdateHoldoff, SetsceneDone, Wait, ForceDeferred, BuildOver, Finish,
       SceneCompleted, SceneFailed, UnihashReported, StopBuild
  <2>3. ASSUME NEW t \in Task, Moving(t) PROVE UNCHANGED <<rqdata, sqdata>>
    BY <2>3 DEF Moving, SkipTask, NoexecTask, StartTask, TaskCompleted, TaskFailed
  <2> QED  BY <2>1, <2>2, <2>3, NextSplit
<1> QED  BY <1>1 DEF Collapsed

\* A task that is on a worker finds the output of all it depends on, but for what a
\* task with hard dependencies should have kept from being taken for not needed.
THEOREM InputsCorrect == Spec => []InputsPresent
<1>1. InputInv => InputsPresent
  BY DEF InputInv
<1> QED  BY <1>1, RunAlways, CollapsedInit, InputInit, InputStep, GraphStays, PTL DEF Spec

-----------------------------------------------------------------------------
(* Tasks with one hash.  One leads, the others are deferred after it; when *)
(* it is complete, the first of them leads.                                *)

Awaited == {sq_deferred[d] : d \in DOMAIN sq_deferred}

Leaders ==
    {t \in rqdata.setscene \ DOMAIN sq_deferred : t \in Awaited \/ t \notin sq.covered \cup runq_complete}

HashesStill ==
    /\ pending_migrations = {} /\ updated_taskhash_queue = {} /\ unihash = rqdata.unihash
    /\ pc \notin {"changed", "unchanged"}

\* Real tasks are begun once their setscene variant is decided.
BegunDecided ==
    /\ rqdata.setscene \cap runq_running \subseteq sq.covered \cup sq.notcovered
    /\ rqdata.setscene \cap InFlight \subseteq sq.notcovered

\* What is deferred is undecided, and waits for one of its hash that is not.
WaitsBehind ==
    /\ DOMAIN sq_deferred \subseteq Undecided
    /\ \A d \in DOMAIN sq_deferred :
          /\ sq_deferred[d] \in rqdata.setscene \ (runq_complete \cup DOMAIN sq_deferred)
          /\ Index(sq_deferred[d]) = Index(d)

OneLeads == \A t, u \in Leaders : Index(t) = Index(u) => t = u

InLine == HashesStill /\ BegunDecided /\ WaitsBehind /\ OneLeads
TwinInv == reports \in Nat /\ (Calm => InLine)

LEMMA InLineApart ==
    ASSUME SceneInv, Calm, InLine, runq_complete \subseteq runq_running
    PROVE  TwinsApart
<1>1. ASSUME NEW t \in (sq_live \cup InFlight) \cap rqdata.setscene PROVE t \in Leaders
  <2>1. rqdata.hard[t] = {}
    BY HardType DEF Calm, SceneInv
  <2>2. CASE t \in sq_live
    BY <2>1, <2>2 DEF SceneInv, SceneTypes, DecidedOnce, InLine, BegunDecided, Leaders
  <2>3. CASE t \in InFlight
    BY <2>1, <2>3 DEF SceneInv, DecidedOnce, InLine, BegunDecided, Leaders, InFlight
  <2> QED  BY <2>2, <2>3
<1> QED  BY <1>1 DEF TwinsApart, InLine, OneLeads

\* Without hard dependencies nothing fails for another.
LEMMA CalmDecides ==
    ASSUME SceneInv, Calm, NEW r, NEW cov, NEW fails, Decides(sq, r, cov, fails)
    PROVE  /\ r.covered = sq.covered \cup cov
           /\ sq.notcovered \subseteq r.notcovered /\ r.notcovered \subseteq sq.notcovered \cup fails
<1>1. \A d \in r.notcovered : d \in Task
  BY HardType DEF Decides, IsScene, SceneInv
<1> QED  BY <1>1 DEF Decides, Calm

\* The steps that complete no task.
LEMMA DecisionInLine ==
    ASSUME InLine,
           UNCHANGED <<rqdata, unihash, updated_taskhash_queue, pending_migrations, runq_complete>>,
           pc' \notin {"changed", "unchanged"}, failed_tids \subseteq failed_tids',
           sq.covered \subseteq sq'.covered, sq.notcovered \subseteq sq'.notcovered,
           DOMAIN sq_deferred' \subseteq DOMAIN sq_deferred,
           DOMAIN sq_deferred \ DOMAIN sq_deferred' \subseteq sq'.covered,
           \A d \in DOMAIN sq_deferred' :
               sq_deferred'[d] = sq_deferred[d] /\ d \notin sq'.covered \cup sq'.notcovered,
           rqdata.setscene \cap (runq_running' \ runq_running) \subseteq sq.notcovered
    PROVE  InLine'
<1> USE DEF InLine
<1>1. HashesStill'
  BY DEF HashesStill
<1>2. BegunDecided'
  BY DEF BegunDecided, InFlight
<1>3. \A t : Index(t)' = Index(t)
  BY DEF Index
<1>4. WaitsBehind'
  BY <1>3 DEF WaitsBehind, Undecided
<1>5. Leaders' \subseteq Leaders
  <2>1. Awaited' \subseteq Awaited
    BY DEF Awaited
  <2> QED  BY <2>1 DEF Leaders, WaitsBehind, Awaited
<1>6. OneLeads'
  BY <1>3, <1>5 DEF OneLeads
<1> QED  BY <1>1, <1>2, <1>4, <1>6

LEMMA SceneInLine ==
    ASSUME SceneInv, Calm, InLine, NEW t \in Task,
           \/ SceneCompleted(t) \/ SceneFailed(t)
           \/ SkipUnneeded(t) \/ SceneDecided(t) \/ DeferHard(t) \/ StartSetscene(t)
    PROVE  InLine'
<1> DEFINE Off == /\ DOMAIN sq_deferred' = DOMAIN sq_deferred \ {t}
                  /\ \A d \in DOMAIN sq_deferred' : sq_deferred'[d] = sq_deferred[d]
<1>1. /\ UNCHANGED <<rqdata, unihash, updated_taskhash_queue, pending_migrations, runq_complete,
                     failed_tids, runq_running>>
      /\ pc' \notin {"changed", "unchanged"}
  BY DEF SceneCompleted, SceneFailed, SkipUnneeded, SceneDecided, DeferHard, StartSetscene, hashing, runq
\* A task that waits is not the one that is chosen.
<1>2. ASSUME SceneChosen(t) PROVE t \notin DOMAIN sq_deferred
  <2>1. ~NotNeeded(t) /\ ~HardPending(t) /\ SceneTurn(t)
    BY <1>2 DEF SceneChosen
  <2>2. PICK acting : /\ acting = {c \in SceneCandidates : NotNeeded(c) \/ HardPending(c) \/ ~DeferralBlocks(c)}
                      /\ acting # {} /\ t = Min(acting)
    BY <2>1 DEF SceneTurn
  <2>3. SceneCandidates \subseteq Task
    BY HardType DEF SceneCandidates, SceneInv, SceneTypes, IsScene
  <2>4. t \in acting
    <3>1. acting \in SUBSET Task
      BY <2>2, <2>3
    <3> QED  BY <2>2, <3>1, MinOfTasks
  <2>5. ~DeferralBlocks(t)
    BY <2>1, <2>2, <2>4
  <2> QED  BY <2>5 DEF DeferralBlocks, InLine, WaitsBehind
<1>3. CASE SceneCompleted(t) \/ SceneFailed(t)
  <2>1. t \in sq_live /\ t \in rqdata.setscene /\ sq_deferred' = sq_deferred
    BY <1>3 DEF SceneCompleted, SceneFailed, SceneInv, SceneTypes
  <2>2. Decides(sq, sq', {t}, {}) \/ Decides(sq, sq', {}, {t})
    BY <1>3, <2>1, SettleDecides DEF SceneCompleted, SceneFailed, SceneInv, SceneTypes
  <2>3. /\ sq.covered \subseteq sq'.covered /\ sq.notcovered \subseteq sq'.notcovered
        /\ sq'.covered \cup sq'.notcovered \subseteq sq.covered \cup sq.notcovered \cup {t}
    BY <2>2, CalmDecides
  <2>4. t \notin DOMAIN sq_deferred
    BY <2>1 DEF SceneInv, SceneTypes
  <2> QED  BY <1>1, <2>1, <2>3, <2>4, DecisionInLine DEF InLine, WaitsBehind, Undecided
<1>4. CASE SkipUnneeded(t)
  <2>1. SceneTurn(t) /\ sq' = Settle(sq, {t}, {}) /\ Off
    BY <1>4 DEF SkipUnneeded, Restrict
  <2>2. t \in rqdata.setscene
    BY <2>1, TurnOf
  <2>3. Decides(sq, sq', {t}, {})
    BY <2>1, <2>2, SettleDecides DEF SceneInv, SceneTypes
  <2>4. /\ sq'.covered = sq.covered \cup {t} /\ sq'.notcovered = sq.notcovered
    BY <2>3, CalmDecides
  <2> QED  BY <1>1, <2>1, <2>4, DecisionInLine DEF InLine, WaitsBehind, Undecided
<1>5. CASE SceneDecided(t)
  <2>1. /\ SceneTurn(t) /\ Off /\ t \notin DOMAIN sq_deferred
        /\ sq' = Settle(sq, {t}, {}) \/ sq' = Settle(sq, {}, {t})
    BY <1>2, <1>5 DEF SceneDecided, SceneChosen, Restrict
  <2>2. t \in rqdata.setscene
    BY <2>1, TurnOf
  <2>3. Decides(sq, sq', {t}, {}) \/ Decides(sq, sq', {}, {t})
    BY <2>1, <2>2, SettleDecides DEF SceneInv, SceneTypes
  <2>4. /\ sq.covered \subseteq sq'.covered /\ sq.notcovered \subseteq sq'.notcovered
        /\ sq'.covered \cup sq'.notcovered \subseteq sq.covered \cup sq.notcovered \cup {t}
    BY <2>3, CalmDecides
  <2> QED  BY <1>1, <2>1, <2>4, DecisionInLine DEF InLine, WaitsBehind, Undecided
<1>6. CASE DeferHard(t) \/ StartSetscene(t)
  <2>1. \/ sq_deferred' = sq_deferred
        \/ Off /\ t \notin DOMAIN sq_deferred
    BY <1>2, <1>6 DEF DeferHard, StartSetscene, SceneChosen, Restrict
  <2>2. \/ \E e, d : sq' = [sq EXCEPT !.buildable = @ \cup e, !.harddep_deferred = @ \cup {d}]
        \/ \E d : sq' = [sq EXCEPT !.running = @ \cup {d}]
    BY <1>6 DEF DeferHard, StartSetscene
  <2>3. sq'.covered = sq.covered /\ sq'.notcovered = sq.notcovered
    BY <2>2 DEF SceneInv, SceneTypes, IsScene
  <2> QED  BY <1>1, <2>1, <2>3, DecisionInLine DEF InLine, WaitsBehind, Undecided
<1> QED  BY <1>3, <1>4, <1>5, <1>6

\* A setscene task whose real task is begun is decided: refused, unless that is skipped.
LEMMA ChosenDecided ==
    ASSUME SceneInv, GraphFacts, HoldoffRight, NEW t \in rqdata.setscene, TaskChosen(t)
    PROVE  t \in sq.covered \cup sq.notcovered /\ (t \notin tasks_covered => t \in sq.notcovered)
<1>1. ~holdoff_need_update /\ t \in tasks_covered \cup tasks_notcovered
  BY DEF TaskChosen, AtTask, TaskCandidates, SceneInv, HoldoffCurrent
<1>2. t \in tasks_covered => t \in sq.covered
  BY <1>1 DEF HoldoffRight
<1>3. ASSUME t \in tasks_notcovered PROVE t \in sq.notcovered
  <2>1. PICK s \in sq.notcovered : t \in Replaced(s)
    BY <1>1, <1>3 DEF HoldoffRight
  <2>2. s \in rqdata.setscene
    BY DEF SceneInv, SceneTypes, IsScene
  <2> QED  BY <2>1, <2>2 DEF Replaced, GraphFacts
<1> QED  BY <1>1, <1>2, <1>3

LEMMA CompletingInLine ==
    ASSUME OrderInv, SceneInv, GraphFacts, HoldoffRight, Calm, InLine,
           NEW t \in Task, SkipTask(t) \/ NoexecTask(t) \/ TaskCompleted(t)
    PROVE  InLine'
<1> USE DEF InLine
<1>1. /\ UNCHANGED <<rqdata, unihash, updated_taskhash_queue, pending_migrations, failed_tids>>
      /\ pc' = "top" /\ runq_running' \subseteq runq_running \cup {t}
      /\ TaskChosen(t) \/ t \in InFlight
      /\ \E made, cache : CompleteOutright(t, made, cache)
  BY DEF SkipTask, NoexecTask, TaskCompleted, hashing
<1>2. t \notin runq_complete
  BY <1>1 DEF TaskChosen, TaskCandidates, InFlight, OrderInv, TasksApart
<1>3. t \in rqdata.setscene => t \in sq.covered \cup sq.notcovered
  BY <1>1, ChosenDecided DEF BegunDecided
<1>4. PICK made, cache : CompleteOutright(t, made, cache)
  BY <1>1
<1>5. runq_complete' = runq_complete \cup {t}
  BY <1>4 DEF CompleteOutright
<1>6. HashesStill'
  BY <1>1 DEF HashesStill
<1>7. \A u : Index(u)' = Index(u)
  BY <1>1 DEF Index
<1>8. ASSUME sq.covered \subseteq sq'.covered, sq.notcovered \subseteq sq'.notcovered
      PROVE  BegunDecided'
  BY <1>1, <1>3, <1>5, <1>8 DEF BegunDecided, InFlight
<1> DEFINE waiting == {d \in DOMAIN sq_deferred : sq_deferred[d] = t}
<1>9. CASE waiting = {}
  <2>1. sq_deferred' = sq_deferred /\ sq' = sq
    BY <1>4, <1>9 DEF CompleteOutright
  <2>2. WaitsBehind'
    BY <1>1, <1>5, <1>7, <1>9, <2>1 DEF WaitsBehind, Undecided
  <2>3. Leaders' \subseteq Leaders
    BY <1>1, <1>5, <2>1 DEF Leaders, Awaited
  <2> QED  BY <1>6, <1>7, <1>8, <2>1, <2>2, <2>3 DEF OneLeads
<1>10. CASE waiting # {}
  <2> DEFINE first == Min(waiting)
  <2>1. first \in waiting
    <3>1. waiting \in SUBSET Task
      BY HardType DEF SceneInv, SceneTypes
    <3> HIDE DEF waiting
    <3> QED  BY <1>10, <3>1, MinOfTasks
  <2> DEFINE deferred == [d \in DOMAIN sq_deferred \ {first} |->
                            IF d \in waiting THEN first ELSE sq_deferred[d]]
             update == UpdateScenequeue(sq, outrightfail, {first}, deferred, cache)
  <2>2. sq' = update.sq /\ sq_deferred' = deferred
    BY <1>4, <1>10 DEF CompleteOutright
  <2>3. /\ DOMAIN sq_deferred' = DOMAIN sq_deferred \ {first}
        /\ \A d \in DOMAIN sq_deferred' : sq_deferred'[d] = IF sq_deferred[d] = t THEN first ELSE sq_deferred[d]
    BY <2>2
  <2>4. update = UpdateScenequeue(sq, outrightfail, {first}, deferred, cache)
    OBVIOUS
  <2>5. first \in DOMAIN sq_deferred /\ sq_deferred[first] = t
    BY <2>1
  <2> HIDE DEF waiting, first, deferred, update
  <2>6. /\ first \in Undecided /\ first \in rqdata.setscene /\ t \in rqdata.setscene /\ t \notin DOMAIN sq_deferred
        /\ Index(first) = Index(t)
    BY <2>5 DEF WaitsBehind, Undecided
  <2>7. update.here \subseteq {first} /\ Decides(sq, sq', update.here, {})
    <3>1. {first} \in SUBSET rqdata.setscene /\ rqdata \in Builds /\ IsScene(sq)
      BY <2>6 DEF SceneInv, SceneTypes
    <3> QED  BY <2>2, <2>4, <3>1, UpdateDecides
  <2>8. /\ sq.covered \subseteq sq'.covered /\ sq'.covered \subseteq sq.covered \cup {first}
        /\ sq'.notcovered = sq.notcovered
    <3>1. /\ sq'.covered = sq.covered \cup update.here
          /\ sq.notcovered \subseteq sq'.notcovered /\ sq'.notcovered \subseteq sq.notcovered \cup {}
      BY <2>7, CalmDecides
    <3> QED  BY <2>7, <3>1
  <2>9. first \notin runq_complete \cup {t}
    BY <2>5, <2>6 DEF BegunDecided, Undecided, OrderInv, TasksApart
  <2>10. WaitsBehind'
    BY <1>1, <1>5, <1>7, <2>3, <2>5, <2>6, <2>8, <2>9 DEF WaitsBehind, Undecided
  <2>11. t \in Leaders
    BY <2>5, <2>6 DEF Leaders, Awaited
  <2>12. Leaders' \subseteq (Leaders \ {t}) \cup {first}
    <3>1. Awaited' \subseteq (Awaited \ {t}) \cup {first}
      BY <2>3 DEF Awaited
    <3>2. t \notin Leaders'
      BY <1>5, <2>9, <3>1 DEF Leaders
    <3> QED  BY <1>1, <1>5, <2>3, <2>8, <3>1, <3>2 DEF Leaders
  <2>13. OneLeads'
    BY <1>7, <2>6, <2>11, <2>12 DEF OneLeads
  <2> QED  BY <1>6, <1>8, <2>8, <2>10, <2>13
<1> QED  BY <1>9, <1>10

LEMMA QuietInLine ==
    ASSUME SceneInv, InLine,
           \/ SetsceneDone \/ Wait \/ BuildOver \/ Finish \/ StopBuild \/ UpdateHoldoff
           \/ \E t \in Task : TaskFailed(t)
    PROVE  InLine'
<1> DEFINE Quiet ==
              /\ UNCHANGED <<rqdata, unihash, updated_taskhash_queue, pending_migrations, runq_complete,
                             runq_running, sq, sq_deferred>>
              /\ pc' \notin {"changed", "unchanged"} /\ failed_tids \subseteq failed_tids'
<1>1. CASE SetsceneDone \/ Wait \/ BuildOver \/ Finish \/ StopBuild
  BY <1>1, DecisionInLine DEF SetsceneDone, Wait, BuildOver, Finish, StopBuild, hashing, runq, scene,
     InLine, HashesStill, WaitsBehind, Undecided
<1>2. CASE UpdateHoldoff
  BY <1>2, DecisionInLine DEF UpdateHoldoff, hashing, scene, InLine, WaitsBehind, Undecided
<1>3. CASE \E t \in Task : TaskFailed(t)
  BY <1>3, DecisionInLine DEF TaskFailed, hashing, scene, InLine, WaitsBehind, Undecided
<1> QED  BY <1>1, <1>2, <1>3

\* A step that leaves the build calm began with it calm.
LEMMA CalmBefore ==
    ASSUME reports \in Nat, [Next]_vars
    PROVE  reports' \in Nat /\ (Calm' => Calm /\ ~ForceDeferred /\ \A t \in Task, h \in Unihash : ~UnihashReported(t, h))
<1>1. /\ UNCHANGED <<rqdata, sqdata>>
      /\ \/ reports' = reports /\ (forced' = forced \/ forced')
         \/ reports' = reports + 1
  <2>1. CASE UNCHANGED vars
    BY <2>1 DEF vars, hashing
  <2>2. CASE Still
    BY <2>1, <2>2 DEF Still, Over, Rehash, Migrate, SkipUnneeded, DeferHard, SceneDecided,
       StartSetscene, UpdateHoldoff, SetsceneDone, Wait, ForceDeferred, BuildOver, Finish,
       SceneCompleted, SceneFailed, UnihashReported, StopBuild, hashing
  <2>3. CASE \E t \in Task : Moving(t)
    BY <2>3 DEF Moving, SkipTask, NoexecTask, StartTask, TaskCompleted, TaskFailed, hashing
  <2> QED  BY <2>1, <2>2, <2>3, NextSplit
<1>2. ForceDeferred => forced'
  BY DEF ForceDeferred
<1>3. \A t \in Task, h \in Unihash : UnihashReported(t, h) => reports' = reports + 1
  BY DEF UnihashReported
<1> QED  BY <1>1, <1>2, <1>3 DEF Calm

LEMMA TwinStep ==
    OrderInv /\ SceneInv /\ Collapsed /\ InputInv /\ TwinInv /\ [Next]_vars => TwinInv'
<1> SUFFICES ASSUME OrderInv, SceneInv, Collapsed, InputInv, TwinInv, [Next]_vars, Calm' PROVE InLine'
  BY CalmBefore DEF TwinInv
<1>1. /\ Calm /\ ~ForceDeferred /\ (\A t \in Task, h \in Unihash : ~UnihashReported(t, h))
      /\ InLine
  BY CalmBefore DEF TwinInv
<1>2. GraphFacts /\ HoldoffRight
  BY GraphRight DEF SceneInv, InputInv
<1>3. CASE UNCHANGED vars
  BY <1>1, <1>3, DecisionInLine DEF vars, hashing, runq, scene, InLine, HashesStill, WaitsBehind, Undecided
<1>4. ~Rehash /\ ~Migrate
  BY <1>1 DEF Rehash, Migrate, HashesMoved, InLine, HashesStill
<1>5. CASE Still
  BY <1>1, <1>3, <1>4, <1>5, SceneInLine, QuietInLine DEF Still, Over
<1>6. ASSUME NEW t \in Task, StartTask(t) PROVE InLine'
  <2>1. /\ TaskChosen(t) /\ t \notin tasks_covered
        /\ UNCHANGED <<rqdata, unihash, updated_taskhash_queue, pending_migrations, runq_complete,
                       failed_tids, sq, sq_deferred>>
        /\ runq_running' = runq_running \cup {t} /\ pc' \in {"top", "idle"}
    BY <1>6 DEF StartTask, hashing, scene
  <2>2. t \in rqdata.setscene => t \in sq.notcovered
    BY <1>2, <2>1, ChosenDecided
  <2> QED  BY <1>1, <2>1, <2>2, DecisionInLine DEF InLine, WaitsBehind, Undecided
<1>7. ASSUME NEW t \in Task, Moving(t) PROVE InLine'
  BY <1>1, <1>2, <1>6, <1>7, CompletingInLine, QuietInLine DEF Moving
<1> QED  BY <1>3, <1>5, <1>7, NextSplit

\* The recursion of the stamps' check has a solution: it fails for what leads down to a
\* missing stamp; so a task that passes has its own.
LEMMA StampOwn ==
    ASSUME rqdata.depends \in [Task -> SUBSET Task], NEW t \in Task, StampCurrentRecurse(t)
    PROVE  Stamp(t)
<1> DEFINE missing == {u \in Task : ~Stamp(u)}
           step == {p \in Task \X Task : p[1] \in StampDeps(p[2])}
           stale == Least(Task, missing, step)
           Solves(f) == f = [u \in Task |-> Stamp(u) /\ \A d \in StampDeps(u) : f[d]]
           current[u \in Task] == Stamp(u) /\ \A d \in StampDeps(u) : current[d]
           solution == [u \in Task |-> u \notin stale]
<1>1. \A u \in Task : StampDeps(u) \subseteq Task
  BY DEF StampDeps
<1>2. \A u \in Task : u \in stale <=> ~Stamp(u) \/ \E d \in StampDeps(u) : d \in stale
  <2>1. \A u \in Task : u \in stale <=> u \in missing \/ \E x \in stale : <<x, u>> \in step
    <3>1. missing \subseteq Task
      OBVIOUS
    <3> HIDE DEF missing, step
    <3> QED  BY <3>1, LeastClosed
  <2>2. stale \subseteq Task
    BY DEF Least
  <2> HIDE DEF stale
  <2>3. \A u \in Task, x \in Task : <<x, u>> \in step <=> x \in StampDeps(u)
    OBVIOUS
  <2> HIDE DEF step
  <2> QED  BY <1>1, <2>1, <2>2, <2>3
<1>3. Solves(solution)
  <2>1. ASSUME NEW u \in Task
        PROVE  (u \notin stale) = (Stamp(u) /\ \A d \in StampDeps(u) : solution[d])
    <3> HIDE DEF stale
    <3>1. (\A d \in StampDeps(u) : solution[d]) <=> (\A d \in StampDeps(u) : d \notin stale)
      <4>1. \A d \in StampDeps(u) : solution[d] <=> d \notin stale
        BY <1>1, Zenon
      <4> QED  BY <4>1, Zenon
    <3>2. u \notin stale <=> Stamp(u) /\ \A d \in StampDeps(u) : d \notin stale
      BY <1>2
    <3> HIDE DEF solution
    <3>3. u \notin stale <=> (Stamp(u) /\ \A d \in StampDeps(u) : solution[d])
      BY <3>1, <3>2, Zenon
    <3> QED  BY <3>3
  <2> HIDE DEF stale
  <2> QED  BY <2>1, Zenon
<1>4. Solves(current)
  <2> HIDE DEF solution
  <2>1. \E f : Solves(f)
    BY <1>3, Zenon
  <2> QED  BY <2>1, Zenon
<1>5. current[t]
  BY DEF StampCurrentRecurse
<1> HIDE DEF current
<1>6. current[t] = (Stamp(t) /\ \A d \in StampDeps(t) : current[d])
  BY <1>4, Zenon
<1> QED  BY <1>5, <1>6, Zenon

LEMMA TwinInit == Init => TwinInv
<1>0. Init => reports = 0
  BY DEF Init
<1> SUFFICES ASSUME Init, Calm PROVE InLine
  BY <1>0 DEF TwinInv
<1> DEFINE index == [t \in Task |-> <<rqdata.pn[t], rqdata.unihash[t]>>]
           hashes == Hashes(rqdata.setscene, index)
<1>1. /\ rqdata \in Builds /\ runq_running = {} /\ runq_complete = {}
      /\ pending_migrations = {} /\ updated_taskhash_queue = {} /\ unihash = rqdata.unihash /\ pc = "top"
      /\ sq_deferred = sqdata.deferred /\ sqdata.deferred = Deferred(rqdata.setscene, index)
  BY DEF Init, CollapsedFor
<1>2. rqdata.setscene \subseteq Task /\ rqdata.depends \in [Task -> SUBSET Task]
  BY <1>1, HardType, DependsType
<1>3. \A t \in rqdata.setscene : index[t] = Index(t)
  BY <1>1, <1>2 DEF Index
<1> HIDE DEF index
\* The owner of a hash has it.
<1>4. \A t \in rqdata.setscene : /\ hashes[index[t]] \in rqdata.setscene
                                 /\ index[hashes[index[t]]] = index[t]
  <2> TAKE t \in rqdata.setscene
  <2> DEFINE same == {u \in rqdata.setscene : index[u] = index[t]}
  <2>1. hashes[index[t]] = Min(same)
    BY DEF Hashes
  <2>2. Min(same) \in same
    <3>1. same \in SUBSET Task /\ same # {}
      BY <1>2
    <3> HIDE DEF same
    <3> QED  BY <3>1, MinOfTasks
  <2> HIDE DEF hashes
  <2> QED  BY <2>1, <2>2
<1>5. /\ DOMAIN sq_deferred = {s \in rqdata.setscene : hashes[index[s]] # s}
      /\ \A d \in DOMAIN sq_deferred : sq_deferred[d] = hashes[index[d]]
  BY <1>1 DEF Deferred
<1> HIDE DEF hashes
\* What is found done is not deferred.
<1>6. sq.covered \cap DOMAIN sq_deferred = {} /\ sq.notcovered = {}
  <2>1. PICK start, update :
          /\ IsScene(start) /\ start.covered = {} /\ start.notcovered = {}
          /\ update = UpdateScenequeue(start, {}, rqdata.setscene, sqdata.deferred, sstate)
          /\ sq = update.sq
    <3> DEFINE plain == sqdata.unskippable \ rqdata.setscene
               start == [buildable |-> {t \in rqdata.setscene : sqdata.revdeps[t] = {}},
                         running |-> {}, covered |-> {}, notcovered |-> {},
                         done |-> plain, harddep_deferred |-> {}]
               update == UpdateScenequeue(start, {}, rqdata.setscene, sqdata.deferred, sstate)
    <3>1. sq = update.sq
      BY DEF Init
    <3>2. update = UpdateScenequeue(start, {}, rqdata.setscene, sqdata.deferred, sstate)
      OBVIOUS
    <3>3. IsScene(start) /\ start.covered = {} /\ start.notcovered = {}
      BY DEF IsScene
    <3> HIDE DEF start, update
    <3> QED  BY <3>1, <3>2, <3>3
  <2>2. Decides(start, sq, update.here, {})
    BY <1>1, <2>1, UpdateDecides
  <2>3. \A d \in update.here : d \in rqdata.setscene /\ StampPresent(d)
    BY <2>1 DEF UpdateScenequeue
  <2>4. /\ stamps = {<<t, unihash[t]>> : t \in rqdata.stamps}
        /\ sqstamps = {<<t, unihash[t]>> : t \in rqdata.sqstamps}
    BY DEF Init
  <2>5. \A d \in Task : StampPresent(d) => d \in rqdata.noexec \cup rqdata.sqstamps \cup rqdata.stamps
    BY <1>2, <2>4, StampOwn DEF StampPresent, SetsceneStamp, Stamp
  <2>6. update.here \cap DOMAIN sq_deferred = {}
    BY <1>1, <1>2, <2>3, <2>5 DEF Calm
  <2>7. \A d \in sq.notcovered : d \in Task
    BY <1>2, <2>2 DEF Decides, IsScene
  <2> QED  BY <2>1, <2>2, <2>6, <2>7 DEF Decides, Calm
<1>7. WaitsBehind
  BY <1>1, <1>3, <1>4, <1>5, <1>6 DEF WaitsBehind, Undecided
<1>8. OneLeads
  BY <1>3, <1>5 DEF OneLeads, Leaders
<1> QED  BY <1>1, <1>7, <1>8 DEF InLine, HashesStill, BegunDecided, InFlight

\* sq_deferred, "We shouldn't allow all to run at once as it is prone to races": while the
\* build is calm, of the tasks with one hash one at a time is on a worker, also after the
\* first of them fails and each is built in turn.
THEOREM TwinsCorrect == Spec => []TwinsApartAtFirst
<1>1. OrderInv /\ SceneInv /\ TwinInv => TwinsApartAtFirst
  BY InLineApart DEF OrderInv, TasksApart, TwinInv, TwinsApartAtFirst
<1> QED  BY <1>1, RunAlways, CollapsedInit, InputInit, InputStep, GraphStays, TwinInit, TwinStep, PTL DEF Spec

-----------------------------------------------------------------------------
(* The types of the state.                                                 *)

HashTypes == unihash \in [Task -> Unihash] /\ updated_taskhash_queue \subseteq Task \X Unihash

ControlTypes ==
    /\ sqdone \in BOOLEAN /\ holdoff_need_update \in BOOLEAN /\ forced \in BOOLEAN
    /\ state \in Final \cup {"running", "cleanup"}
    /\ pc \in {"top", "begun", "changed", "unchanged", "scene", "holdoff", "task", "idle"}

SetTypes ==
    /\ sq.done \cup holdoff_tasks \cup tasks_covered \cup tasks_notcovered \subseteq Task
    /\ runq_buildable \cup present \subseteq Task
    /\ sq_needed_harddeps \cup outrightfail \subseteq rqdata.setscene
    /\ runq_tasksrun \subseteq runq_complete

TypeInv == HashTypes /\ ControlTypes /\ SetTypes

LEMMA TypesOK == OrderInv /\ SceneInv /\ TypeInv => TypeOK
<1> SUFFICES ASSUME OrderInv, SceneInv, TypeInv PROVE TypeOK
  OBVIOUS
<1>1. rqdata \in BuildType /\ rqdata.setscene \subseteq Task
  BY HardType, BuildsAssumption DEF SceneInv
<1>2. /\ {"buildable", "running", "covered", "notcovered", "done", "harddep_deferred"} = DOMAIN sq
      /\ sq.buildable \cup sq.running \cup sq.covered \cup sq.notcovered \cup sq.harddep_deferred
             \cup sq_live \cup DOMAIN sq_deferred \cup pending_migrations \subseteq rqdata.setscene
  BY DEF SceneInv, SceneTypes, IsScene
<1>3. /\ runq_running \cup failed_tids \subseteq Task
      /\ runq_complete \subseteq runq_running
  BY DEF OrderInv, TasksApart
<1> QED  BY <1>1, <1>2, <1>3 DEF TypeInv, HashTypes, ControlTypes, SetTypes, TypeOK

LEMMA HashTyped == HashTypes /\ [Next]_vars => HashTypes'
<1> SUFFICES ASSUME HashTypes, [Next]_vars PROVE HashTypes'
  OBVIOUS
<1>1. CASE UNCHANGED hashing
  BY <1>1 DEF HashTypes, hashing
<1>2. CASE Rehash
  <2> DEFINE total == UNION {TasksAbove(t) : t \in Rehashed.moved}
             kept == total \ KeepsHash
  <2>1. /\ \E newuni \in [kept -> Unihash] :
              unihash' = [t \in Task |-> IF t \in DOMAIN newuni THEN newuni[t]
                                          ELSE Rehashed.unihash[t]]
        /\ updated_taskhash_queue' = Rehashed.queue
    BY <1>2 DEF Rehash
  <2>2. Rehashed.queue \subseteq updated_taskhash_queue
    BY DEF Rehashed
  <2>3. Rehashed.unihash \in [Task -> Unihash]
    <3> DEFINE moved == {r \in updated_taskhash_queue : r[1] \notin Unfinished /\ r[2] # unihash[r[1]]}
               From(t) == {r \in moved : r[1] = t \/ (t \in DOMAIN sq_deferred /\ r[1] = sq_deferred[t])}
    <3>1. Rehashed.unihash = [t \in Task |-> IF From(t) = {} THEN unihash[t] ELSE (CHOOSE r \in From(t) : TRUE)[2]]
      BY DEF Rehashed
    <3>2. \A t \in Task : From(t) # {} => (CHOOSE r \in From(t) : TRUE) \in Task \X Unihash
      BY DEF HashTypes
    <3> HIDE DEF From
    <3> QED  BY <3>1, <3>2 DEF HashTypes
  <2> HIDE DEF Rehashed
  <2> HIDE DEF kept
  <2>4. unihash' \in [Task -> Unihash]
    BY <2>1, <2>3
  <2> QED  BY <2>1, <2>2, <2>4 DEF HashTypes
<1>3. CASE \E t \in Task, h \in Unihash : UnihashReported(t, h)
  BY <1>3 DEF UnihashReported, HashTypes
<1>4. CASE Migrate \/ ForceDeferred
  BY <1>4 DEF Migrate, ForceDeferred, HashTypes
<1>5. CASE Still
  BY <1>1, <1>2, <1>3, <1>4, <1>5 DEF Still, Over, vars, SkipUnneeded, DeferHard, SceneDecided,
     StartSetscene, UpdateHoldoff, SetsceneDone, Wait, BuildOver, Finish,
     SceneCompleted, SceneFailed, StopBuild
<1>6. ASSUME NEW t \in Task, Moving(t) PROVE UNCHANGED hashing
  BY <1>6 DEF Moving, SkipTask, NoexecTask, StartTask, TaskCompleted, TaskFailed
<1> QED  BY <1>1, <1>5, <1>6, NextSplit DEF vars

LEMMA ControlTyped == NeverStranded /\ ControlTypes /\ [Next]_vars => ControlTypes'
<1> SUFFICES ASSUME NeverStranded, ControlTypes, [Next]_vars PROVE ControlTypes'
  OBVIOUS
<1> USE DEF ControlTypes, Final
<1>1. CASE UNCHANGED vars
  BY <1>1 DEF vars, scene, hashing
<1>2. CASE Rehash \/ UpdateHoldoff \/ SetsceneDone \/ Wait \/ BuildOver \/ Finish \/ StopBuild
  BY <1>2 DEF Rehash, UpdateHoldoff, SetsceneDone, Wait, BuildOver, Finish, StopBuild, scene, hashing
<1>3. CASE ForceDeferred
  BY <1>3 DEF ForceDeferred
<1>4. CASE Migrate
  <2>1. MigrateTasks /\ pc' = "scene" /\ UNCHANGED forced
    BY <1>4, NothingStranded DEF Migrate
  <2>2. /\ holdoff_need_update' \in BOOLEAN /\ sqdone' \in BOOLEAN
        /\ UNCHANGED state
    BY <2>1 DEF MigrateTasks
  <2> QED  BY <2>1, <2>2
<1>5. ASSUME NEW t \in Task, SkipUnneeded(t) \/ DeferHard(t) \/ SceneDecided(t) \/ StartSetscene(t)
                             \/ SceneCompleted(t) \/ SceneFailed(t)
      PROVE  ControlTypes'
  BY <1>5 DEF SkipUnneeded, DeferHard, SceneDecided, StartSetscene, SceneCompleted, SceneFailed, hashing
<1>6. ASSUME NEW t \in Task, NEW h \in Unihash, UnihashReported(t, h) PROVE ControlTypes'
  BY <1>6 DEF UnihashReported, scene
<1>7. ASSUME NEW t \in Task, SkipTask(t) \/ NoexecTask(t) \/ TaskCompleted(t) PROVE ControlTypes'
  <2>1. UNCHANGED <<sqdone, forced, state>> /\ pc' = "top" /\ \E made, cache : CompleteOutright(t, made, cache)
    BY <1>7 DEF SkipTask, NoexecTask, TaskCompleted, hashing
  <2>2. holdoff_need_update' \in BOOLEAN
    BY <2>1 DEF CompleteOutright
  <2> QED  BY <2>1, <2>2
<1>8. ASSUME NEW t \in Task, StartTask(t) \/ TaskFailed(t) PROVE ControlTypes'
  BY <1>8 DEF StartTask, TaskFailed, scene, hashing
<1>9. CASE Still
  BY <1>1, <1>2, <1>3, <1>4, <1>5, <1>6, <1>9 DEF Still, Over
<1>10. ASSUME NEW t \in Task, Moving(t) PROVE ControlTypes'
  BY <1>7, <1>8, <1>10 DEF Moving
<1> QED  BY <1>1, <1>9, <1>10, NextSplit

LEMMA SettleTyped ==
    ASSUME NEW s, NEW cov, NEW fails, s.done \subseteq Task
    PROVE  Settle(s, cov, fails).done \subseteq Task
BY DEF Settle, DoneClosure

LEMMA UpdateTyped ==
    ASSUME NEW s, NEW fails, NEW tids, NEW deferred, NEW cache, s.done \subseteq Task,
           NEW update, update = UpdateScenequeue(s, fails, tids, deferred, cache)
    PROVE  /\ update.sq.done \subseteq Task /\ update.here \subseteq tids
           /\ update.fails \subseteq fails \cup tids
<1> DEFINE here == {t \in tids : StampPresent(t)}
           settled == IF here = {} THEN s ELSE Settle(s, here, {})
<1>1. /\ update.sq = settled /\ update.here = here
      /\ update.fails \subseteq fails \cup tids
  BY DEF UpdateScenequeue
<1>2. here \subseteq tids
  OBVIOUS
<1> HIDE DEF here
<1>3. settled.done \subseteq Task
  BY SettleTyped
<1> QED  BY <1>1, <1>2, <1>3

LEMMA PutBackTyped ==
    ASSUME NEW tids, NEW deferred, sq.done \subseteq Task,
           NEW back, back = PutBack(tids, deferred)
    PROVE  /\ back.sq.done \subseteq Task /\ back.here \subseteq tids
           /\ back.fails \subseteq outrightfail \cup tids
<1> DEFINE s == TakenOut(tids)
           harddepfail == {t \in tids : rqdata.hard[t] \cap s.notcovered # {}}
<1>1. PICK ready \in SUBSET tids :
        \E start, update :
          /\ start = [s EXCEPT !.buildable = @ \cup ready]
          /\ update = UpdateScenequeue(start, outrightfail \ tids, tids, deferred, sstate)
          /\ back = [update EXCEPT !.sq = IF harddepfail = {} THEN @ ELSE Settle(@, {}, harddepfail)]
  BY DEF PutBack
<1>2. PICK start, update :
          /\ start = [s EXCEPT !.buildable = @ \cup ready]
          /\ update = UpdateScenequeue(start, outrightfail \ tids, tids, deferred, sstate)
          /\ back = [update EXCEPT !.sq = IF harddepfail = {} THEN @ ELSE Settle(@, {}, harddepfail)]
  BY <1>1
<1>3. start.done \subseteq Task
  <2>1. s.done \subseteq Task
    BY DEF TakenOut
  <2>2. s = [buildable |-> s.buildable, running |-> s.running, covered |-> s.covered,
           notcovered |-> s.notcovered, done |-> s.done, harddep_deferred |-> s.harddep_deferred]
    BY DEF TakenOut
  <2> HIDE DEF s
  <2> QED  BY <1>2, <2>1, <2>2
<1> HIDE DEF harddepfail
<1>4. /\ update.sq.done \subseteq Task /\ update.here \subseteq tids
      /\ update.fails \subseteq outrightfail \cup tids
  <2>1. update = UpdateScenequeue(start, outrightfail \ tids, tids, deferred, sstate)
    BY <1>2
  <2>2. /\ update.sq.done \subseteq Task /\ update.here \subseteq tids
        /\ update.fails \subseteq (outrightfail \ tids) \cup tids
    BY <1>3, <2>1, UpdateTyped
  <2> QED  BY <2>2
<1>5. /\ back.sq = IF harddepfail = {} THEN update.sq ELSE Settle(update.sq, {}, harddepfail)
      /\ back.here = update.here /\ back.fails = update.fails
  BY <1>2 DEF UpdateScenequeue
<1>6. Settle(update.sq, {}, harddepfail).done \subseteq Task
  BY <1>4, SettleTyped
<1> QED  BY <1>4, <1>5, <1>6

LEMMA CompletingTyped ==
    ASSUME SceneInv, SetTypes, NEW t \in Task, SkipTask(t) \/ NoexecTask(t) \/ TaskCompleted(t)
    PROVE  SetTypes'
<1> USE DEF SetTypes
<1>1. PICK made, cache : /\ made \in SUBSET {t} /\ CompleteOutright(t, made, cache)
  BY DEF SkipTask, NoexecTask, TaskCompleted
<1>2. /\ UNCHANGED <<rqdata, holdoff_tasks, tasks_covered, tasks_notcovered, sq_needed_harddeps>>
      /\ runq_tasksrun' \subseteq runq_tasksrun \cup {t}
  BY DEF SkipTask, NoexecTask, TaskCompleted, holdoff
<1> DEFINE waiting == {d \in DOMAIN sq_deferred : sq_deferred[d] = t}
           first == Min(waiting)
           deferred == [d \in DOMAIN sq_deferred \ {first} |->
                            IF d \in waiting THEN first ELSE sq_deferred[d]]
           update == UpdateScenequeue(sq, outrightfail, {first}, deferred, cache)
<1>3. /\ runq_complete' = runq_complete \cup {t}
      /\ runq_buildable' \subseteq runq_buildable \cup Above(t)
      /\ sq' = IF waiting = {} THEN sq ELSE update.sq
      /\ outrightfail' = IF waiting = {} THEN outrightfail ELSE update.fails
      /\ present' = present \cup made \cup (IF waiting = {} THEN {} ELSE update.here)
  BY <1>1 DEF CompleteOutright
<1>4. waiting # {} => first \in rqdata.setscene /\ first \in Task
  <2> SUFFICES ASSUME waiting # {} PROVE first \in rqdata.setscene /\ first \in Task
    OBVIOUS
  <2>1. waiting \in SUBSET Task /\ waiting \subseteq rqdata.setscene
    BY HardType DEF SceneInv, SceneTypes
  <2> HIDE DEF waiting
  <2> QED  BY <2>1, MinOfTasks
<1>5. /\ update.sq.done \subseteq Task /\ update.here \subseteq {first}
      /\ update.fails \subseteq outrightfail \cup {first}
  <2> HIDE DEF waiting, first, deferred
  <2> QED  BY UpdateTyped
<1>6. Above(t) \subseteq Task
  BY DEF Above, Revdeps
<1> HIDE DEF waiting, first, update
<1>7. sq'.done \subseteq Task /\ outrightfail' \subseteq rqdata.setscene /\ present' \subseteq Task
  BY <1>1, <1>3, <1>4, <1>5
<1> QED  BY <1>2, <1>3, <1>6, <1>7

LEMMA MigrateTyped ==
    ASSUME SceneInv, SetTypes, Migrate
    PROVE  SetTypes'
<1> USE DEF SetTypes
<1>1. MigrateTasks
  BY SceneInvNotStranded DEF Migrate, NeverStranded
<1>2. UNCHANGED <<rqdata, holdoff_tasks, tasks_covered, tasks_notcovered, runq_buildable, runq_complete, runq_tasksrun>>
  BY DEF Migrate, holdoff
<1> DEFINE again == pc = "changed" \/ Migrating # {}
<1>3. PICK deferred, back :
          /\ back = PutBack(Migrating, deferred)
          /\ sq' = IF again THEN [back.sq EXCEPT !.harddep_deferred = {}] ELSE sq
          /\ outrightfail' = back.fails
          /\ present' = present \cup back.here
          /\ sq_needed_harddeps' \subseteq sq_needed_harddeps
  BY <1>1 DEF MigrateTasks
<1>4. Migrating \subseteq rqdata.setscene /\ Migrating \subseteq Task
  BY HardType DEF Migrating, SceneInv, SceneTypes
<1>5. /\ back.sq.done \subseteq Task /\ back.here \subseteq Migrating
      /\ back.fails \subseteq outrightfail \cup Migrating
  BY <1>3, PutBackTyped
<1>6. sq'.done = IF again THEN back.sq.done ELSE sq.done
  <2>1. PutsBack(Migrating, back)
    BY <1>3, <1>4, PutBackDecides
  <2> QED  BY <1>3, <2>1 DEF PutsBack, IsScene
<1>7. sq'.done \subseteq Task
  BY <1>5, <1>6
<1> QED  BY <1>2, <1>3, <1>4, <1>5, <1>7

LEMMA SetsTyped == SceneInv /\ Collapsed /\ SetTypes /\ [Next]_vars => SetTypes'
<1> SUFFICES ASSUME SceneInv, Collapsed, SetTypes, [Next]_vars PROVE SetTypes'
  OBVIOUS
<1> USE DEF SetTypes
<1>1. CASE UNCHANGED vars
  BY <1>1 DEF vars, scene, holdoff, runq, disk
<1>2. CASE Rehash \/ SetsceneDone \/ Wait \/ ForceDeferred \/ BuildOver \/ Finish \/ StopBuild
           \/ \E t \in Task, h \in Unihash : UnihashReported(t, h)
  BY <1>2 DEF Rehash, SetsceneDone, Wait, ForceDeferred, BuildOver, Finish, StopBuild, UnihashReported,
              scene, holdoff, runq, disk
<1>3. CASE UpdateHoldoff
  <2> DEFINE Below(s) == UNION {sqdata.covered[t] : t \in s}
             open == rqdata.setscene \ (sq.covered \cup sq.notcovered)
  <2>1. \A s \in rqdata.setscene : sqdata.covered[s] \subseteq Task
    BY HardType, DependsType, BuildsAssumption, ReachClosed DEF Collapsed, IsCollapsed, SceneInv
  <2>2. open \cup Below(open) \subseteq Task
    BY <2>1, HardType DEF SceneInv
  <2>3. /\ UNCHANGED <<rqdata, sq, sq_needed_harddeps, outrightfail, runq_complete, runq_tasksrun, present>>
        /\ \/ UNCHANGED <<holdoff_tasks, tasks_covered, tasks_notcovered, runq_buildable>>
           \/ /\ tasks_covered' \subseteq sq.done /\ tasks_notcovered' \subseteq sq.done
              /\ holdoff_tasks' \subseteq open \cup Below(open)
              /\ runq_buildable' \subseteq runq_buildable \cup sq.done
    BY <1>3 DEF UpdateHoldoff, scene, holdoff, disk
  <2> HIDE DEF open, Below
  <2> QED  BY <2>2, <2>3
<1>4. ASSUME NEW t \in Task, SkipUnneeded(t) \/ SceneDecided(t) \/ SceneCompleted(t) \/ SceneFailed(t)
      PROVE  SetTypes'
  <2>1. /\ UNCHANGED <<rqdata, holdoff, runq, sq_needed_harddeps, outrightfail>>
        /\ present' \subseteq present \cup {t}
        /\ \E cov, fails : sq' = Settle(sq, cov, fails)
    BY <1>4 DEF SkipUnneeded, SceneDecided, SceneCompleted, SceneFailed, disk
  <2>2. sq'.done \subseteq Task
    BY <2>1, SettleTyped
  <2> QED  BY <2>1, <2>2 DEF holdoff, runq
<1>5. ASSUME NEW t \in Task, DeferHard(t)
      PROVE  SetTypes'
  <2>1. /\ UNCHANGED <<rqdata, holdoff, runq, outrightfail, present>>
        /\ sq_needed_harddeps' \subseteq sq_needed_harddeps \cup rqdata.hard[t] /\ SceneTurn(t)
        /\ \E e, d : sq' = [sq EXCEPT !.buildable = @ \cup e, !.harddep_deferred = @ \cup {d}]
    BY <1>5 DEF DeferHard, disk
  <2>2. sq'.done = sq.done
    BY <2>1 DEF SceneInv, SceneTypes, IsScene
  <2>3. rqdata.hard[t] \subseteq rqdata.setscene
    BY <2>1, TurnOf, HardType DEF SceneInv
  <2> QED  BY <2>1, <2>2, <2>3 DEF holdoff, runq
<1>6. ASSUME NEW t \in Task, StartSetscene(t)
      PROVE  SetTypes'
  <2>1. /\ UNCHANGED <<rqdata, holdoff, runq, sq_needed_harddeps, outrightfail, present>>
        /\ sq' = [sq EXCEPT !.running = @ \cup {t}]
    BY <1>6 DEF StartSetscene, disk
  <2>2. sq'.done = sq.done
    BY <2>1 DEF SceneInv, SceneTypes, IsScene
  <2> QED  BY <2>1, <2>2 DEF holdoff, runq
<1>7. CASE Still
  BY <1>1, <1>2, <1>3, <1>4, <1>5, <1>6, <1>7, MigrateTyped DEF Still, Over
<1>8. ASSUME NEW t \in Task, StartTask(t) \/ TaskFailed(t) PROVE SetTypes'
  BY <1>8 DEF StartTask, TaskFailed, scene, holdoff, disk
<1>9. ASSUME NEW t \in Task, Moving(t) PROVE SetTypes'
  BY <1>8, <1>9, CompletingTyped DEF Moving
<1> QED  BY <1>1, <1>7, <1>9, NextSplit

LEMMA TypeInit == Init => TypeInv
<1> SUFFICES ASSUME Init PROVE TypeInv
  OBVIOUS
<1>1. rqdata \in BuildType /\ rqdata.setscene \subseteq Task
  BY HardType, BuildsAssumption DEF Init
<1>2. HashTypes
  BY <1>1 DEF Init, HashTypes, BuildType
<1>3. ControlTypes
  <2>1. sqdone = (rqdata.setscene = {}) /\ holdoff_need_update = TRUE /\ forced = FALSE
        /\ state = "running" /\ pc = "top"
    BY DEF Init
  <2> QED  BY <2>1 DEF ControlTypes
<1>4. SetTypes
  <2>1. PICK start, update :
          /\ start.done = sqdata.unskippable \ rqdata.setscene
          /\ update = UpdateScenequeue(start, {}, rqdata.setscene, sqdata.deferred, sstate)
          /\ sq = update.sq /\ outrightfail = update.fails /\ present = update.here
          /\ runq_buildable \subseteq sqdata.unskippable \ rqdata.setscene
    <3> DEFINE plain == sqdata.unskippable \ rqdata.setscene
               start == [buildable |-> {t \in rqdata.setscene : sqdata.revdeps[t] = {}},
                         running |-> {}, covered |-> {}, notcovered |-> {},
                         done |-> plain, harddep_deferred |-> {}]
               update == UpdateScenequeue(start, {}, rqdata.setscene, sqdata.deferred, sstate)
    <3>1. /\ sq = update.sq /\ outrightfail = update.fails /\ present = update.here
          /\ runq_buildable \subseteq sqdata.unskippable \ rqdata.setscene
      BY DEF Init
    <3>2. update = UpdateScenequeue(start, {}, rqdata.setscene, sqdata.deferred, sstate)
      OBVIOUS
    <3>3. start.done = sqdata.unskippable \ rqdata.setscene
      OBVIOUS
    <3> HIDE DEF start, update
    <3> QED  BY <3>1, <3>2, <3>3
  <2>2. sqdata.unskippable = Unskippable(rqdata.depends, rqdata.setscene, rqdata.targets)
    BY DEF Init, CollapsedFor
  <2>3. sqdata.unskippable \ rqdata.setscene \subseteq Task
    BY <2>2, DependsType, BuildsAssumption, UnskippableClosed DEF Init
  <2>4. /\ sq.done \subseteq Task /\ present \subseteq rqdata.setscene
        /\ outrightfail \subseteq {} \cup rqdata.setscene
    BY <2>1, <2>3, UpdateTyped
  <2>5. /\ holdoff_tasks = {} /\ tasks_covered = {} /\ sq_needed_harddeps = {}
        /\ tasks_notcovered \subseteq Task /\ runq_tasksrun = {}
    BY DEF Init
  <2> QED  BY <1>1, <2>1, <2>3, <2>4, <2>5 DEF SetTypes
<1> QED  BY <1>2, <1>3, <1>4 DEF TypeInv

\* The bookkeeping of the setscene queue: every set holds what it is meant to, the graph
\* is that of the paths, and a task is decided one way.
THEOREM BookkeepingCorrect == Spec => []Bookkeeping
<1>1. OrderInv /\ SceneInv /\ Collapsed /\ TypeInv /\ [Next]_vars => TypeInv'
  BY HashTyped, ControlTyped, SetsTyped, SceneInvNotStranded DEF TypeInv
<1>2. OrderInv /\ SceneInv /\ Collapsed /\ TypeInv => Bookkeeping
  BY TypesOK, SceneInvWaits DEF Bookkeeping
<1> QED  BY <1>1, <1>2, RunAlways, CollapsedInit, TypeInit, GraphStays, PTL DEF Spec

-----------------------------------------------------------------------------
(* The refinement of BuildOrder.                                           *)

StatusOf == [t \in Task |-> Status(t)]

\* A step that moves one task.
LEMMA OneMoves ==
    ASSUME NEW t \in Task, NEW next, Status(t)' = next,
           \A u \in Task \ {t} : Status(u)' = Status(u)
    PROVE  StatusOf' = [StatusOf EXCEPT ![t] = next]
BY DEF StatusOf

\* The step of BuildOrder each moving action is.
LEMMA MovingImplements ==
    ASSUME OrderInv, NEW t \in Task, Moving(t)
    PROVE  Order!Next
<1> USE DEF OrderInv, TasksApart
<1>1. rqdata' = rqdata /\ \A u \in Task \ {t} : Status(u)' = Status(u)
  <2>1. CASE SkipTask(t) \/ NoexecTask(t)
    BY <2>1, Skipped DEF CompleteOutright, Status
  <2>2. CASE StartTask(t)
    BY <2>2, Started DEF Status
  <2>3. CASE TaskCompleted(t)
    BY <2>3, Completed DEF CompleteOutright, Status
  <2>4. CASE TaskFailed(t)
    BY <2>4, Failed DEF Status
  <2> QED  BY <2>1, <2>2, <2>3, <2>4 DEF Moving
<1>2. ASSUME t \in runq_buildable \ runq_running
      PROVE  Order!Ready(t)
  <2>1. StatusOf[t] = "todo"
    BY <1>2 DEF StatusOf, Status
  <2>2. \A d \in rqdata.depends[t] : StatusOf[d] = "done"
    BY <1>2, DependsType DEF StatusOf, Status, Satisfied
  <2> QED  BY <2>1, <2>2 DEF Order!Ready, StatusOf
<1>3. CASE SkipTask(t) \/ NoexecTask(t)
  <2>1. Status(t)' = "done" /\ t \in runq_buildable \ runq_running
    BY <1>3, Skipped DEF CompleteOutright, Status
  <2>2. Order!Skip(t)
    BY <1>1, <1>2, <2>1, OneMoves DEF Order!Skip, Order!Moves, StatusOf
  <2> QED  BY <2>2 DEF Order!Next
<1>4. CASE StartTask(t)
  <2>1. Status(t)' = "running" /\ t \in runq_buildable \ runq_running
    BY <1>4, Started DEF Status
  <2>2. Order!Start(t)
    BY <1>1, <1>2, <2>1, OneMoves DEF Order!Start, Order!Moves, StatusOf
  <2> QED  BY <2>2 DEF Order!Next
<1>5. CASE TaskCompleted(t)
  <2>1. Status(t) = "running" /\ Status(t)' = "done"
    BY <1>5, Completed DEF CompleteOutright, Status, InFlight
  <2>2. Order!Succeed(t)
    BY <1>1, <2>1, OneMoves DEF Order!Succeed, Order!Moves, StatusOf
  <2> QED  BY <2>2 DEF Order!Next
<1>6. CASE TaskFailed(t)
  <2>1. Status(t) = "running" /\ Status(t)' = "failed"
    BY <1>6, Failed DEF Status, InFlight
  <2>2. Order!Fail(t)
    BY <1>1, <2>1, OneMoves DEF Order!Fail, Order!Moves, StatusOf
  <2> QED  BY <2>2 DEF Order!Next
<1> QED  BY <1>3, <1>4, <1>5, <1>6 DEF Moving

LEMMA OrderInitImplements == Init => Order!Init
<1> SUFFICES ASSUME Init PROVE Order!Init
  OBVIOUS
<1>1. rqdata \in Builds /\ runq_running = {} /\ runq_complete = {}
  BY DEF Init
<1> QED  BY <1>1, DependsType DEF Order!Init, Status

LEMMA OrderStepImplements ==
    OrderInv /\ NeverStranded /\ [Next]_vars
        => [Order!Next]_<<rqdata.depends, [t \in Task |-> Status(t)]>>
<1> SUFFICES ASSUME OrderInv, NeverStranded, [Next]_vars,
                    ~\E t \in Task : Moving(t)
             PROVE  UNCHANGED <<rqdata.depends, [t \in Task |-> Status(t)]>>
  BY MovingImplements
<1>1. UNCHANGED <<rqdata, runq_running, runq_complete, failed_tids>>
  BY NextSplit, StillKeeps, NothingStranded DEF vars, runq
<1> QED  BY <1>1 DEF Status

\* Tasks are begun once and in the order of their dependencies.
THEOREM OrderCorrect == Spec => BuildsInOrder
BY RunAlways, SceneInvNotStranded, OrderInitImplements, OrderStepImplements, PTL
DEF Spec, BuildsInOrder, Order!Spec

-----------------------------------------------------------------------------
(* The workers.                                                            *)

WorkInv == WorkersCounted /\ active \in Nat /\ sq_live \subseteq Task

\* What runs is finite, so it can be counted.
LEMMA Finite == OrderInv /\ WorkInv => IsFiniteSet(InFlight) /\ IsFiniteSet(sq_live)
BY TaskAssumption, FS_Subset DEF OrderInv, TasksApart, WorkInv, InFlight

\* A setscene task is started only while there is a thread for it.
LEMMA LiveSteps ==
    ASSUME Still
    PROVE  \/ sq_live' \subseteq sq_live
           \/ CanStart(active, sq_live) /\ \E t \in Task : sq_live' = sq_live \cup {t}
<1>1. CASE Rehash \/ Migrate \/ UpdateHoldoff \/ SetsceneDone \/ Wait \/ ForceDeferred
           \/ BuildOver \/ Finish \/ StopBuild \/ Over
  BY <1>1 DEF Rehash, Migrate, UpdateHoldoff, SetsceneDone, Wait, ForceDeferred,
              BuildOver, Finish, StopBuild, Over, scene, vars
<1>2. ASSUME NEW t \in Task,
             SkipUnneeded(t) \/ DeferHard(t) \/ SceneDecided(t) \/ SceneCompleted(t) \/ SceneFailed(t)
      PROVE  sq_live' \subseteq sq_live
  BY <1>2 DEF SkipUnneeded, DeferHard, SceneDecided, SceneCompleted, SceneFailed
<1>3. ASSUME NEW t \in Task, StartSetscene(t)
      PROVE  CanStart(active, sq_live) /\ sq_live' = sq_live \cup {t}
  BY <1>3 DEF StartSetscene, SceneChosen, SceneTurn, SceneCandidates
<1>4. ASSUME NEW t \in Task, NEW h \in Unihash, UnihashReported(t, h)
      PROVE  sq_live' = sq_live
  BY <1>4 DEF UnihashReported, scene
<1> QED  BY <1>1, <1>2, <1>3, <1>4 DEF Still

LEMMA WorkInit == Init => WorkInv
<1> SUFFICES ASSUME Init PROVE WorkInv
  OBVIOUS
<1>1. sq_live = {} /\ runq_running = {} /\ active = 0
  BY DEF Init
<1> QED  BY <1>1, FS_EmptySet, NumberAssumption DEF WorkInv, WorkersCounted, InFlight

LEMMA WorkStep == OrderInv /\ NeverStranded /\ WorkInv /\ [Next]_vars => WorkInv'
<1> SUFFICES ASSUME OrderInv, NeverStranded, WorkInv, [Next]_vars PROVE WorkInv'
  OBVIOUS
<1> USE DEF WorkInv, WorkersCounted
<1>finite. /\ IsFiniteSet(InFlight) /\ IsFiniteSet(sq_live)
           /\ Cardinality(sq_live) \in Nat /\ number_tasks \in Nat
  BY Finite, FS_CardinalityType, NumberAssumption
<1>1. CASE UNCHANGED vars
  BY <1>1 DEF vars, runq, scene, InFlight
<1>2. CASE Still
  <2>1. active' = active /\ InFlight' = InFlight
    BY <1>2, StillKeeps, NothingStranded DEF InFlight
  <2>2. CASE sq_live' \subseteq sq_live
    <3>1. Cardinality(sq_live') <= Cardinality(sq_live) /\ Cardinality(sq_live') \in Nat
      BY <2>2, <1>finite, FS_Subset, FS_CardinalityType
    <3> QED  BY <1>finite, <2>1, <2>2, <3>1
  <2>3. ASSUME CanStart(active, sq_live), NEW t \in Task, sq_live' = sq_live \cup {t}
        PROVE  WorkInv'
    <3>1. Cardinality(sq_live') <= Cardinality(sq_live) + 1 /\ Cardinality(sq_live') \in Nat
      <4>1. Cardinality(sq_live \cup {t}) \in {Cardinality(sq_live), Cardinality(sq_live) + 1}
        BY <1>finite, FS_AddElement
      <4> QED  BY <2>3, <1>finite, <4>1
    <3>2. active + Cardinality(sq_live) < number_tasks
      BY <2>3 DEF CanStart
    <3> QED  BY <1>finite, <2>1, <2>3, <3>1, <3>2
  <2> QED  BY <1>2, <2>2, <2>3, LiveSteps
<1>3. ASSUME NEW t \in Task, Moving(t) PROVE WorkInv'
  <2> USE DEF OrderInv, TasksApart
  <2>1. CASE SkipTask(t) \/ NoexecTask(t)
    <3>1. InFlight' = InFlight
      BY <2>1, Skipped DEF CompleteOutright, InFlight
    <3> QED  BY <2>1, <3>1, Skipped
  <2>2. CASE StartTask(t)
    <3>1. InFlight' = InFlight \cup {t} /\ t \notin InFlight
      BY <2>2, Started DEF InFlight
    <3>2. Cardinality(InFlight') = active + 1
      BY <3>1, <1>finite, FS_AddElement
    <3>3. active + Cardinality(sq_live) < number_tasks
      BY <2>2, Started DEF CanStart
    <3> QED  BY <2>2, <3>2, <3>3, <1>finite, Started
  <2>3. CASE TaskCompleted(t) \/ TaskFailed(t)
    <3>1. InFlight' = InFlight \ {t} /\ t \in InFlight
      BY <2>3, Completed, Failed DEF CompleteOutright, InFlight
    <3>2. active' = active - 1 /\ sq_live' = sq_live
      BY <2>3, Completed, Failed
    <3>3. Cardinality(InFlight') = active - 1 /\ Cardinality(InFlight') \in Nat
      BY <3>1, <1>finite, FS_RemoveElement, FS_CardinalityType
    <3> QED  BY <3>2, <3>3, <1>finite
  <2> QED  BY <1>3, <2>1, <2>2, <2>3 DEF Moving
<1> QED  BY <1>1, <1>2, <1>3, NextSplit

\* Never more tasks on the workers than threads, and active is their number.
THEOREM WorkersCorrect == Spec => []WorkersCounted
<1>1. Spec => []WorkInv
  BY RunAlways, SceneInvNotStranded, WorkInit, WorkStep, PTL DEF Spec
<1>2. WorkInv => WorkersCounted
  BY DEF WorkInv
<1> QED  BY <1>1, <1>2, PTL

-----------------------------------------------------------------------------
(* The recursions over the graph that go by a condition.                    *)

\* A monotone function on the subsets of S has a fixed point.
LEMMA FixedPoint ==
    ASSUME NEW S, NEW F \in [SUBSET S -> SUBSET S],
           \A X, Y \in SUBSET S : X \subseteq Y => F[X] \subseteq F[Y]
    PROVE  \E X \in SUBSET S : F[X] = X
<1> DEFINE least == {y \in S : \A X \in SUBSET S : F[X] \subseteq X => y \in X}
<1>1. least \in SUBSET S
  OBVIOUS
<1>2. \A X \in SUBSET S : F[X] \subseteq X => least \subseteq X
  OBVIOUS
<1>3. \A y \in S : y \notin least => \E X \in SUBSET S : F[X] \subseteq X /\ y \notin X
  OBVIOUS
<1> HIDE DEF least
<1>4. F[least] \subseteq least
  <2> SUFFICES ASSUME NEW y \in F[least], y \notin least PROVE FALSE
    OBVIOUS
  <2>1. PICK X \in SUBSET S : F[X] \subseteq X /\ y \notin X
    BY <1>1, <1>3
  <2>2. F[least] \subseteq F[X]
    BY <1>1, <1>2, <2>1
  <2> QED  BY <2>1, <2>2
<1>5. F[F[least]] \subseteq F[least]
  BY <1>1, <1>4
<1>6. least \subseteq F[least]
  BY <1>1, <1>2, <1>5
<1> QED  BY <1>1, <1>4, <1>6

\* What tasks_scenequeue_done adds is what was decided, and the plain tasks above which
\* all is done, something of it just now.
LEMMA DoneSolved ==
    ASSUME NEW done, NEW settled \in SUBSET Task
    PROVE  \E new \in SUBSET Task :
               /\ DoneClosure(done, settled) = done \cup new
               /\ \A d \in Task : d \in new <=>
                      \/ d \in settled
                      \/ /\ d \notin rqdata.setscene \cup done
                         /\ \E u \in Above(d) : u \in new
                         /\ \A u \in Above(d) \ done : u \in new
<1> DEFINE Rule(d, X) ==
               \/ d \in settled
               \/ /\ d \notin rqdata.setscene \cup done
                  /\ \E u \in Above(d) : u \in X
                  /\ \A u \in Above(d) \ done : u \in X
           F == [X \in SUBSET Task |-> {d \in Task : Rule(d, X)}]
           Solves(g) == g = [d \in Task |->
                               \/ d \in settled
                               \/ /\ d \notin rqdata.setscene \cup done
                                  /\ \E u \in Above(d) : g[u]
                                  /\ \A u \in Above(d) \ done : g[u]]
           new[d \in Task] ==
               \/ d \in settled
               \/ /\ d \notin rqdata.setscene \cup done
                  /\ \E u \in Above(d) : new[u]
                  /\ \A u \in Above(d) \ done : new[u]
<1>0. \A d \in Task : Above(d) \subseteq Task
  BY DEF Above, Revdeps
<1>1. \E X \in SUBSET Task : F[X] = X
  <2>1. F \in [SUBSET Task -> SUBSET Task]
    OBVIOUS
  <2>2. ASSUME NEW X \in SUBSET Task, NEW Y \in SUBSET Task, X \subseteq Y, NEW d \in Task, Rule(d, X)
        PROVE  Rule(d, Y)
    BY <2>2
  <2>3. \A X, Y \in SUBSET Task : X \subseteq Y => F[X] \subseteq F[Y]
    <3> HIDE DEF Rule
    <3> QED  BY <2>2
  <2> HIDE DEF F
  <2> QED  BY <2>1, <2>3, FixedPoint
<1>2. PICK X \in SUBSET Task : F[X] = X
  BY <1>1
<1>3. \A d \in Task : d \in X <=> Rule(d, X)
  <2> HIDE DEF Rule
  <2> QED  BY <1>2
<1> DEFINE solution == [d \in Task |-> d \in X]
<1>4. Solves(solution)
  <2>1. ASSUME NEW d \in Task
        PROVE  (d \in X) = (\/ d \in settled
                            \/ /\ d \notin rqdata.setscene \cup done
                               /\ (\E u \in Above(d) : solution[u])
                               /\ (\A u \in Above(d) \ done : solution[u]))
    <3>1. \A u \in Above(d) : solution[u] <=> u \in X
      BY <1>0, Zenon
    <3>2. d \in X <=> Rule(d, X)
      BY <1>3
    <3> HIDE DEF solution
    <3>3. d \in X <=> \/ d \in settled
                      \/ /\ d \notin rqdata.setscene \cup done
                         /\ (\E u \in Above(d) : solution[u])
                         /\ (\A u \in Above(d) \ done : solution[u])
      BY <3>1, <3>2, Zenon
    <3>4. (d \in X) = (\/ d \in settled
                      \/ /\ d \notin rqdata.setscene \cup done
                         /\ (\E u \in Above(d) : solution[u])
                         /\ (\A u \in Above(d) \ done : solution[u]))
      BY <3>3
    <3> QED  BY <3>4
  <2> QED  BY <2>1, Zenon
<1>5. Solves(new)
  <2> HIDE DEF solution
  <2>1. \E g : Solves(g)
    BY <1>4, Zenon
  <2> QED  BY <2>1, Zenon
<1> DEFINE added == {d \in Task : new[d]}
<1>6. DoneClosure(done, settled) = done \cup added
  BY DEF DoneClosure
<1> HIDE DEF new
<1>7. ASSUME NEW d \in Task PROVE d \in added <=> Rule(d, added)
  <2>1. \A u \in Above(d) : new[u] <=> u \in added
    BY <1>0
  <2>2. new[d] = (\/ d \in settled
                  \/ /\ d \notin rqdata.setscene \cup done
                     /\ \E u \in Above(d) : new[u]
                     /\ \A u \in Above(d) \ done : new[u])
    BY <1>5, Zenon
  <2>3. d \in added <=> new[d]
    OBVIOUS
  <2> HIDE DEF added
  <2> QED  BY <2>1, <2>2, <2>3, Zenon
<1>8. added \in SUBSET Task
  OBVIOUS
<1> HIDE DEF added
<1> QED  BY <1>6, <1>7, <1>8

\* TasksAbove is closed under the dependencies.
LEMMA AboveClosed ==
    ASSUME NEW t, rqdata.depends \in [Task -> SUBSET Task], NEW u \in Task, NEW d \in rqdata.depends[u],
           d = t \/ d \in TasksAbove(t)
    PROVE  u \in TasksAbove(t)
<1> DEFINE Rule(v, X) == t \in rqdata.depends[v] \/ \E e \in rqdata.depends[v] : e \in X
           F == [X \in SUBSET Task |-> {v \in Task : Rule(v, X)}]
           Solves(g) == g = [v \in Task |-> t \in rqdata.depends[v] \/ \E e \in rqdata.depends[v] : g[e]]
           above[v \in Task] == t \in rqdata.depends[v] \/ \E e \in rqdata.depends[v] : above[e]
<1>0. \A v \in Task : rqdata.depends[v] \subseteq Task
  OBVIOUS
<1>1. \E X \in SUBSET Task : F[X] = X
  <2>1. F \in [SUBSET Task -> SUBSET Task]
    OBVIOUS
  <2>2. ASSUME NEW X \in SUBSET Task, NEW Y \in SUBSET Task, X \subseteq Y, NEW v \in Task, Rule(v, X)
        PROVE  Rule(v, Y)
    BY <2>2
  <2>3. \A X, Y \in SUBSET Task : X \subseteq Y => F[X] \subseteq F[Y]
    <3> HIDE DEF Rule
    <3> QED  BY <2>2
  <2> HIDE DEF F
  <2> QED  BY <2>1, <2>3, FixedPoint
<1>2. PICK X \in SUBSET Task : F[X] = X
  BY <1>1
<1>3. \A v \in Task : v \in X <=> Rule(v, X)
  <2> HIDE DEF Rule
  <2> QED  BY <1>2
<1> DEFINE solution == [v \in Task |-> v \in X]
<1>4. Solves(solution)
  <2>1. ASSUME NEW v \in Task
        PROVE  (v \in X) = (t \in rqdata.depends[v] \/ \E e \in rqdata.depends[v] : solution[e])
    <3>1. \A e \in rqdata.depends[v] : solution[e] <=> e \in X
      BY <1>0, Zenon
    <3>2. v \in X <=> Rule(v, X)
      BY <1>3
    <3> HIDE DEF solution
    <3>3. v \in X <=> t \in rqdata.depends[v] \/ \E e \in rqdata.depends[v] : solution[e]
      BY <3>1, <3>2, Zenon
    <3> QED  BY <3>3
  <2> QED  BY <2>1, Zenon
<1>5. Solves(above)
  <2> HIDE DEF solution
  <2>1. \E g : Solves(g)
    BY <1>4, Zenon
  <2> QED  BY <2>1, Zenon
<1>6. TasksAbove(t) = {v \in Task : above[v]}
  BY DEF TasksAbove
<1> HIDE DEF above
<1>7. d = t \/ above[d]
  BY <1>6
<1>8. above[u] = (t \in rqdata.depends[u] \/ \E e \in rqdata.depends[u] : above[e])
  BY <1>5, Zenon
<1>9. above[u]
  BY <1>7, <1>8, Zenon
<1> QED  BY <1>6, <1>9

LEMMA LeastTask ==
    ASSUME NEW S \in SUBSET Task, S # {}, NEW weight \in [Task -> Nat]
    PROVE  \E t \in S : \A u \in S : weight[t] <= weight[u]
<1> DEFINE W == {weight[t] : t \in S}
<1>1. W \in SUBSET Nat /\ W # {}
  OBVIOUS
<1>2. PICK w \in W : \A y \in W : w <= y
  <2> HIDE DEF W
  <2> QED  BY <1>1, LeastNumber
<1>3. PICK t \in S : w = weight[t]
  OBVIOUS
<1>4. \A u \in S : weight[u] \in W
  OBVIOUS
<1> HIDE DEF W
<1> QED  BY <1>2, <1>3, <1>4

LEMMA GreatestTask ==
    ASSUME NEW S \in SUBSET Task, S # {}, NEW N \in Nat, NEW weight \in [Task -> 1 .. N]
    PROVE  \E t \in S : \A u \in S : weight[u] <= weight[t]
<1> DEFINE height == [t \in Task |-> N - weight[t]]
<1>1. height \in [Task -> Nat]
  OBVIOUS
<1>2. \A t \in S : height[t] = N - weight[t]
  OBVIOUS
<1> HIDE DEF height
<1>3. PICK t \in S : \A u \in S : height[t] <= height[u]
  BY <1>1, LeastTask
<1> QED  BY <1>2, <1>3

\* Weights that grow along the edges, also those of the collapsed graph.
Weighs(weight, N) ==
    /\ N \in Nat /\ weight \in [Task -> 1 .. N]
    /\ \A t \in Task : \A d \in rqdata.depends[t] : weight[d] < weight[t]
    /\ \A t \in rqdata.setscene : \A s \in sqdata.revdeps[t] : s \in rqdata.setscene /\ weight[t] < weight[s]

\* A plain task is covered by a setscene task or cannot be skipped, and is covered from
\* above.
PlainFacts ==
    /\ \E weight, N : Weighs(weight, N)
    /\ \A d \in Task \ rqdata.setscene :
          /\ Above(d) = {} => d \in sqdata.unskippable
          /\ d \in sqdata.unskippable \/ \E s \in rqdata.setscene : d \in sqdata.covered[s]
    /\ \A s \in rqdata.setscene : \A d \in sqdata.covered[s] : \E u \in Above(d) : u \in Replaced(s)

LEMMA PlainRight ==
    ASSUME rqdata \in Builds, Collapsed, UnskippableRight
    PROVE  PlainFacts
<1> DEFINE reach(t) == Reach(rqdata.depends, rqdata.setscene, t)
           N == Cardinality(Task)
<1>1. /\ rqdata.depends \in [Task -> SUBSET Task] /\ Acyclic(rqdata.depends)
      /\ rqdata.setscene \subseteq Task /\ N \in Nat
  BY DependsType, HardType, BuildsAssumption, FS_CardinalityType, TaskAssumption
<1>2. /\ \A t \in rqdata.setscene : sqdata.revdeps[t] = {s \in rqdata.setscene : t \in reach(s)}
      /\ \A s \in rqdata.setscene : sqdata.covered[s] = reach(s) \ rqdata.setscene
  BY <1>1 DEF Collapsed, IsCollapsed
<1>3. PICK weight \in [Task -> 1 .. N] :
          \A t \in Task : \A d \in rqdata.depends[t] : weight[d] < weight[t]
  BY <1>1 DEF Acyclic
<1>4. \A s \in Task : reach(s) \subseteq {t \in Task : weight[t] < weight[s]}
  <2> TAKE s \in Task
  <2> DEFINE X == {t \in Task : weight[t] < weight[s]}
  <2>1. rqdata.depends[s] \subseteq X
    BY <1>1, <1>3
  <2>2. \A p \in X \ rqdata.setscene : rqdata.depends[p] \subseteq X
    BY <1>1, <1>3
  <2>3. X \in SUBSET Task
    OBVIOUS
  <2> HIDE DEF X
  <2>4. reach(s) \subseteq X
    BY <1>1, <2>1, <2>2, <2>3, ReachLeast
  <2> QED  BY <2>4 DEF X
<1>5. \A s \in rqdata.setscene : \A d \in reach(s) :
          \E u \in Task : d \in rqdata.depends[u] /\ (u = s \/ u \in reach(s) \ rqdata.setscene)
  <2> TAKE s \in rqdata.setscene
  <2> DEFINE Led(d) == \E u \in Task : d \in rqdata.depends[u] /\ (u = s \/ u \in reach(s) \ rqdata.setscene)
             X == {d \in Task : Led(d)}
  <2>1. rqdata.depends[s] \subseteq X
    BY <1>1
  <2>2. \A p \in X \ rqdata.setscene : p \in reach(s)
    <3> TAKE p \in X \ rqdata.setscene
    <3>1. PICK u \in Task : p \in rqdata.depends[u] /\ (u = s \/ u \in reach(s) \ rqdata.setscene)
      OBVIOUS
    <3>2. CASE u = s
      BY <1>1, <3>1, <3>2, ReachSolved
    <3>3. CASE u \in reach(s) \ rqdata.setscene
      BY <1>1, <3>1, <3>3, ReachClosed
    <3> QED  BY <3>1, <3>2, <3>3
  <2>3. \A p \in X \ rqdata.setscene : rqdata.depends[p] \subseteq X
    <3> HIDE DEF reach
    <3> QED  BY <1>1, <2>2
  <2>4. X \in SUBSET Task
    OBVIOUS
  <2> HIDE DEF X
  <2>5. reach(s) \subseteq X
    BY <1>1, <2>1, <2>3, <2>4, ReachLeast
  <2> QED  BY <2>5 DEF X
<1> HIDE DEF reach
<1>6. Weighs(weight, N)
  BY <1>1, <1>2, <1>3, <1>4 DEF Weighs
<1>7. \A s \in rqdata.setscene : \A d \in sqdata.covered[s] : \E u \in Above(d) : u \in Replaced(s)
  BY <1>2, <1>5 DEF Above, Revdeps, Replaced
<1>8. \A d \in Task : Above(d) = {} => d \in sqdata.unskippable
  BY <1>1, UnskippableClosed DEF UnskippableRight, Above
<1>9. GraphFacts
  BY GraphRight
<1>10. \A d \in Task \ rqdata.setscene : d \in sqdata.unskippable \/ \E s \in rqdata.setscene : d \in sqdata.covered[s]
  <2> DEFINE lost == {d \in Task \ rqdata.setscene :
                        ~(d \in sqdata.unskippable \/ \E s \in rqdata.setscene : d \in sqdata.covered[s])}
  <2> SUFFICES ASSUME lost # {} PROVE FALSE
    OBVIOUS
  <2>1. lost \in SUBSET Task
    OBVIOUS
  <2>2. PICK d \in lost : \A u \in lost : weight[u] <= weight[d]
    <3> HIDE DEF lost, N
    <3> QED  BY <1>1, <2>1, GreatestTask
  <2>3. PICK u \in Above(d) : TRUE
    BY <1>8
  <2>4. u \in Task /\ d \in rqdata.depends[u] /\ weight[d] < weight[u]
    BY <1>3 DEF Above, Revdeps
  <2>5. u \in lost
    <3>1. CASE u \in rqdata.setscene
      BY <1>9, <2>2, <2>4, <3>1 DEF GraphFacts, Replaced
    <3>2. CASE u \notin rqdata.setscene /\ u \in sqdata.unskippable
      BY <1>9, <2>2, <2>4, <3>2 DEF GraphFacts
    <3>3. CASE u \notin rqdata.setscene /\ \E s \in rqdata.setscene : u \in sqdata.covered[s]
      BY <1>9, <2>2, <2>4, <3>3 DEF GraphFacts, Replaced
    <3> QED  BY <2>4, <3>1, <3>2, <3>3
  <2>6. weight[u] <= weight[d]
    BY <2>2, <2>5
  <2>7. weight[u] \in Nat /\ weight[d] \in Nat
    BY <2>2, <2>4
  <2> QED  BY <2>4, <2>6, <2>7
<1> QED  BY <1>6, <1>7, <1>8, <1>10 DEF PlainFacts

-----------------------------------------------------------------------------
(* What the decisions leave.                                               *)

DecidedIn(s) == s.covered \cup s.notcovered

\* A plain task is done when all above it is.
DoneClosed(done) ==
    \A d \in Task \ rqdata.setscene : Above(d) # {} /\ Above(d) \subseteq done => d \in done

\* The setscene queue s is up to date, but for the tasks of late: what is decided is
\* buildable and done, and so is what nothing undecided is above; what is deferred for a
\* hard dependency has one that is undecided; and what runs is on a worker.
Tidy(s, late, live) ==
    /\ DecidedIn(s) \subseteq s.buildable \cap s.done
    /\ \A t \in rqdata.setscene \ late : sqdata.revdeps[t] \subseteq DecidedIn(s) => t \in s.buildable
    /\ DoneClosed(s.done)
    /\ sqdata.unskippable \ rqdata.setscene \subseteq s.done
    /\ \A d \in s.harddep_deferred : ~(rqdata.hard[d] \subseteq DecidedIn(s))
    /\ s.running \subseteq DecidedIn(s) \cup live

\* Following the chains keeps what is done closed.
LEMMA DoneGrows ==
    ASSUME NEW done, NEW settled \in SUBSET Task, DoneClosed(done)
    PROVE  /\ done \cup settled \subseteq DoneClosure(done, settled)
           /\ DoneClosed(DoneClosure(done, settled))
<1>1. PICK new \in SUBSET Task :
               /\ DoneClosure(done, settled) = done \cup new
               /\ \A d \in Task : d \in new <=>
                      \/ d \in settled
                      \/ /\ d \notin rqdata.setscene \cup done
                         /\ \E u \in Above(d) : u \in new
                         /\ \A u \in Above(d) \ done : u \in new
  BY DoneSolved
<1>2. settled \subseteq new
  BY <1>1
<1>3. ASSUME NEW d \in Task \ rqdata.setscene, Above(d) # {}, Above(d) \subseteq done \cup new
      PROVE  d \in done \cup new
  <2>1. CASE Above(d) \subseteq done
    BY <1>3, <2>1 DEF DoneClosed
  <2>2. CASE ~(Above(d) \subseteq done)
    BY <1>1, <1>3, <2>2
  <2> QED  BY <2>1, <2>2
<1> QED  BY <1>1, <1>2, <1>3 DEF DoneClosed

LEMMA SettleTidies ==
    ASSUME rqdata \in Builds, NEW s, IsScene(s), NEW late, NEW live, Tidy(s, late, live),
           NEW cov \in SUBSET rqdata.setscene, NEW fails \in SUBSET rqdata.setscene
    PROVE  /\ Tidy(Settle(s, cov, fails), late \ (cov \cup fails), live \ (cov \cup fails))
           /\ s.buildable \subseteq Settle(s, cov, fails).buildable
           /\ Settle(s, cov, fails).harddep_deferred \subseteq s.harddep_deferred
<1> DEFINE failed == FailClosure(s, fails)
           settled == cov \cup failed
           over == DecidedIn(s) \cup settled
           ready == {d \in rqdata.setscene : /\ sqdata.revdeps[d] \cap settled # {}
                                             /\ sqdata.revdeps[d] \subseteq over}
           waited == \E t \in settled : HardDependents(t) # {}
           r == Settle(s, cov, fails)
<1>1. /\ r.covered = s.covered \cup cov /\ r.notcovered = s.notcovered \cup failed
      /\ r.running = s.running \cup settled
      /\ r.buildable = s.buildable \cup settled \cup ready
      /\ r.done = DoneClosure(s.done, settled)
      /\ r.harddep_deferred = IF waited THEN {d \in s.harddep_deferred : ~(rqdata.hard[d] \subseteq over)}
                                        ELSE s.harddep_deferred
  <2>1. over = s.covered \cup cov \cup (s.notcovered \cup failed)
    BY DEF DecidedIn
  <2> QED  BY <2>1 DEF Settle
<1>2. failed \subseteq rqdata.setscene /\ fails \subseteq failed /\ rqdata.setscene \subseteq Task
  BY FailsCaused, HardType
<1>3. settled \in SUBSET Task /\ settled \subseteq rqdata.setscene /\ cov \cup fails \subseteq settled
  BY <1>2
<1>4. DecidedIn(r) = over
  BY <1>1 DEF DecidedIn
<1> HIDE DEF failed, r
<1>5. /\ s.done \cup settled \subseteq r.done /\ DoneClosed(r.done)
  BY <1>1, <1>3, DoneGrows DEF Tidy
<1> HIDE DEF settled
<1>6. DecidedIn(r) \subseteq r.buildable \cap r.done
  BY <1>1, <1>4, <1>5 DEF Tidy
<1>7. \A t \in rqdata.setscene \ (late \ (cov \cup fails)) :
          sqdata.revdeps[t] \subseteq DecidedIn(r) => t \in r.buildable
  <2> SUFFICES ASSUME NEW t \in rqdata.setscene, t \notin late, sqdata.revdeps[t] \subseteq over,
                      t \notin settled
               PROVE  t \in r.buildable
    BY <1>1, <1>3, <1>4
  <2>1. CASE sqdata.revdeps[t] \cap settled # {}
    BY <1>1, <2>1
  <2>2. CASE sqdata.revdeps[t] \cap settled = {}
    BY <1>1, <2>2 DEF Tidy
  <2> QED  BY <2>1, <2>2
<1>8. \A d \in r.harddep_deferred : ~(rqdata.hard[d] \subseteq over)
  <2> SUFFICES ASSUME ~waited, NEW d \in s.harddep_deferred, rqdata.hard[d] \subseteq over
               PROVE  FALSE
    BY <1>1
  <2>1. d \in rqdata.setscene
    BY DEF IsScene
  <2>2. PICK h \in rqdata.hard[d] : h \in settled
    BY DEF Tidy
  <2>3. d \in HardDependents(h)
    BY <2>1, <2>2 DEF HardDependents
  <2> QED  BY <2>2, <2>3
<1>9. r.running \subseteq DecidedIn(r) \cup (live \ (cov \cup fails))
  BY <1>1, <1>3, <1>4 DEF Tidy
<1>10. /\ s.buildable \subseteq r.buildable /\ r.harddep_deferred \subseteq s.harddep_deferred
       /\ sqdata.unskippable \ rqdata.setscene \subseteq r.done
  BY <1>1, <1>5 DEF Tidy
<1> QED  BY <1>4, <1>5, <1>6, <1>7, <1>8, <1>9, <1>10 DEF Tidy, r

LEMMA UpdateTidies ==
    ASSUME rqdata \in Builds, NEW s, IsScene(s), NEW late, NEW live, Tidy(s, late, live), NEW fails,
           NEW tids \in SUBSET rqdata.setscene, NEW deferred, NEW cache,
           NEW update, update = UpdateScenequeue(s, fails, tids, deferred, cache)
    PROVE  /\ Tidy(update.sq, late, live) /\ IsScene(update.sq)
           /\ s.buildable \subseteq update.sq.buildable
           /\ update.sq.harddep_deferred \subseteq s.harddep_deferred
<1> DEFINE here == {t \in tids : StampPresent(t)}
           settled == Settle(s, here, {})
<1>1. update.sq = IF here = {} THEN s ELSE settled
  BY DEF UpdateScenequeue
<1>2. here \in SUBSET rqdata.setscene /\ {} \in SUBSET rqdata.setscene
  OBVIOUS
<1> HIDE DEF here
<1>3. /\ Tidy(settled, late \ (here \cup {}), live \ (here \cup {}))
      /\ s.buildable \subseteq settled.buildable
      /\ settled.harddep_deferred \subseteq s.harddep_deferred
  BY <1>2, SettleTidies
<1>4. IsScene(settled)
  BY <1>2, SettleDecides DEF Decides
<1> HIDE DEF settled
<1>5. Tidy(settled, late, live)
  BY <1>3 DEF Tidy
<1> QED  BY <1>1, <1>3, <1>4, <1>5

\* What migrates is taken out with all that it alone has settled.
LEMMA TakenOutTidy ==
    ASSUME OrderInv, SceneInv, GraphFacts, PlainFacts, Tidy(sq, {}, sq_live),
           NEW tids \in SUBSET rqdata.setscene
    PROVE  Tidy(TakenOut(tids), tids, sq_live) /\ IsScene(TakenOut(tids))
<1> DEFINE s == TakenOut(tids)
           below == UNION {sqdata.covered[t] : t \in tids}
           gone == tids \cup (below \ (runq_complete \cup sqdata.unskippable))
<1>1. /\ s.covered = sq.covered \ tids /\ s.notcovered = sq.notcovered \ tids
      /\ s.running = sq.running \ tids /\ s.buildable = sq.buildable \ tids
      /\ s.harddep_deferred = sq.harddep_deferred /\ s.done = sq.done \ gone
      /\ s = [buildable |-> s.buildable, running |-> s.running, covered |-> s.covered,
            notcovered |-> s.notcovered, done |-> s.done, harddep_deferred |-> s.harddep_deferred]
  BY DEF TakenOut
<1> HIDE DEF s
<1>2. IsScene(s)
  BY <1>1 DEF SceneInv, SceneTypes, IsScene
<1>3. DecidedIn(s) = DecidedIn(sq) \ tids /\ DecidedIn(sq) \subseteq rqdata.setscene
  BY <1>1 DEF DecidedIn, SceneInv, SceneTypes, IsScene
<1>4. below \cap rqdata.setscene = {}
  BY DEF GraphFacts
<1>5. DecidedIn(s) \subseteq s.buildable \cap s.done
  BY <1>1, <1>3, <1>4 DEF Tidy
<1>6. \A t \in rqdata.setscene \ tids : sqdata.revdeps[t] \subseteq DecidedIn(s) => t \in s.buildable
  BY <1>1, <1>3 DEF Tidy
<1>7. DoneClosed(s.done)
  <2> SUFFICES ASSUME NEW d \in Task \ rqdata.setscene, Above(d) # {}, Above(d) \subseteq s.done,
                      d \notin s.done
               PROVE  FALSE
    BY DEF DoneClosed
  <2>1. d \in sq.done
    BY <1>1 DEF Tidy, DoneClosed
  <2>2. d \in below \ (runq_complete \cup sqdata.unskippable)
    BY <1>1, <2>1
  <2>3. PICK t \in tids : d \in sqdata.covered[t]
    BY <2>2
  <2>4. PICK u \in Above(d) : u \in Replaced(t)
    BY <2>3 DEF PlainFacts
  <2>5. u \in s.done
    BY <2>4
  <2>6. u \in sqdata.covered[t] /\ u \in runq_complete \cup sqdata.unskippable
    BY <1>1, <2>4, <2>5 DEF Replaced
  <2>7. d \in rqdata.depends[u]
    BY <2>4 DEF Above, Revdeps
  <2>8. u \notin sqdata.unskippable
    BY <1>4, <2>2, <2>6, <2>7 DEF GraphFacts
  <2>9. u \notin runq_complete
    BY <2>2, <2>7 DEF OrderInv, TasksApart, Satisfied
  <2> QED  BY <2>6, <2>8, <2>9
<1>8. sqdata.unskippable \ rqdata.setscene \subseteq s.done
  BY <1>1 DEF Tidy
<1>9. \A d \in s.harddep_deferred : ~(rqdata.hard[d] \subseteq DecidedIn(s))
  BY <1>1, <1>3 DEF Tidy
<1>10. s.running \subseteq DecidedIn(s) \cup sq_live
  BY <1>1, <1>3 DEF Tidy
<1> QED  BY <1>2, <1>5, <1>6, <1>7, <1>8, <1>9, <1>10 DEF Tidy, s

LEMMA PutBackTidies ==
    ASSUME OrderInv, SceneInv, GraphFacts, PlainFacts, Tidy(sq, {}, sq_live),
           NEW tids \in SUBSET rqdata.setscene, NEW deferred
    PROVE  Tidy(PutBack(tids, deferred).sq, {}, sq_live)
<1> DEFINE s == TakenOut(tids)
           harddepfail == {t \in tids : rqdata.hard[t] \cap s.notcovered # {}}
           ready == {t \in tids : \/ sqdata.revdeps[t] = {}
                                  \/ /\ t \notin harddepfail
                                     /\ sqdata.revdeps[t] \subseteq s.covered \cup s.notcovered}
           start == [s EXCEPT !.buildable = @ \cup ready]
           update == UpdateScenequeue(start, outrightfail \ tids, tids, deferred, sstate)
           back == PutBack(tids, deferred)
<1>1. back.sq = IF harddepfail = {} THEN update.sq ELSE Settle(update.sq, {}, harddepfail)
  BY DEF PutBack, UpdateScenequeue
<1>2. Tidy(s, tids, sq_live) /\ IsScene(s)
  BY TakenOutTidy
<1> HIDE DEF s
<1>3. harddepfail \in SUBSET rqdata.setscene /\ ready \subseteq rqdata.setscene
  OBVIOUS
<1>4. \A t \in tids \ harddepfail : sqdata.revdeps[t] \subseteq DecidedIn(s) => t \in ready
  BY DEF DecidedIn
<1>5. update = UpdateScenequeue(start, outrightfail \ tids, tids, deferred, sstate)
  OBVIOUS
<1> HIDE DEF harddepfail, ready, update, back
<1>6. /\ start.covered = s.covered /\ start.notcovered = s.notcovered /\ start.running = s.running
      /\ start.done = s.done
      /\ start.buildable = s.buildable \cup ready /\ start.harddep_deferred = s.harddep_deferred
      /\ start = [buildable |-> start.buildable, running |-> start.running, covered |-> start.covered,
            notcovered |-> start.notcovered, done |-> start.done, harddep_deferred |-> start.harddep_deferred]
  BY <1>2 DEF IsScene
<1> HIDE DEF start
<1>7. IsScene(start)
  BY <1>2, <1>3, <1>6 DEF IsScene
<1>8. DecidedIn(start) = DecidedIn(s)
  BY <1>6 DEF DecidedIn
<1>9. Tidy(start, harddepfail, sq_live)
  BY <1>2, <1>4, <1>6, <1>8 DEF Tidy
<1>10. Tidy(update.sq, harddepfail, sq_live) /\ IsScene(update.sq)
  BY <1>5, <1>7, <1>9, UpdateTidies DEF SceneInv
<1>11. Tidy(Settle(update.sq, {}, harddepfail), harddepfail \ ({} \cup harddepfail), sq_live \ ({} \cup harddepfail))
  BY <1>3, <1>10, SettleTidies DEF SceneInv
<1>12. Tidy(Settle(update.sq, {}, harddepfail), {}, sq_live)
  BY <1>11 DEF Tidy
<1>13. CASE harddepfail = {}
  BY <1>1, <1>10, <1>13 DEF back
<1>14. CASE harddepfail # {}
  BY <1>1, <1>12, <1>14 DEF back
<1> QED  BY <1>13, <1>14

-----------------------------------------------------------------------------
(* The setscene queue is kept up to date.                                  *)

\* The hard dependencies of a deferred task are buildable.
HardNeeded ==
    /\ \A d \in sq.harddep_deferred : rqdata.hard[d] \subseteq sq_needed_harddeps
    /\ sq_needed_harddeps \subseteq sq.buildable

\* sqdone is set when all is decided, and never in a build of the setscene tasks only
\* that has some.
DoneRight == sqdone => Undecided = {} /\ ("setsceneonly" \in rqdata.flags => rqdata.setscene = {})

\* Unless an update is due, nothing is held back once all is decided, and what is done is
\* to be skipped or run.
HoldoffExact ==
    ~holdoff_need_update =>
        /\ Undecided = {} => holdoff_tasks = {}
        /\ \A t \in sq.done :
              t \in sqdata.unskippable \ rqdata.setscene \/ (\E s \in DecidedIn(sq) : t \in Replaced(s))
                  => t \in tasks_covered \cup tasks_notcovered

TidyInv == Tidy(sq, {}, sq_live) /\ HardNeeded /\ DoneRight /\ HoldoffExact

\* Steps that decide more, or move a task to a worker.
LEMMA TidyGrows ==
    ASSUME TidyInv, UNCHANGED <<rqdata, sqdata, sqdone>>,
           Tidy(sq', {}, sq_live'), HardNeeded',
           sq.covered \subseteq sq'.covered, sq.notcovered \subseteq sq'.notcovered,
           ~holdoff_need_update' =>
               /\ ~holdoff_need_update /\ UNCHANGED <<holdoff_tasks, tasks_covered, tasks_notcovered>>
               /\ sq'.covered = sq.covered /\ sq'.notcovered = sq.notcovered /\ sq'.done = sq.done
    PROVE  TidyInv'
<1> USE DEF TidyInv
<1>1. Tidy(sq, {}, sq_live)'
  BY DEF Tidy, DoneClosed, DecidedIn, Above, Revdeps
<1>2. DoneRight'
  BY DEF DoneRight, Undecided
<1>3. HoldoffExact'
  BY DEF HoldoffExact, Undecided, DecidedIn, Replaced
<1> QED  BY <1>1, <1>2, <1>3

LEMMA DecisionTidies ==
    ASSUME SceneInv, TidyInv, NEW t \in Task,
           SceneCompleted(t) \/ SceneFailed(t) \/ SkipUnneeded(t) \/ SceneDecided(t)
    PROVE  TidyInv'
<1>1. /\ UNCHANGED <<rqdata, sqdata, sqdone, sq_needed_harddeps>> /\ holdoff_need_update' = TRUE
      /\ \E cov, fails : /\ {cov, fails} = {{}, {t}}
                         /\ sq' = Settle(sq, cov, fails)
      /\ sq_live' = sq_live \/ sq_live' = sq_live \ {t}
  <2>1. CASE SceneCompleted(t) \/ SceneFailed(t) \/ SkipUnneeded(t)
    <3>1. sq' = Settle(sq, {t}, {}) \/ sq' = Settle(sq, {}, {t})
      BY <2>1 DEF SceneCompleted, SceneFailed, SkipUnneeded
    <3> QED  BY <2>1, <3>1 DEF SceneCompleted, SceneFailed, SkipUnneeded
  <2>2. CASE SceneDecided(t)
    <3>1. sq' = Settle(sq, {t}, {}) \/ sq' = Settle(sq, {}, {t})
      BY <2>2 DEF SceneDecided
    <3> QED  BY <2>2, <3>1 DEF SceneDecided, SceneChosen
  <2> QED  BY <2>1, <2>2
<1>2. t \in rqdata.setscene
  BY TurnOf DEF SceneCompleted, SceneFailed, SkipUnneeded, SceneDecided, SceneChosen, SceneInv, SceneTypes
<1>3. PICK cov, fails : {cov, fails} = {{}, {t}} /\ sq' = Settle(sq, cov, fails)
  BY <1>1
<1>4. /\ cov \in SUBSET rqdata.setscene /\ fails \in SUBSET rqdata.setscene
      /\ cov \cup fails = {t}
  <2>1. (cov = {} /\ fails = {t}) \/ (cov = {t} /\ fails = {})
    BY <1>3
  <2> QED  BY <1>2, <2>1
<1>5. /\ rqdata \in Builds /\ IsScene(sq)
  BY DEF SceneInv, SceneTypes
<1>6. /\ Tidy(sq', {} \ (cov \cup fails), sq_live \ (cov \cup fails))
      /\ sq.buildable \subseteq sq'.buildable
      /\ sq'.harddep_deferred \subseteq sq.harddep_deferred
  BY <1>3, <1>4, <1>5, SettleTidies DEF TidyInv
<1>7. Tidy(sq', {}, sq_live')
  BY <1>1, <1>4, <1>6 DEF Tidy
<1>8. sq.covered \subseteq sq'.covered /\ sq.notcovered \subseteq sq'.notcovered
  <2>1. Decides(sq, sq', cov, fails)
    BY <1>3, <1>4, <1>5, SettleDecides
  <2> QED  BY <2>1 DEF Decides
<1>9. HardNeeded'
  BY <1>1, <1>6 DEF TidyInv, HardNeeded
<1> QED  BY <1>1, <1>7, <1>8, <1>9, TidyGrows

LEMMA DeferHardTidies ==
    ASSUME SceneInv, TidyInv, NEW t \in Task, DeferHard(t)
    PROVE  TidyInv'
<1>1. /\ UNCHANGED <<rqdata, sqdata, sqdone, sq_live, holdoff_need_update>>
      /\ UNCHANGED <<holdoff_tasks, tasks_covered, tasks_notcovered>>
      /\ SceneTurn(t) /\ HardPending(t)
  BY DEF DeferHard, holdoff
<1>2. PICK enabled :
          /\ enabled = rqdata.hard[t] \ sq_needed_harddeps
          /\ sq' = [sq EXCEPT !.buildable = @ \cup enabled, !.harddep_deferred = @ \cup {t}]
          /\ sq_needed_harddeps' = sq_needed_harddeps \cup enabled
  BY DEF DeferHard
<1>3. /\ sq'.buildable = sq.buildable \cup enabled
      /\ sq'.harddep_deferred = sq.harddep_deferred \cup {t}
      /\ sq'.running = sq.running /\ sq'.covered = sq.covered /\ sq'.notcovered = sq.notcovered
      /\ sq'.done = sq.done
  BY <1>2 DEF SceneInv, SceneTypes, IsScene
<1>4. ~(rqdata.hard[t] \subseteq DecidedIn(sq))
  BY <1>1 DEF HardPending, DecidedIn
<1>5. DecidedIn(sq') = DecidedIn(sq)
  BY <1>3 DEF DecidedIn
<1>6. Tidy(sq', {}, sq_live')
  BY <1>1, <1>3, <1>4, <1>5 DEF Tidy, TidyInv
<1>7. HardNeeded'
  BY <1>1, <1>2, <1>3 DEF TidyInv, HardNeeded
<1> QED  BY <1>1, <1>3, <1>6, <1>7, TidyGrows

LEMMA StartSetsceneTidies ==
    ASSUME SceneInv, TidyInv, NEW t \in Task, StartSetscene(t)
    PROVE  TidyInv'
<1>1. /\ UNCHANGED <<rqdata, sqdata, sqdone, sq_needed_harddeps, holdoff_need_update>>
      /\ UNCHANGED <<holdoff_tasks, tasks_covered, tasks_notcovered>>
      /\ sq' = [sq EXCEPT !.running = @ \cup {t}] /\ sq_live' = sq_live \cup {t}
  BY DEF StartSetscene, holdoff
<1>2. /\ sq'.buildable = sq.buildable /\ sq'.harddep_deferred = sq.harddep_deferred
      /\ sq'.running = sq.running \cup {t}
      /\ sq'.covered = sq.covered /\ sq'.notcovered = sq.notcovered /\ sq'.done = sq.done
  BY <1>1 DEF SceneInv, SceneTypes, IsScene
<1>3. DecidedIn(sq') = DecidedIn(sq)
  BY <1>2 DEF DecidedIn
<1>4. Tidy(sq', {}, sq_live')
  BY <1>1, <1>2, <1>3 DEF Tidy, TidyInv
<1>5. HardNeeded'
  BY <1>1, <1>2 DEF TidyInv, HardNeeded
<1> QED  BY <1>1, <1>2, <1>4, <1>5, TidyGrows

LEMMA CompletingTidies ==
    ASSUME SceneInv, TidyInv, NEW t \in Task, SkipTask(t) \/ NoexecTask(t) \/ TaskCompleted(t)
    PROVE  TidyInv'
<1>1. /\ UNCHANGED <<rqdata, sqdata, sqdone, sq_live, sq_needed_harddeps>>
      /\ UNCHANGED <<holdoff_tasks, tasks_covered, tasks_notcovered>>
      /\ \E made, cache : CompleteOutright(t, made, cache)
  BY DEF SkipTask, NoexecTask, TaskCompleted, holdoff
<1>2. PICK made, cache : CompleteOutright(t, made, cache)
  BY <1>1
<1> DEFINE waiting == {d \in DOMAIN sq_deferred : sq_deferred[d] = t}
           first == Min(waiting)
           deferred == [d \in DOMAIN sq_deferred \ {first} |->
                            IF d \in waiting THEN first ELSE sq_deferred[d]]
           update == UpdateScenequeue(sq, outrightfail, {first}, deferred, cache)
<1>3. sq' = sq \/ (waiting # {} /\ sq' = update.sq)
  BY <1>2 DEF CompleteOutright
<1>4. waiting # {} => first \in rqdata.setscene
  <2>1. waiting \subseteq rqdata.setscene /\ rqdata.setscene \subseteq Task
    BY HardType DEF SceneInv, SceneTypes
  <2> HIDE DEF waiting
  <2> QED  BY <2>1, MinOfTasks
<1>5. update = UpdateScenequeue(sq, outrightfail, {first}, deferred, cache)
  OBVIOUS
<1> HIDE DEF waiting, first, deferred, update
<1>6. /\ rqdata \in Builds /\ IsScene(sq) /\ Tidy(sq, {}, sq_live)
  BY DEF SceneInv, SceneTypes, TidyInv
<1>7. /\ Tidy(sq', {}, sq_live') /\ sq.buildable \subseteq sq'.buildable
      /\ sq'.harddep_deferred \subseteq sq.harddep_deferred
  <2>1. CASE sq' = sq
    BY <1>1, <1>6, <2>1
  <2>2. CASE waiting # {} /\ sq' = update.sq
    <3>1. {first} \in SUBSET rqdata.setscene
      BY <1>4, <2>2
    <3>2. /\ Tidy(update.sq, {}, sq_live) /\ sq.buildable \subseteq update.sq.buildable
          /\ update.sq.harddep_deferred \subseteq sq.harddep_deferred
      BY <1>5, <1>6, <3>1, UpdateTidies
    <3> QED  BY <1>1, <2>2, <3>2
  <2> QED  BY <1>3, <2>1, <2>2
<1>8. HardNeeded'
  BY <1>1, <1>7 DEF TidyInv, HardNeeded
<1>9. PICK here : /\ Decides(sq, sq', here, {})
                  /\ ~holdoff_need_update' => ~holdoff_need_update /\ sq' = sq
  BY <1>1, <1>2, CompletingDecides
<1>10. sq.covered \subseteq sq'.covered /\ sq.notcovered \subseteq sq'.notcovered
  BY <1>9 DEF Decides
<1> QED  BY <1>1, <1>7, <1>8, <1>9, <1>10, TidyGrows

LEMMA UpdateHoldoffTidies ==
    ASSUME SceneInv, TidyInv, UpdateHoldoff
    PROVE  TidyInv'
<1> USE DEF TidyInv
<1>1. UNCHANGED <<rqdata, sqdata, sq, sq_live, sqdone, sq_needed_harddeps>>
  BY DEF UpdateHoldoff, scene
<1>2. HoldoffExact'
  <2>1. CASE ~holdoff_need_update
    <3>1. UNCHANGED <<holdoff_tasks, tasks_covered, tasks_notcovered>>
      BY <2>1 DEF UpdateHoldoff, holdoff
    <3> QED  BY <1>1, <2>1, <3>1 DEF HoldoffExact, Undecided, DecidedIn, Replaced
  <2>2. CASE holdoff_need_update
    <3> DEFINE Below(s) == UNION {sqdata.covered[t] : t \in s}
               open == rqdata.setscene \ (sq.covered \cup sq.notcovered)
    <3>1. /\ tasks_covered' = (sq.done \cap (sq.covered \cup Below(sq.covered))) \ tasks_notcovered'
          /\ tasks_notcovered' = sq.done \cap (sq.notcovered \cup Below(sq.notcovered)
                             \cup Cantskip(rqdata.setscene, rqdata.targets)
                             \cup (sqdata.unskippable \ rqdata.setscene))
          /\ holdoff_tasks' = open \cup (Below(open) \ runq_complete)
      BY <2>2 DEF UpdateHoldoff
    <3>2. open = {} => holdoff_tasks' = {}
      <4> HIDE DEF open
      <4> QED  BY <3>1
    <3>3. \A s \in sq.covered : Replaced(s) \subseteq sq.covered \cup Below(sq.covered)
      BY DEF Replaced
    <3>4. \A s \in sq.notcovered : Replaced(s) \subseteq sq.notcovered \cup Below(sq.notcovered)
      BY DEF Replaced
    <3> HIDE DEF Below
    <3>5. \A t \in sq.done :
              t \in sqdata.unskippable \ rqdata.setscene \/ (\E s \in DecidedIn(sq) : t \in Replaced(s))
                  => t \in tasks_covered' \cup tasks_notcovered'
      BY <3>1, <3>3, <3>4 DEF DecidedIn
    <3> QED  BY <1>1, <3>2, <3>5 DEF HoldoffExact, Undecided, DecidedIn, Replaced
  <2> QED  BY <2>1, <2>2
<1>3. Tidy(sq, {}, sq_live)' /\ HardNeeded' /\ DoneRight'
  BY <1>1 DEF Tidy, HardNeeded, DoneRight, DecidedIn, DoneClosed, Above, Revdeps, Undecided
<1> QED  BY <1>2, <1>3

LEMMA MigrateTidies ==
    ASSUME OrderInv, SceneInv, GraphFacts, PlainFacts, TidyInv, Migrate
    PROVE  TidyInv'
<1>1. MigrateTasks
  BY SceneInvNotStranded DEF Migrate, NeverStranded
<1>2. UNCHANGED <<rqdata, sqdata, sq_live, holdoff_tasks, tasks_covered, tasks_notcovered>>
  BY DEF Migrate, holdoff
<1> DEFINE again == pc = "changed" \/ Migrating # {}
<1>3. PICK deferred, back :
          /\ back = PutBack(Migrating, deferred)
          /\ sq' = IF again THEN [back.sq EXCEPT !.harddep_deferred = {}] ELSE sq
          /\ sqdone' = (sqdone /\ Migrating = {})
          /\ sq_needed_harddeps' = IF again THEN {} ELSE sq_needed_harddeps
          /\ holdoff_need_update' = (holdoff_need_update \/ again)
  BY <1>1 DEF MigrateTasks
<1>4. Migrating \in SUBSET rqdata.setscene
  BY DEF Migrating, SceneInv, SceneTypes
<1>5. CASE again
  <2>1. Tidy(back.sq, {}, sq_live)
    BY <1>3, <1>4, PutBackTidies DEF TidyInv
  <2>2. PutsBack(Migrating, back)
    BY <1>3, <1>4, PutBackDecides
  <2>3. /\ sq'.buildable = back.sq.buildable /\ sq'.running = back.sq.running
        /\ sq'.covered = back.sq.covered /\ sq'.notcovered = back.sq.notcovered
        /\ sq'.done = back.sq.done /\ sq'.harddep_deferred = {}
    BY <1>3, <1>5, <2>2 DEF PutsBack, IsScene
  <2>4. Tidy(sq, {}, sq_live)'
    BY <1>2, <2>1, <2>3 DEF Tidy, DecidedIn, DoneClosed, Above, Revdeps
  <2>5. HardNeeded'
    BY <1>3, <1>5, <2>3 DEF HardNeeded
  <2>6. DoneRight'
    BY <1>2, <1>3, <2>2, <2>3 DEF TidyInv, DoneRight, Undecided, PutsBack
  <2>7. HoldoffExact'
    BY <1>3, <1>5 DEF HoldoffExact
  <2> QED  BY <2>4, <2>5, <2>6, <2>7 DEF TidyInv
<1>6. CASE ~again
  <2>1. /\ sq' = sq /\ sq_needed_harddeps' = sq_needed_harddeps /\ (sqdone' => sqdone)
        /\ (~holdoff_need_update' => ~holdoff_need_update)
    BY <1>3, <1>6
  <2>2. Tidy(sq, {}, sq_live)' /\ HardNeeded'
    BY <1>2, <2>1 DEF TidyInv, Tidy, DecidedIn, DoneClosed, Above, Revdeps, HardNeeded
  <2>3. DoneRight' /\ HoldoffExact'
    BY <1>2, <2>1 DEF TidyInv, DoneRight, HoldoffExact, Undecided, DecidedIn, Replaced
  <2> QED  BY <2>2, <2>3 DEF TidyInv
<1> QED  BY <1>5, <1>6

\* The steps that take no decision.
LEMMA QuietTidies ==
    ASSUME SceneInv, TidyInv,
           \/ Rehash \/ SetsceneDone \/ Wait \/ ForceDeferred \/ BuildOver \/ Finish \/ StopBuild
           \/ \E t \in Task : StartTask(t) \/ TaskFailed(t)
           \/ \E t \in Task, h \in Unihash : UnihashReported(t, h)
    PROVE  TidyInv'
<1> DEFINE Quiet == UNCHANGED <<rqdata, sqdata, sq, sq_live, sq_needed_harddeps, holdoff_need_update,
                               holdoff_tasks, tasks_covered, tasks_notcovered>>
<1>1. Quiet
  <2>1. ASSUME NEW t \in Task, NEW h \in Unihash, UnihashReported(t, h) PROVE Quiet
    BY <2>1 DEF UnihashReported, holdoff, scene
  <2>2. ASSUME NEW t \in Task, StartTask(t) \/ TaskFailed(t) PROVE Quiet
    BY <2>2 DEF StartTask, TaskFailed, holdoff, scene
  <2>3. CASE Rehash \/ SetsceneDone \/ Wait \/ BuildOver \/ Finish \/ StopBuild
    BY <2>3 DEF Rehash, SetsceneDone, Wait, BuildOver, Finish, StopBuild, holdoff, scene
  <2>4. CASE ForceDeferred
    BY <2>4 DEF ForceDeferred, holdoff
  <2> QED  BY <2>1, <2>2, <2>3, <2>4
<1>2. sqdone' # sqdone => Undecided = {} /\ "setsceneonly" \notin rqdata.flags
  <2>1. CASE SetsceneDone
    BY <2>1 DEF SetsceneDone, SceneQueueSound, Undecided
  <2>2. CASE ~SetsceneDone
    BY <2>2 DEF Rehash, Wait, ForceDeferred, BuildOver, Finish, StopBuild, StartTask, TaskFailed,
                UnihashReported, scene
  <2> QED  BY <2>1, <2>2
<1> HIDE DEF Quiet
<1>3. Tidy(sq, {}, sq_live)' /\ HardNeeded'
  BY <1>1 DEF Quiet, TidyInv, Tidy, DecidedIn, DoneClosed, Above, Revdeps, HardNeeded
<1>4. DoneRight' /\ HoldoffExact'
  BY <1>1, <1>2 DEF Quiet, TidyInv, DoneRight, HoldoffExact, Undecided, DecidedIn, Replaced
<1> QED  BY <1>3, <1>4 DEF TidyInv

LEMMA TidyStep ==
    OrderInv /\ SceneInv /\ InputInv /\ Collapsed /\ TidyInv /\ [Next]_vars => TidyInv'
<1> SUFFICES ASSUME OrderInv, SceneInv, InputInv, Collapsed, TidyInv, [Next]_vars PROVE TidyInv'
  OBVIOUS
<1>1. GraphFacts /\ PlainFacts
  BY GraphRight, PlainRight DEF SceneInv, InputInv
<1>2. CASE UNCHANGED vars
  BY <1>2 DEF vars, scene, holdoff, TidyInv, Tidy, DecidedIn, DoneClosed, Above, Revdeps, HardNeeded,
              DoneRight, HoldoffExact, Undecided, Replaced
<1>3. CASE Still
  BY <1>1, <1>2, <1>3, QuietTidies, DecisionTidies, DeferHardTidies, StartSetsceneTidies,
     UpdateHoldoffTidies, MigrateTidies DEF Still, Over
<1>4. ASSUME NEW t \in Task, Moving(t) PROVE TidyInv'
  BY <1>4, CompletingTidies, QuietTidies DEF Moving
<1> QED  BY <1>2, <1>3, <1>4, NextSplit

\* At first only what has a stamp is decided.
LEMMA TidyInit == Init /\ GraphFacts => TidyInv
<1> SUFFICES ASSUME Init, GraphFacts PROVE TidyInv
  OBVIOUS
<1>1. /\ rqdata \in Builds /\ sq_live = {} /\ sq_needed_harddeps = {}
      /\ sqdone = (rqdata.setscene = {}) /\ holdoff_need_update = TRUE
  BY DEF Init
<1>2. PICK start, update :
          /\ IsScene(start) /\ start.covered = {} /\ start.notcovered = {} /\ start.running = {}
          /\ start.buildable = {t \in rqdata.setscene : sqdata.revdeps[t] = {}}
          /\ start.done = sqdata.unskippable \ rqdata.setscene
          /\ start.harddep_deferred = {}
          /\ update = UpdateScenequeue(start, {}, rqdata.setscene, sqdata.deferred, sstate)
          /\ sq = update.sq
  <2> DEFINE plain == sqdata.unskippable \ rqdata.setscene
             start == [buildable |-> {t \in rqdata.setscene : sqdata.revdeps[t] = {}},
                       running |-> {}, covered |-> {}, notcovered |-> {},
                       done |-> plain, harddep_deferred |-> {}]
             update == UpdateScenequeue(start, {}, rqdata.setscene, sqdata.deferred, sstate)
  <2>1. sq = update.sq
    BY DEF Init
  <2>2. update = UpdateScenequeue(start, {}, rqdata.setscene, sqdata.deferred, sstate)
    OBVIOUS
  <2>3. /\ IsScene(start) /\ start.covered = {} /\ start.notcovered = {} /\ start.running = {}
        /\ start.buildable = {t \in rqdata.setscene : sqdata.revdeps[t] = {}}
        /\ start.done = sqdata.unskippable \ rqdata.setscene
        /\ start.harddep_deferred = {}
    BY DEF IsScene
  <2> HIDE DEF start, update
  <2> QED  BY <2>1, <2>2, <2>3
<1>3. DecidedIn(start) = {}
  BY <1>2 DEF DecidedIn
<1>4. DoneClosed(start.done)
  BY <1>2 DEF DoneClosed, GraphFacts, Above, Revdeps
<1>5. Tidy(start, {}, sq_live)
  BY <1>2, <1>3, <1>4 DEF Tidy
<1>6. Tidy(sq, {}, sq_live) /\ sq.harddep_deferred \subseteq {}
  <2> DEFINE late == {}
  <2>1. Tidy(start, late, sq_live)
    BY <1>5
  <2>2. update = UpdateScenequeue(start, {}, rqdata.setscene, sqdata.deferred, sstate)
    BY <1>2
  <2>3. rqdata \in Builds /\ IsScene(start)
    BY <1>1, <1>2
  <2> HIDE DEF late
  <2>4. Tidy(update.sq, late, sq_live) /\ update.sq.harddep_deferred \subseteq start.harddep_deferred
    BY <2>1, <2>2, <2>3, UpdateTidies
  <2> QED  BY <1>2, <2>4 DEF late
<1>7. HardNeeded
  BY <1>1, <1>6 DEF HardNeeded
<1>8. DoneRight
  <2>1. sqdone => rqdata.setscene = {}
    BY <1>1
  <2> QED  BY <2>1 DEF DoneRight, Undecided
<1> QED  BY <1>1, <1>6, <1>7, <1>8 DEF TidyInv, HoldoffExact

-----------------------------------------------------------------------------
(* Where the loop is, and what may be begun.                               *)

\* What is to be skipped or run is buildable once all it depends on is complete.
OpenBuildable ==
    \A t \in tasks_covered \cup tasks_notcovered :
        Satisfied(t, runq_complete) => t \in runq_buildable

\* A build of the setscene tasks only begins no other.
NoneRun == "setsceneonly" \in rqdata.flags => runq_running = {}

\* Within a turn of the loop only the tasks on the workers have hashes to report.
Reporting ==
    pc \in {"changed", "unchanged", "scene", "holdoff", "task"} =>
        \A r \in updated_taskhash_queue : r[1] \in Unfinished

\* The setscene tasks the loop does something about.
Acting == {c \in SceneCandidates : NotNeeded(c) \/ HardPending(c) \/ ~DeferralBlocks(c)}

\* The real tasks get their turn when there is no such task, or one was just started.
TurnTaken ==
    /\ pc = "holdoff" => sq_live # {}
    /\ pc = "task" /\ sq_live = {} => Acting = {}

\* A build is cut short by its user, or by a failure.
CutShort ==
    /\ state \in Final => pc = "top"
    /\ state = "cleanup" =>
          "stop" \in rqdata.flags \/ (failed_tids # {} /\ "halt" \in rqdata.flags)

LoopInv == OpenBuildable /\ NoneRun /\ Reporting /\ TurnTaken /\ CutShort

LEMMA LoopInit == Init /\ PlainFacts => LoopInv
<1> SUFFICES ASSUME Init, PlainFacts PROVE LoopInv
  OBVIOUS
<1>1. /\ runq_running = {} /\ runq_complete = {} /\ pc = "top" /\ state = "running"
      /\ tasks_covered = {}
      /\ tasks_notcovered = IF rqdata.setscene = {} THEN Task ELSE {}
      /\ runq_buildable = {t \in sqdata.unskippable \ rqdata.setscene : rqdata.depends[t] = {}}
  BY DEF Init
<1>2. rqdata.setscene = {} => Task \subseteq sqdata.unskippable
  BY DEF PlainFacts
<1>3. OpenBuildable
  BY <1>1, <1>2 DEF OpenBuildable, Satisfied
<1> QED  BY <1>1, <1>3 DEF LoopInv, NoneRun, Reporting, TurnTaken, CutShort, Final

LEMMA SceneTurns ==
    ASSUME LoopInv, NEW t \in Task,
           \/ SceneCompleted(t) \/ SceneFailed(t) \/ SkipUnneeded(t) \/ SceneDecided(t)
           \/ DeferHard(t) \/ StartSetscene(t)
    PROVE  LoopInv'
<1> USE DEF LoopInv
<1>1. /\ UNCHANGED <<rqdata, holdoff, runq, updated_taskhash_queue, state>>
      /\ pc' \in {"top", "scene", "holdoff"}
      /\ pc' # "top" => AtScene
      /\ pc' = "holdoff" => sq_live' # {}
  BY DEF SceneCompleted, SceneFailed, SkipUnneeded, SceneDecided, DeferHard, StartSetscene, SceneChosen,
         SceneTurn, hashing
<1>2. OpenBuildable' /\ NoneRun'
  BY <1>1 DEF OpenBuildable, NoneRun, Satisfied, holdoff, runq
<1>3. Reporting'
  BY <1>1 DEF Reporting, AtScene, HashesMoved, Unfinished, runq
<1>4. TurnTaken' /\ (state \notin Final => CutShort')
  BY <1>1 DEF TurnTaken, CutShort, runq
<1>5. state \notin Final
  BY DEF SceneCompleted, SceneFailed, SkipUnneeded, SceneDecided, DeferHard, StartSetscene, SceneChosen,
         SceneTurn, AtScene, Begun, Reading, CutShort, Final
<1> QED  BY <1>2, <1>3, <1>4, <1>5

LEMMA CompletingTurns ==
    ASSUME OrderInv, SetTypes, LoopInv, NEW t \in Task, SkipTask(t) \/ NoexecTask(t) \/ TaskCompleted(t)
    PROVE  LoopInv'
<1> USE DEF LoopInv
<1>1. /\ UNCHANGED <<rqdata, holdoff, failed_tids, updated_taskhash_queue, state>>
      /\ pc' = "top"
      /\ \E made, cache : CompleteOutright(t, made, cache)
  BY DEF SkipTask, NoexecTask, TaskCompleted, hashing
<1>2. /\ runq_complete' = runq_complete \cup {t}
      /\ runq_buildable' = runq_buildable \cup
             {r \in Above(t) \ runq_running : Satisfied(r, runq_complete \cup {t})}
  BY <1>1 DEF CompleteOutright
<1>3. OpenBuildable'
  <2> SUFFICES ASSUME NEW u \in tasks_covered \cup tasks_notcovered,
                      rqdata.depends[u] \subseteq runq_complete \cup {t}
               PROVE  u \in runq_buildable'
    BY <1>1, <1>2 DEF OpenBuildable, Satisfied, holdoff
  <2>1. CASE rqdata.depends[u] \subseteq runq_complete
    BY <1>2, <2>1 DEF OpenBuildable, Satisfied
  <2>2. CASE ~(rqdata.depends[u] \subseteq runq_complete)
    <3>1. u \in Task
      BY DEF SetTypes
    <3> QED  BY <1>2, <2>2, <3>1 DEF Satisfied, Above, Revdeps, OrderInv, TasksApart
  <2> QED  BY <2>1, <2>2
<1>4. NoneRun'
  BY <1>1 DEF NoneRun, SkipTask, NoexecTask, TaskCompleted, TaskChosen, TaskCandidates
<1>5. state \notin Final
  BY DEF SkipTask, NoexecTask, TaskCompleted, TaskChosen, AtTask, Reading, CutShort, Final
<1> QED  BY <1>1, <1>3, <1>4, <1>5 DEF Reporting, TurnTaken, CutShort

\* The real tasks get their turn.
LEMMA HoldoffTurns ==
    ASSUME SceneInv, LoopInv, UpdateHoldoff
    PROVE  LoopInv'
<1> USE DEF LoopInv
<1>1. /\ UNCHANGED <<rqdata, sqdata, scene, runq_running, runq_complete, failed_tids, active,
                     updated_taskhash_queue, state>>
      /\ pc' = "task"
      /\ pc = "holdoff" \/ (AtScene /\ ~\E t \in Task : SceneTurn(t))
  BY DEF UpdateHoldoff, hashing
<1>2. OpenBuildable'
  <2>1. CASE holdoff_need_update
    <3>1. runq_buildable' = runq_buildable \cup
              {t \in tasks_covered' \cup tasks_notcovered' : Satisfied(t, runq_complete)}
      BY <2>1 DEF UpdateHoldoff
    <3> QED  BY <1>1, <3>1 DEF OpenBuildable, Satisfied
  <2>2. CASE ~holdoff_need_update
    <3>1. UNCHANGED <<tasks_covered, tasks_notcovered, runq_buildable>>
      BY <2>2 DEF UpdateHoldoff, holdoff
    <3> QED  BY <1>1, <3>1 DEF OpenBuildable, Satisfied
  <2> QED  BY <2>1, <2>2
<1>3. NoneRun' /\ Reporting'
  BY <1>1 DEF NoneRun, Reporting, AtScene, HashesMoved, Unfinished
<1>4. TurnTaken'
  <2> SUFFICES ASSUME sq_live = {} PROVE Acting' = {}
    BY <1>1 DEF TurnTaken, scene
  <2>1. AtScene /\ ~\E t \in Task : SceneTurn(t)
    BY <1>1 DEF TurnTaken
  <2>2. Acting = {}
    <3>1. SceneCandidates \subseteq Task
      BY HardType DEF SceneCandidates, SceneInv, SceneTypes, IsScene
    <3>2. Acting \in SUBSET Task
      BY <3>1 DEF Acting
    <3>3. Acting # {} => SceneTurn(Min(Acting))
      BY <2>1 DEF SceneTurn, Acting
    <3> QED  BY <2>1, <3>2, <3>3, MinOfTasks
  <2>3. Acting' = Acting
    BY <1>1 DEF Acting, SceneCandidates, CanStart, InFlight, NotNeeded, HardPending, DeferralBlocks, scene
  <2> QED  BY <2>2, <2>3
<1>5. state \notin Final
  BY <1>1 DEF AtScene, Begun, CutShort, Final
<1> QED  BY <1>1, <1>2, <1>3, <1>4, <1>5 DEF CutShort

\* The other steps.
LEMMA QuietTurns ==
    ASSUME OrderInv, SceneInv, LoopInv,
           \/ Rehash \/ Migrate \/ SetsceneDone \/ Wait \/ ForceDeferred \/ BuildOver \/ Finish \/ StopBuild
           \/ \E t \in Task : StartTask(t) \/ TaskFailed(t)
           \/ \E t \in Task, h \in Unihash : UnihashReported(t, h)
    PROVE  LoopInv'
<1> USE DEF LoopInv
<1>1. UNCHANGED <<rqdata, tasks_covered, tasks_notcovered, runq_buildable, runq_complete>>
  <2>1. CASE Rehash \/ SetsceneDone \/ Wait \/ ForceDeferred \/ BuildOver \/ Finish \/ StopBuild
    BY <2>1 DEF Rehash, SetsceneDone, Wait, ForceDeferred, BuildOver, Finish, StopBuild, holdoff, runq
  <2>2. CASE Migrate
    BY <2>2 DEF Migrate, holdoff
  <2>3. ASSUME NEW t \in Task, StartTask(t) \/ TaskFailed(t)
        PROVE  UNCHANGED <<rqdata, tasks_covered, tasks_notcovered, runq_buildable, runq_complete>>
    BY <2>3 DEF StartTask, TaskFailed, holdoff
  <2>4. ASSUME NEW t \in Task, NEW h \in Unihash, UnihashReported(t, h)
        PROVE  UNCHANGED <<rqdata, tasks_covered, tasks_notcovered, runq_buildable, runq_complete>>
    BY <2>4 DEF UnihashReported, holdoff, runq
  <2> QED  BY <2>1, <2>2, <2>3, <2>4
<1>2. OpenBuildable'
  BY <1>1 DEF OpenBuildable, Satisfied
<1>3. MigrateTasks \/ ~Migrate
  BY SceneInvNotStranded DEF Migrate, NeverStranded
<1>4. NoneRun'
  <2>1. runq_running' = runq_running \/ \E t \in Task : StartTask(t)
    BY DEF Rehash, Migrate, SetsceneDone, Wait, ForceDeferred, BuildOver, Finish, StopBuild, TaskFailed,
           UnihashReported, runq
  <2>2. (\E t \in Task : StartTask(t)) => "setsceneonly" \notin rqdata.flags
    BY DEF StartTask, TaskChosen, TaskCandidates
  <2> QED  BY <1>1, <2>1, <2>2 DEF NoneRun
<1>5. Reporting' /\ TurnTaken'
  <2>1. CASE Rehash
    <3>1. UNCHANGED runq /\ pc' \in {"changed", "unchanged"} /\ updated_taskhash_queue' = Rehashed.queue
      BY <2>1 DEF Rehash
    <3>2. \A r \in Rehashed.queue : r[1] \in Unfinished
      BY DEF Rehashed
    <3> QED  BY <3>1, <3>2 DEF Reporting, TurnTaken, Unfinished, runq
  <2>2. CASE Migrate
    BY <2>2 DEF Migrate, Reporting, TurnTaken, Unfinished
  <2>3. CASE SetsceneDone
    <3>1. /\ UNCHANGED <<runq, updated_taskhash_queue>> /\ pc = "task"
          /\ pc' = "top" \/ (pc' = "task" /\ sqdone' = TRUE)
      BY <2>3 DEF SetsceneDone, hashing
    <3>2. sqdone' = TRUE => Acting' = {}
      BY DEF Acting, SceneCandidates
    <3> QED  BY <3>1, <3>2 DEF Reporting, TurnTaken, Unfinished, runq
  <2>4. CASE ~Rehash /\ ~Migrate /\ ~SetsceneDone
    <3>1. pc' \in {"top", "begun", "idle"}
      BY <2>4 DEF Wait, ForceDeferred, BuildOver, Finish, StopBuild, StartTask, TaskFailed, UnihashReported
    <3> QED  BY <3>1 DEF Reporting, TurnTaken
  <2> QED  BY <2>1, <2>2, <2>3, <2>4
<1>6. CutShort'
  <2>1. CASE Rehash \/ Migrate \/ Wait \/ ForceDeferred
    <3>1. UNCHANGED <<rqdata, failed_tids, state>> /\ (pc # "top" \/ state = "running")
      BY <1>3, <2>1 DEF Rehash, Migrate, MigrateTasks, Wait, ForceDeferred, NothingToStart, AtTask, Begun, runq
    <3> QED  BY <2>1, <3>1, <1>3 DEF CutShort, Rehash, Migrate, MigrateTasks, Wait, ForceDeferred, runq, Final
  <2>2. CASE SetsceneDone \/ BuildOver \/ Finish \/ StopBuild
    BY <2>2 DEF CutShort, SetsceneDone, BuildOver, Finish, StopBuild, NothingToStart, AtTask, Final, runq
  <2>3. ASSUME NEW t \in Task, StartTask(t) \/ TaskFailed(t) PROVE CutShort'
    BY <2>3 DEF CutShort, StartTask, TaskFailed, TaskChosen, AtTask, Reading, Final
  <2>4. ASSUME NEW t \in Task, NEW h \in Unihash, UnihashReported(t, h) PROVE CutShort'
    BY <2>4 DEF CutShort, UnihashReported, Reading, Final, runq
  <2> QED  BY <2>1, <2>2, <2>3, <2>4
<1> QED  BY <1>2, <1>4, <1>5, <1>6

LEMMA LoopStep == OrderInv /\ SceneInv /\ SetTypes /\ LoopInv /\ [Next]_vars => LoopInv'
<1> SUFFICES ASSUME OrderInv, SceneInv, SetTypes, LoopInv, [Next]_vars PROVE LoopInv'
  OBVIOUS
<1>1. CASE UNCHANGED vars
  BY <1>1 DEF vars, scene, holdoff, runq, hashing, LoopInv, OpenBuildable, Satisfied, NoneRun, Reporting,
              Unfinished, TurnTaken, Acting, SceneCandidates, CanStart, InFlight, NotNeeded, HardPending,
              DeferralBlocks, CutShort
<1>2. CASE Still
  BY <1>1, <1>2, QuietTurns, SceneTurns, HoldoffTurns DEF Still, Over
<1>3. ASSUME NEW t \in Task, Moving(t) PROVE LoopInv'
  BY <1>3, CompletingTurns, QuietTurns DEF Moving
<1> QED  BY <1>1, <1>2, <1>3, NextSplit

-----------------------------------------------------------------------------
(* The end of a build.                                                     *)

NoneActive == active = 0 /\ sq_live = {}

LEMMA NoneInFlight ==
    ASSUME OrderInv, WorkInv, NoneActive
    PROVE  /\ InFlight = {} /\ CanStart(active, sq_live)
           /\ runq_running \subseteq runq_complete \cup failed_tids
<1>1. IsFiniteSet(InFlight) /\ Cardinality(InFlight) = 0
  BY Finite DEF WorkInv, WorkersCounted, NoneActive
<1>2. InFlight = {}
  BY <1>1, FS_EmptySet
<1>3. Cardinality(sq_live) = 0
  BY FS_EmptySet DEF NoneActive
<1>4. CanStart(active, sq_live)
  BY <1>3, NumberAssumption DEF CanStart, NoneActive
<1> QED  BY <1>2, <1>4 DEF InFlight

\* When the loop has nothing to do about any setscene task, and none is on a worker or
\* deferred, all are decided.  Else one above which all is decided waited for a hard
\* dependency, and of those that wait one for nothing that is open.
LEMMA NoneWaits ==
    ASSUME OrderInv, SceneInv, PlainFacts, TidyInv, WorkInv, NoneActive, Acting = {}, ~sqdone,
           DOMAIN sq_deferred = {}
    PROVE  Undecided = {}
<1>1. /\ rqdata \in Builds /\ rqdata.setscene \subseteq Task /\ Cardinality(Task) \in Nat
      /\ Undecided \subseteq rqdata.setscene
      /\ \A t \in Undecided : t \notin DecidedIn(sq)
      /\ \A t \in rqdata.setscene : t \in Undecided \/ t \in DecidedIn(sq)
  BY HardType, TaskAssumption, FS_CardinalityType DEF SceneInv, Undecided, DecidedIn
\* What could be started waits for a hard dependency.
<1>2. ASSUME NEW t \in Undecided, t \in sq.buildable
      PROVE  t \in sq.harddep_deferred
  <2>1. t \notin sq.running
    BY <1>1, <1>2 DEF TidyInv, Tidy, NoneActive
  <2>2. SceneCandidates = sq.buildable \ (sq.running \cup sq.harddep_deferred \cup InFlight)
    BY NoneInFlight DEF SceneCandidates
  <2>3. \A c \in SceneCandidates : c \in Acting
    BY DEF Acting, DeferralBlocks
  <2> QED  BY <1>2, <2>1, <2>2, <2>3, NoneInFlight
<1>3. Undecided \cap sq.harddep_deferred = {}
  <2> DEFINE W == Undecided \cap sq.harddep_deferred
  <2> SUFFICES ASSUME W # {} PROVE FALSE
    OBVIOUS
  <2>1. PICK weight \in [Task -> 1 .. Cardinality(Task)] :
            \A t \in Task : \A d \in rqdata.hard[t] : weight[d] < weight[t]
    BY <1>1, BuildsAssumption DEF Acyclic
  <2>2. weight \in [Task -> Nat] /\ W \in SUBSET Task
    BY <1>1
  <2>3. PICK t \in W : \A u \in W : weight[t] <= weight[u]
    <3> HIDE DEF W
    <3> QED  BY <2>2, LeastTask
  <2>4. PICK d \in rqdata.hard[t] : d \notin DecidedIn(sq)
    BY DEF TidyInv, Tidy
  <2>5. d \in Undecided
    BY <1>1, <2>4, HardType
  <2>6. d \in W
    BY <1>2, <2>5 DEF TidyInv, HardNeeded
  <2>7. weight[t] <= weight[d] /\ weight[d] < weight[t]
    BY <1>1, <2>1, <2>3, <2>4, <2>6
  <2>8. weight[t] \in Nat /\ weight[d] \in Nat
    BY <2>2, <2>6
  <2> QED  BY <2>7, <2>8
<1> SUFFICES ASSUME Undecided # {} PROVE FALSE
  OBVIOUS
<1>4. PICK weight, N : Weighs(weight, N)
  BY DEF PlainFacts
<1>5. PICK t \in Undecided : \A u \in Undecided : weight[u] <= weight[t]
  <2>1. Undecided \in SUBSET Task /\ N \in Nat /\ weight \in [Task -> 1 .. N]
    BY <1>1, <1>4 DEF Weighs
  <2> QED  BY <2>1, GreatestTask
<1>6. sqdata.revdeps[t] \subseteq DecidedIn(sq)
  <2> SUFFICES ASSUME NEW s \in sqdata.revdeps[t], s \notin DecidedIn(sq) PROVE FALSE
    OBVIOUS
  <2>1. s \in rqdata.setscene /\ weight[t] < weight[s]
    BY <1>1, <1>4 DEF Weighs
  <2>2. weight[s] <= weight[t]
    BY <1>1, <1>5, <2>1
  <2>3. weight[s] \in Nat /\ weight[t] \in Nat
    BY <1>1, <1>4, <2>1 DEF Weighs
  <2> QED  BY <2>1, <2>2, <2>3
<1>7. t \in sq.buildable
  BY <1>1, <1>6 DEF TidyInv, Tidy
<1> QED  BY <1>2, <1>3, <1>7

\* Then nothing is held back, and every task is done, and to be skipped or run.
LEMMA AllThere ==
    ASSUME SceneInv, PlainFacts, SetTypes, TidyInv, Undecided = {}, ~holdoff_need_update
    PROVE  /\ holdoff_tasks = {} /\ Task = sq.done
           /\ Task = tasks_covered \cup tasks_notcovered
           /\ rqdata.setscene \subseteq (sq.covered \cup sq.notcovered) \cap sq.buildable \cap sq.running
<1>1. rqdata.setscene \subseteq Task
  BY HardType DEF SceneInv
<1>2. /\ rqdata.setscene \subseteq DecidedIn(sq)
      /\ DecidedIn(sq) \subseteq sq.buildable \cap sq.done
      /\ DecidedIn(sq) \subseteq sq.running
  BY DEF Undecided, DecidedIn, TidyInv, Tidy, SceneInv, SceneTypes, IsScene
<1>3. Task \subseteq sq.done
  <2> DEFINE open == Task \ sq.done
  <2> SUFFICES ASSUME open # {} PROVE FALSE
    OBVIOUS
  <2>1. PICK weight, N : Weighs(weight, N)
    BY DEF PlainFacts
  <2>2. PICK t \in open : \A u \in open : weight[u] <= weight[t]
    <3>1. open \in SUBSET Task /\ N \in Nat /\ weight \in [Task -> 1 .. N]
      BY <2>1 DEF Weighs
    <3> HIDE DEF open
    <3> QED  BY <3>1, GreatestTask
  <2>3. t \in Task \ rqdata.setscene
    BY <1>2
  <2>4. Above(t) # {}
    BY <2>3 DEF PlainFacts, TidyInv, Tidy
  <2>5. Above(t) \subseteq sq.done
    <3> SUFFICES ASSUME NEW u \in Above(t), u \notin sq.done PROVE FALSE
      OBVIOUS
    <3>1. u \in Task /\ t \in rqdata.depends[u]
      BY DEF Above, Revdeps
    <3>2. weight[u] <= weight[t] /\ weight[t] < weight[u]
      BY <2>1, <2>2, <3>1 DEF Weighs
    <3>3. weight[u] \in Nat /\ weight[t] \in Nat
      BY <2>1, <2>3, <3>1 DEF Weighs
    <3> QED  BY <3>2, <3>3
  <2> QED  BY <2>3, <2>4, <2>5 DEF TidyInv, Tidy, DoneClosed
<1>4. ASSUME NEW t \in Task PROVE t \in tasks_covered \cup tasks_notcovered
  <2>1. t \in rqdata.setscene => t \in Replaced(t)
    BY DEF Replaced
  <2>2. t \notin rqdata.setscene =>
            t \in sqdata.unskippable \/ \E s \in rqdata.setscene : t \in Replaced(s)
    BY DEF PlainFacts, Replaced
  <2> QED  BY <1>2, <1>3, <2>1, <2>2 DEF TidyInv, HoldoffExact
<1>5. holdoff_tasks = {}
  BY DEF TidyInv, HoldoffExact
<1> QED  BY <1>2, <1>3, <1>4, <1>5 DEF SetTypes, DecidedIn

LEMMA AllSound ==
    ASSUME SceneInv, PlainFacts, SetTypes, TidyInv, LoopInv, Undecided = {}, ~holdoff_need_update,
           DOMAIN sq_deferred = {}, updated_taskhash_queue = {}
    PROVE  SceneQueueSound
<1>1. \A t \in Task : rqdata.depends[t] = {} => t \in runq_buildable
  BY AllThere DEF LoopInv, OpenBuildable, Satisfied
<1> QED  BY <1>1, AllThere DEF SceneQueueSound

\* A build that ends in its own time begun all it could.
LEMMA AllBegun ==
    ASSUME OrderInv, SceneInv, PlainFacts, SetTypes, TidyInv, LoopInv, WorkInv,
           NoneActive, NothingToStart, Undecided = {}, "setsceneonly" \notin rqdata.flags,
           NEW t \in Task, rqdata.depends[t] \subseteq runq_complete
    PROVE  t \in runq_complete \cup failed_tids
<1>1. ~holdoff_need_update /\ TaskCandidates = {}
  BY DEF NothingToStart, AtTask, UnderPressure, NoneActive, SceneInv, HoldoffCurrent
<1>2. t \in runq_buildable
  BY <1>1, AllThere DEF LoopInv, OpenBuildable, Satisfied
<1>3. t \in runq_running
  BY <1>1, <1>2, AllThere, NoneInFlight DEF TaskCandidates
<1> QED  BY <1>3, NoneInFlight

\* With no failed task all was done and what was asked for is there.
LEMMA AllDone ==
    ASSUME OrderInv, SceneInv, GraphFacts, PlainFacts, InputInv, SetTypes, TidyInv, LoopInv, WorkInv,
           NoneActive, NothingToStart, Undecided = {}, "setsceneonly" \notin rqdata.flags,
           failed_tids = {}
    PROVE  Task = runq_buildable \cap runq_running \cap runq_complete /\ rqdata.targets \subseteq present
<1>1. rqdata.depends \in [Task -> SUBSET Task] /\ rqdata.targets \subseteq Task
  BY DependsType, BuildsAssumption DEF SceneInv, BuildType
<1>2. Task \subseteq runq_complete
  <2> DEFINE open == Task \ runq_complete
  <2> SUFFICES ASSUME open # {} PROVE FALSE
    OBVIOUS
  <2>1. PICK weight, N : Weighs(weight, N)
    BY DEF PlainFacts
  <2>2. PICK t \in open : \A u \in open : weight[t] <= weight[u]
    <3>1. open \in SUBSET Task /\ weight \in [Task -> Nat]
      BY <2>1 DEF Weighs
    <3> HIDE DEF open
    <3> QED  BY <3>1, LeastTask
  <2>3. PICK d \in rqdata.depends[t] : d \notin runq_complete
    BY AllBegun
  <2>4. d \in open
    BY <1>1, <2>3
  <2>5. weight[t] <= weight[d] /\ weight[d] < weight[t]
    BY <2>1, <2>2, <2>3, <2>4 DEF Weighs
  <2>6. weight[t] \in Nat /\ weight[d] \in Nat
    BY <2>1, <2>4 DEF Weighs
  <2> QED  BY <2>5, <2>6
<1>3. ASSUME NEW t \in rqdata.targets PROVE t \in present
  <2> SUFFICES ASSUME t \notin present PROVE FALSE
    OBVIOUS
  <2>1. t \in runq_complete \ runq_tasksrun
    BY <1>1, <1>2, <1>3 DEF InputInv
  <2>2. CASE t \in rqdata.setscene
    BY <1>3, <2>1, <2>2 DEF InputInv, SkippedRightly, AbsentRightly
  <2>3. CASE t \notin rqdata.setscene
    BY <1>1, <1>3, <2>1, <2>3 DEF InputInv, SkippedRightly, GraphFacts, Cantskip
  <2> QED  BY <2>2, <2>3
<1> QED  BY <1>2, <1>3 DEF OrderInv, TasksApart

\* After a failure what is left undone depends on what failed.
LEMMA AllPossible ==
    ASSUME OrderInv, SceneInv, PlainFacts, SetTypes, TidyInv, LoopInv, WorkInv,
           NoneActive, NothingToStart, Undecided = {}, "setsceneonly" \notin rqdata.flags
    PROVE  Task = runq_complete \cup failed_tids \cup UNION {TasksAbove(t) : t \in failed_tids}
<1>1. rqdata.depends \in [Task -> SUBSET Task]
  BY DependsType DEF SceneInv
<1> DEFINE lost == UNION {TasksAbove(t) : t \in failed_tids}
<1>2. runq_complete \cup failed_tids \cup lost \subseteq Task
  BY DEF OrderInv, TasksApart, TasksAbove
<1>3. Task \subseteq runq_complete \cup failed_tids \cup lost
  <2> DEFINE open == Task \ (runq_complete \cup failed_tids \cup lost)
  <2> SUFFICES ASSUME open # {} PROVE FALSE
    OBVIOUS
  <2>1. PICK weight, N : Weighs(weight, N)
    BY DEF PlainFacts
  <2>2. PICK t \in open : \A u \in open : weight[t] <= weight[u]
    <3>1. open \in SUBSET Task /\ weight \in [Task -> Nat]
      BY <2>1 DEF Weighs
    <3> HIDE DEF open
    <3> QED  BY <3>1, LeastTask
  <2>3. PICK d \in rqdata.depends[t] : d \notin runq_complete
    BY AllBegun
  <2>4. d \in open
    <3> SUFFICES ASSUME NEW f \in failed_tids, d = f \/ d \in TasksAbove(f) PROVE FALSE
      BY <1>1, <2>3
    <3>1. t \in TasksAbove(f)
      BY <1>1, <2>3, AboveClosed
    <3> QED  BY <3>1
  <2>5. weight[t] <= weight[d] /\ weight[d] < weight[t]
    BY <2>1, <2>2, <2>3, <2>4 DEF Weighs
  <2>6. weight[t] \in Nat /\ weight[d] \in Nat
    BY <2>1, <2>4 DEF Weighs
  <2> QED  BY <2>5, <2>6
<1> QED  BY <1>2, <1>3

EndHyp == OrderInv /\ SceneInv /\ Collapsed /\ InputInv /\ SetTypes /\ WorkInv /\ TidyInv /\ LoopInv

LEMMA SetsceneDoneWell ==
    ASSUME EndHyp, SetsceneDone
    PROVE  state' # "insane" /\ (state' = "complete" /\ state # "complete" => "setsceneonly" \in rqdata'.flags)
<1>1. GraphFacts /\ PlainFacts
  BY GraphRight, PlainRight DEF EndHyp, SceneInv, InputInv
<1>2. pc = "task" /\ SceneOver /\ rqdata' = rqdata /\ state # "insane"
  BY DEF SetsceneDone, EndHyp, LoopInv, CutShort, Final
<1>3. ~holdoff_need_update /\ Undecided = {}
  BY <1>2 DEF SceneOver, EndHyp, SceneInv, HoldoffCurrent
<1>4. SceneQueueSound
  BY <1>1, <1>2, <1>3, AllSound DEF EndHyp, SceneOver
<1> QED  BY <1>2, <1>4 DEF SetsceneDone

LEMMA BuildOverWell ==
    ASSUME EndHyp, BuildOver
    PROVE  EndsWell'
<1>1. GraphFacts /\ PlainFacts
  BY GraphRight, PlainRight DEF EndHyp, SceneInv, InputInv
<1>2. /\ pc = "task" /\ NothingToStart /\ NoneActive /\ DOMAIN sq_deferred = {} /\ ~SceneOver
      /\ state' = IF failed_tids # {} THEN "failed"
                  ELSE IF SceneQueueSound /\ Task = runq_buildable \cap runq_running \cap runq_complete
                       THEN "complete" ELSE "insane"
      /\ UNCHANGED <<rqdata, failed_tids, runq_complete, present>>
  BY DEF BuildOver, NothingToStart, AtTask, NoneActive, runq, disk
<1>3. ~holdoff_need_update
  BY <1>2 DEF EndHyp, SceneInv, HoldoffCurrent
<1>4. Undecided = {}
  <2>1. CASE sqdone
    BY <2>1 DEF EndHyp, TidyInv, DoneRight
  <2>2. CASE ~sqdone
    <3>1. Acting = {}
      BY <1>2 DEF EndHyp, LoopInv, TurnTaken, NoneActive
    <3> QED  BY <1>1, <1>2, <2>2, <3>1, NoneWaits DEF EndHyp
  <2> QED  BY <2>1, <2>2
<1>5. CASE failed_tids = {}
  <2>1. updated_taskhash_queue = {}
    <3>1. Unfinished = {}
      BY <1>2, <1>5, NoneInFlight DEF EndHyp, Unfinished
    <3> QED  BY <1>2, <3>1 DEF EndHyp, LoopInv, Reporting
  <2>2. SceneQueueSound
    BY <1>1, <1>2, <1>3, <1>4, <2>1, AllSound DEF EndHyp
  <2>3. sqdone
    BY <1>2, <2>1, <2>2 DEF SceneOver, NoneActive, SceneQueueSound
  <2>4. CASE "setsceneonly" \in rqdata.flags
    <3>1. rqdata.setscene = {}
      BY <2>3, <2>4 DEF EndHyp, TidyInv, DoneRight
    <3> QED  BY <1>2, <1>5, <2>4, <3>1 DEF EndsWell, SanityHolds, TargetsThere, KeepsGoing
  <2>5. CASE "setsceneonly" \notin rqdata.flags
    <3>1. Task = runq_buildable \cap runq_running \cap runq_complete /\ rqdata.targets \subseteq present
      BY <1>1, <1>2, <1>4, <1>5, <2>5, AllDone DEF EndHyp
    <3> QED  BY <1>2, <1>5, <2>2, <3>1 DEF EndsWell, SanityHolds, TargetsThere, KeepsGoing
  <2> QED  BY <2>4, <2>5
<1>6. CASE failed_tids # {}
  <2>1. "setsceneonly" \notin rqdata.flags
    BY <1>6 DEF EndHyp, LoopInv, NoneRun, OrderInv, TasksApart
  <2>2. Task = runq_complete \cup failed_tids \cup UNION {TasksAbove(t) : t \in failed_tids}
    BY <1>1, <1>2, <1>4, <2>1, AllPossible DEF EndHyp
  <2>3. \A t : TasksAbove(t)' = TasksAbove(t)
    BY <1>2 DEF TasksAbove
  <2>4. KeepsGoing'
    BY <1>2, <2>2, <2>3 DEF KeepsGoing
  <2> QED  BY <1>2, <1>6, <2>4 DEF EndsWell, SanityHolds, TargetsThere
<1> QED  BY <1>5, <1>6

\* A build that is cut short was stopped, or failed and was not to go on.
LEMMA CutShortWell ==
    ASSUME EndHyp, Finish \/ StopBuild
    PROVE  EndsWell'
<1>1. /\ state' \in {"cleanup", "complete", "failed"} /\ UNCHANGED <<rqdata, failed_tids>>
      /\ state' = "complete" => failed_tids = {} \/ "stop" \in rqdata.flags
      /\ \/ "stop" \in rqdata.flags
         \/ failed_tids # {} /\ "halt" \in rqdata.flags
  BY DEF Finish, StopBuild, EndHyp, LoopInv, CutShort, runq
<1> QED  BY <1>1 DEF EndsWell, SanityHolds, TargetsThere, KeepsGoing

\* All other steps belong to a build that goes on.
LEMMA GoesOn ==
    ASSUME EndHyp, Next, ~(SetsceneDone \/ BuildOver \/ Finish \/ StopBuild \/ Over)
    PROVE  state' \notin Final
<1> USE DEF EndHyp, LoopInv, CutShort
<1>1. CASE Rehash \/ Migrate
  <2>1. MigrateTasks \/ ~Migrate
    BY SceneInvNotStranded DEF Migrate, NeverStranded
  <2>2. state' = state
    BY <1>1, <2>1 DEF Rehash, MigrateTasks
  <2>3. pc # "top" \/ state = "running"
    BY <1>1 DEF Rehash, Migrate, Begun
  <2> QED  BY <2>2, <2>3 DEF Final
<1>2. ASSUME NEW t \in Task, SkipUnneeded(t) \/ DeferHard(t) \/ SceneDecided(t) \/ StartSetscene(t)
      PROVE  state' \notin Final
  <2>1. state' = state
    BY <1>2 DEF SkipUnneeded, DeferHard, SceneDecided, StartSetscene
  <2>2. AtScene
    BY <1>2 DEF SkipUnneeded, DeferHard, SceneDecided, StartSetscene, SceneChosen, SceneTurn
  <2> QED  BY <2>1, <2>2 DEF AtScene, Begun, Final
<1>3. CASE UpdateHoldoff \/ Wait \/ ForceDeferred
  <2>1. state' = state /\ (pc # "top" \/ state = "running")
    BY <1>3 DEF UpdateHoldoff, Wait, ForceDeferred, AtScene, Begun, NothingToStart, AtTask
  <2> QED  BY <2>1 DEF Final
<1>4. ASSUME NEW t \in Task, SkipTask(t) \/ NoexecTask(t) \/ StartTask(t)
      PROVE  state' \notin Final
  <2>1. state' = state /\ pc = "task"
    BY <1>4 DEF SkipTask, NoexecTask, StartTask, TaskChosen, AtTask
  <2> QED  BY <2>1
<1>5. ASSUME NEW t \in Task, Exit(t)
      PROVE  state' \notin Final
  BY <1>5 DEF Exit, SceneCompleted, SceneFailed, TaskCompleted, TaskFailed, Reading, Final
<1>6. ASSUME NEW t \in Task, NEW h \in Unihash, UnihashReported(t, h)
      PROVE  state' \notin Final
  BY <1>6 DEF UnihashReported, Reading, Final
<1> QED  BY <1>1, <1>2, <1>3, <1>4, <1>5, <1>6 DEF Next, Loop

LEMMA EndsStep == EndHyp /\ EndsWell /\ [Next]_vars => EndsWell'
<1> SUFFICES ASSUME EndHyp, EndsWell, [Next]_vars PROVE EndsWell'
  OBVIOUS
<1>1. CASE UNCHANGED vars
  <2>1. \A t : TasksAbove(t)' = TasksAbove(t)
    BY <1>1 DEF TasksAbove, vars
  <2>2. UNION {TasksAbove(t) : t \in failed_tids}' = UNION {TasksAbove(t) : t \in failed_tids}
    BY <1>1, <2>1 DEF vars, runq
  <2>3. KeepsGoing'
    BY <1>1, <2>2 DEF vars, runq, EndsWell, KeepsGoing
  <2> QED  BY <1>1, <2>3 DEF vars, disk, EndsWell, SanityHolds, TargetsThere
<1>2. CASE SetsceneDone
  <2>1. state' # "insane" /\ (state' = "complete" => "setsceneonly" \in rqdata'.flags) /\ state' # "failed"
    <3>1. pc = "task" /\ state \notin Final
      BY <1>2 DEF SetsceneDone, EndHyp, LoopInv, CutShort
    <3> QED  BY <1>2, <3>1, SetsceneDoneWell DEF SetsceneDone, Final
  <2> QED  BY <2>1 DEF EndsWell, SanityHolds, TargetsThere, KeepsGoing
<1>3. CASE BuildOver
  BY <1>3, BuildOverWell
<1>4. CASE Finish \/ StopBuild
  BY <1>4, CutShortWell
<1>5. CASE Next /\ ~(SetsceneDone \/ BuildOver \/ Finish \/ StopBuild \/ Over)
  BY <1>5, GoesOn DEF EndsWell, SanityHolds, TargetsThere, KeepsGoing, Final
<1> QED  BY <1>1, <1>2, <1>3, <1>4, <1>5 DEF Over

\* A build that ends leaves no setscene task undecided and has what it was asked for, or
\* after a failure with -k all that does not depend on what failed.
THEOREM EndsCorrect == Spec => []EndsWell
<1>1. Init => EndsWell
  BY DEF Init, EndsWell, SanityHolds, TargetsThere, KeepsGoing
<1>2. Init => TidyInv /\ LoopInv
  <2>1. Init => rqdata \in Builds /\ UnskippableRight
    BY DEF Init, CollapsedFor, UnskippableRight
  <2>2. Init => GraphFacts /\ PlainFacts
    BY <2>1, CollapsedInit, GraphRight, PlainRight
  <2> QED  BY <2>2, TidyInit, LoopInit
<1>3. OrderInv /\ SceneInv /\ Collapsed /\ TypeInv /\ [Next]_vars => TypeInv'
  BY HashTyped, ControlTyped, SetsTyped, SceneInvNotStranded DEF TypeInv
<1>4. TypeInv => SetTypes
  BY DEF TypeInv
<1>5. OrderInv /\ SceneInv /\ Collapsed /\ InputInv /\ TypeInv /\ WorkInv /\ TidyInv /\ LoopInv => EndHyp
  BY <1>4 DEF EndHyp
<1>6. OrderInv /\ SceneInv /\ TypeInv /\ LoopInv /\ [Next]_vars => LoopInv'
  BY <1>4, LoopStep
<1> QED  BY <1>1, <1>2, <1>3, <1>5, <1>6, RunAlways, CollapsedInit, GraphStays, InputInit, InputStep,
            TypeInit, WorkInit, WorkStep, SceneInvNotStranded, TidyStep, EndsStep, PTL DEF Spec

=============================================================================
