------------------------------ MODULE RunQueue ------------------------------
(***************************************************************************)
(* RunQueueExecute of bitbake's runqueue.py: the loop of the server that   *)
(* starts setscene tasks and real tasks on its workers, reads their exit   *)
(* codes, and redoes decisions when a task's unihash changes under way.    *)
(*                                                                         *)
(* One call of execute() is a few actions in a row; pc says how far it is, *)
(* and only between two calls ("top", or "idle" when it waits for its      *)
(* workers) are messages read.  The sets keep the names of the code; those *)
(* the setscene bookkeeping changes together are the fields of sq.         *)
(***************************************************************************)
EXTENDS SceneQueueData

CONSTANTS
    Unihash,       \* unified hashes
    number_tasks,  \* BB_NUMBER_THREADS
    Builds,        \* what RunQueueData.prepare may hand over, see BuildType
    MaxReports     \* bound on the hash changes reported by workers

ASSUME NumberAssumption == number_tasks \in Nat \ {0} /\ MaxReports \in Nat

Flags == {"halt", "force", "setsceneonly", "skipsetscene", "pressure", "stop"}

BuildType ==
    [ depends : [Task -> SUBSET Task],   \* runtaskentries[tid].depends
      setscene : SUBSET Task,            \* runq_setscene_tids
      targets : SUBSET Task,             \* target_tids
      hard : [Task -> SUBSET Task],      \* sq_harddeps_rev, empty outside setscene
      pn : [Task -> Nat],                \* name of the recipe
      fn : [Task -> Nat],                \* file of the recipe, one per multiconfig
      unihash : [Task -> Unihash],       \* unihashes at the start
      stamps : SUBSET Task,              \* tasks with a stamp at that hash
      sqstamps : SUBSET Task,            \* tasks with a setscene stamp
      noexec : SUBSET Task,
      unneeded : SUBSET Task,            \* tasks the metadata's depvalid accepts as not needed
      sstate : SUBSET (Nat \X Unihash),  \* what the shared state cache holds
      flags : SUBSET Flags ]

\* Neither the dependencies nor the hard ones have cycles.
ASSUME BuildsAssumption ==
    /\ Builds \subseteq BuildType
    /\ \A b \in Builds : /\ Acyclic(b.depends) /\ Acyclic(b.hard)
                         /\ \A t \in Task : b.hard[t] \subseteq b.setscene
                         /\ \A t \in Task \ b.setscene : b.hard[t] = {}

VARIABLES
    rqdata,                  \* the build, an element of Builds
    sqdata,                  \* the collapsed graph
    unihash,                 \* runtaskentries[tid].unihash
    sq,                      \* sq_buildable, sq_running, scenequeue_covered, ...
    sq_live,                 \* setscene tasks on a worker
    sq_deferred,             \* setscene task -> task with the same hash to wait for
    sq_needed_harddeps,
    outrightfail,            \* setscene tasks without an object in the cache
    sqdone,
    holdoff_tasks, holdoff_need_update,
    tasks_covered, tasks_notcovered,
    runq_buildable, runq_running, runq_complete, runq_tasksrun,
    failed_tids,
    active,                  \* stats.active
    updated_taskhash_queue, pending_migrations,
    stamps, sqstamps, sstate, \* on disk and in the cache
    reports,                 \* hash changes reported so far
    forced,                  \* history: a deferral was broken by force
    present,                 \* history: tasks whose output is really there
    state, pc

scene == <<sq, sq_live, sq_deferred, sq_needed_harddeps, outrightfail, sqdone>>
holdoff == <<holdoff_tasks, tasks_covered, tasks_notcovered>>
runq == <<runq_buildable, runq_running, runq_complete, runq_tasksrun, failed_tids, active>>
hashing == <<unihash, updated_taskhash_queue, pending_migrations, reports, forced>>
disk == <<stamps, sqstamps, sstate, present>>
vars == <<rqdata, sqdata, scene, holdoff, holdoff_need_update, runq, hashing, disk, state, pc>>

Final == {"failed", "complete", "insane"}
\* Mutant: one complete dependency is enough.
Bug_OneSatisfied(t, complete) == rqdata.depends[t] = {} \/ rqdata.depends[t] \cap complete # {}


Satisfied(t, complete) == rqdata.depends[t] \subseteq complete

InFlight == runq_running \ (runq_complete \cup failed_tids)
Above(t) == Revdeps(rqdata.depends, t)

\* Mutant: the setscene tasks are not counted.
Bug_CountTasksOnly(tasks, live) == tasks < number_tasks

\* can_start_task.
CanStart(tasks, live) == tasks + Cardinality(live) < number_tasks

\* All tasks that depend on t, however far above.
TasksAbove(t) ==
    LET above[u \in Task] == t \in rqdata.depends[u] \/ \E d \in rqdata.depends[u] : above[d]
    IN  {u \in Task : above[u]}

-----------------------------------------------------------------------------
(* check_stamp_task, check_setscene_stamps, validate_hashes.  Stamp files  *)
(* carry the unihash in their name; a stamp that is older than that of a   *)
(* dependency in the same recipe is no longer in stamps.                   *)

Stamp(t) == <<t, unihash[t]>> \in stamps
SetsceneStamp(t) == <<t, unihash[t]>> \in sqstamps

\* The dependencies whose stamps decide about that of t.
StampDeps(t) == {d \in rqdata.depends[t] : rqdata.fn[d] = rqdata.fn[t] /\ ~SetsceneStamp(d)}

StampCurrent(t) == Stamp(t) /\ \A d \in StampDeps(t) : Stamp(d)

StampCurrentRecurse(t) ==
    LET current[u \in Task] == Stamp(u) /\ \A d \in StampDeps(u) : current[d]
    IN  current[t]

StampPresent(t) == t \in rqdata.noexec \/ SetsceneStamp(t) \/ StampCurrentRecurse(t)

Index(t) == <<rqdata.pn[t], unihash[t]>>

-----------------------------------------------------------------------------
(* scenequeue_updatecounters and the functions that call it.               *)

HardDependents(t) == {d \in rqdata.setscene : t \in rqdata.hard[d]}

\* sq_task_failoutright of every task whose hard dependency has failed.
FailClosure(s, fails) ==
    LET Open(d) == d \notin s.covered \cup s.notcovered /\ ~StampPresent(d)
        failed[d \in rqdata.setscene] ==
            d \in fails \/ (Open(d) /\ \E f \in rqdata.hard[d] : failed[f])
    IN  {d \in rqdata.setscene : failed[d]}

\* Mutant: the chains below are not followed.
Bug_DoneNoChains(done, settled) == done \cup settled

\* tasks_scenequeue_done, down the chains of plain tasks.
DoneClosure(done, settled) ==
    LET new[d \in Task] ==
            \/ d \in settled
            \/ /\ d \notin rqdata.setscene \cup done
               /\ \E u \in Above(d) : new[u]
               /\ \A u \in Above(d) \ done : new[u]
    IN  done \cup {d \in Task : new[d]}

\* Setscene tasks become covered, or not covered; both make others ready.
Settle(s, cov, fails) ==
    LET failed == FailClosure(s, fails)
        settled == cov \cup failed
        covered == s.covered \cup cov
        notcovered == s.notcovered \cup failed
        over == covered \cup notcovered
        ready == {d \in rqdata.setscene : /\ sqdata.revdeps[d] \cap settled # {}
                                          /\ sqdata.revdeps[d] \subseteq over}
        waited == \E t \in settled : HardDependents(t) # {}
    IN  [buildable |-> s.buildable \cup settled \cup ready,
         running |-> s.running \cup settled,
         covered |-> covered,
         notcovered |-> notcovered,
         done |-> DoneClosure(s.done, settled),
         harddep_deferred |-> IF waited THEN {d \in s.harddep_deferred : ~(rqdata.hard[d] \subseteq over)}
                                        ELSE s.harddep_deferred]

\* update_scenequeue_data: stamps first, then the cache.
UpdateScenequeue(s, fails, tids, deferred, cache) ==
    LET here == {t \in tids : StampPresent(t)}
        new == IF here = {} THEN s ELSE Settle(s, here, {})
        missing == {t \in tids \ here : /\ Index(t) \notin cache
                                        /\ t \notin new.covered \cup new.notcovered
                                        /\ t \notin DOMAIN deferred}
    IN  [sq |-> new, fails |-> (fails \ tids) \cup missing, here |-> here]

-----------------------------------------------------------------------------
(* RunQueueExecute.__init__, and the part of _execute_runqueue after it.   *)

CollapsedFor(b) ==
    LET q == ProcessEndpoints(b.depends, b.setscene)
        index == [t \in Task |-> <<b.pn[t], b.unihash[t]>>]
    IN  [revdeps |-> [t \in b.setscene |-> q.squash[t]],
         covered |-> q.collated,
         unskippable |-> Unskippable(b.depends, b.setscene, b.targets),
         hashes |-> Hashes(b.setscene, index),
         deferred |-> Deferred(b.setscene, index)]

Init ==
    /\ rqdata \in Builds
    /\ sqdata = CollapsedFor(rqdata)
    /\ unihash = rqdata.unihash
    /\ stamps = {<<t, unihash[t]>> : t \in rqdata.stamps}
    /\ sqstamps = {<<t, unihash[t]>> : t \in rqdata.sqstamps}
    /\ sstate = rqdata.sstate
    /\ LET plain == sqdata.unskippable \ rqdata.setscene
           start == [buildable |-> {t \in rqdata.setscene : sqdata.revdeps[t] = {}},
                     running |-> {}, covered |-> {}, notcovered |-> {},
                     done |-> plain, harddep_deferred |-> {}]
           update == UpdateScenequeue(start, {}, rqdata.setscene, sqdata.deferred, sstate)
       IN  /\ sq = update.sq
           /\ outrightfail = update.fails
           /\ present = update.here
           /\ runq_buildable = {t \in plain : rqdata.depends[t] = {}}
    /\ sq_deferred = sqdata.deferred
    /\ sq_live = {} /\ sq_needed_harddeps = {}
    /\ sqdone = (rqdata.setscene = {})
    /\ holdoff_tasks = {} /\ holdoff_need_update = TRUE
    /\ tasks_covered = {}
    /\ tasks_notcovered = IF rqdata.setscene = {} THEN Task ELSE {}
    /\ runq_running = {} /\ runq_complete = {} /\ runq_tasksrun = {}
    /\ failed_tids = {} /\ active = 0
    /\ updated_taskhash_queue = {} /\ pending_migrations = {}
    /\ reports = 0 /\ forced = FALSE
    /\ state = "running" /\ pc = "top"

-----------------------------------------------------------------------------
(* Completion of real tasks.                                               *)

\* task_completeoutright: the tasks above become buildable, and of the setscene
\* tasks deferred after t the first may go, the others wait for that one.  made are
\* the tasks whose output this leaves.
CompleteOutright(t, made, cache) ==
    LET complete == runq_complete \cup {t}
        waiting == {d \in DOMAIN sq_deferred : sq_deferred[d] = t}
        first == Min(waiting)
        deferred == [d \in DOMAIN sq_deferred \ {first} |->
                        IF d \in waiting THEN first ELSE sq_deferred[d]]
        update == UpdateScenequeue(sq, outrightfail, {first}, deferred, cache)
        kept == waiting = {}
    IN  /\ runq_complete' = complete
        /\ runq_buildable' = runq_buildable \cup
               {r \in Above(t) \ runq_running : Satisfied(r, complete)}
        /\ sq_deferred' = IF kept THEN sq_deferred ELSE deferred
        /\ sq' = IF kept THEN sq ELSE update.sq
        /\ outrightfail' = IF kept THEN outrightfail ELSE update.fails
        /\ present' = present \cup made \cup (IF kept THEN {} ELSE update.here)
        /\ holdoff_need_update' = (holdoff_need_update \/ (~kept /\ update.here # {}))

\* Writing the stamp of t, which h names, makes those above it in its recipe too
\* old.
StampsAfter(t, h) ==
    {s \in stamps : s[1] # t /\ ~(s[1] \in Above(t) /\ rqdata.fn[s[1]] = rqdata.fn[t])}
        \cup {<<t, h>>}

\* A task that reports a new unihash goes on under that hash.
ReportedHash(t) ==
    IF \E h \in Unihash : <<t, h>> \in updated_taskhash_queue
    THEN CHOOSE h \in Unihash : <<t, h>> \in updated_taskhash_queue
    ELSE unihash[t]

-----------------------------------------------------------------------------
(* runQueuePipe.read: what comes from the workers, while the loop waits or  *)
(* at its start.                                                            *)

Reading == pc \in {"top", "idle"} /\ state \in {"running", "cleanup"}

SceneCompleted(t) ==
    /\ Reading /\ t \in sq_live /\ Index(t) \in sstate
    /\ sq' = Settle(sq, {t}, {})
    /\ sq_live' = sq_live \ {t}
    /\ sqstamps' = sqstamps \cup {<<t, unihash[t]>>}
    /\ present' = present \cup {t}
    /\ holdoff_need_update' = TRUE
    /\ pc' = "top"
    /\ UNCHANGED <<rqdata, sqdata, sq_deferred, sq_needed_harddeps, outrightfail, sqdone,
                   holdoff, runq, hashing, stamps, sstate, state>>

SceneFailed(t) ==
    /\ Reading /\ t \in sq_live
    /\ sq' = Settle(sq, {}, {t})
    /\ sq_live' = sq_live \ {t}
    /\ holdoff_need_update' = TRUE
    /\ pc' = "top"
    /\ UNCHANGED <<rqdata, sqdata, sq_deferred, sq_needed_harddeps, outrightfail, sqdone,
                   holdoff, runq, hashing, disk, state>>

TaskCompleted(t) ==
    /\ Reading /\ t \in InFlight \ sq_live
    /\ active' = active - 1
    /\ runq_tasksrun' = runq_tasksrun \cup {t}
    /\ stamps' = StampsAfter(t, ReportedHash(t))
    /\ sstate' = IF t \in rqdata.setscene
                 THEN sstate \cup {<<rqdata.pn[t], ReportedHash(t)>>} ELSE sstate
    /\ CompleteOutright(t, {t}, sstate')
    /\ pc' = "top"
    /\ UNCHANGED <<rqdata, sqdata, sq_live, sq_needed_harddeps, sqdone, holdoff,
                   runq_running, failed_tids, hashing, sqstamps, state>>

\* The exit code is read by execute, which goes on, or by finish or the end of
\* execute, after which the loop sees the new state.
TaskFailed(t) ==
    /\ Reading /\ t \in InFlight \ sq_live
    /\ active' = active - 1
    /\ failed_tids' = failed_tids \cup {t}
    /\ IF "halt" \in rqdata.flags
       THEN state' = "cleanup" /\ pc' \in {"top"} \cup (IF state = "running" THEN {"begun"} ELSE {})
       ELSE state' = state /\ pc' = "top"
    /\ UNCHANGED <<rqdata, sqdata, scene, holdoff, holdoff_need_update, runq_buildable,
                   runq_running, runq_complete, runq_tasksrun, hashing, disk>>

\* The task's output was equivalent to another one's: taskUniHashUpdate.
UnihashReported(t, h) ==
    /\ Reading /\ t \in (InFlight \cap rqdata.setscene) \ sq_live
    /\ h # unihash[t] /\ ReportedHash(t) = unihash[t]
    /\ reports < MaxReports
    /\ reports' = reports + 1
    /\ updated_taskhash_queue' = updated_taskhash_queue \cup {<<t, h>>}
    /\ pc' = "top"
    /\ UNCHANGED <<rqdata, sqdata, scene, holdoff, holdoff_need_update, runq, unihash,
                   pending_migrations, forced, disk, state>>

-----------------------------------------------------------------------------
(* process_possible_migrations: hashes have changed under way.              *)

Begun == pc = "begun" \/ (pc = "top" /\ state = "running")
HashesMoved == updated_taskhash_queue # {} \/ pending_migrations # {}

\* Started and not complete; a failed task stays so.
Unfinished == runq_running \ runq_complete

\* The reported hashes of tasks that have ended, given to the tasks deferred
\* after them as well.
Rehashed ==
    LET ended == {r \in updated_taskhash_queue : r[1] \notin Unfinished}
        moved == {r \in ended : r[2] # unihash[r[1]]}
        From(t) == {r \in moved : r[1] = t \/ (t \in DOMAIN sq_deferred /\ r[1] = sq_deferred[t])}
    IN  [queue |-> updated_taskhash_queue \ ended,
         moved |-> {t \in Task : From(t) # {}},
         unihash |-> [t \in Task |-> IF From(t) = {} THEN unihash[t]
                                     ELSE (CHOOSE r \in From(t) : TRUE)[2]]]

\* Mutant: what was refused stays refused.
Bug_KeepNotcovered(tids) ==
    LET below == UNION {sqdata.covered[t] : t \in tids}
    IN  [buildable |-> sq.buildable \ tids, running |-> sq.running \ tids,
         covered |-> sq.covered \ tids, notcovered |-> sq.notcovered,
         done |-> sq.done \ (tids \cup (below \ (runq_complete \cup sqdata.unskippable))),
         harddep_deferred |-> sq.harddep_deferred]

\* The setscene state with the migrating tasks taken out of it.
TakenOut(tids) ==
    LET below == UNION {sqdata.covered[t] : t \in tids}
    IN  [buildable |-> sq.buildable \ tids, running |-> sq.running \ tids,
         covered |-> sq.covered \ tids, notcovered |-> sq.notcovered \ tids,
         done |-> sq.done \ (tids \cup (below \ (runq_complete \cup sqdata.unskippable))),
         harddep_deferred |-> sq.harddep_deferred]

\* update_tasks2: the migrating tasks are decided about anew.
PutBack(tids, deferred) ==
    LET s == TakenOut(tids)
        harddepfail == {t \in tids : rqdata.hard[t] \cap s.notcovered # {}}
        ready == {t \in tids : \/ sqdata.revdeps[t] = {}
                               \/ /\ t \notin harddepfail
                                  /\ sqdata.revdeps[t] \subseteq s.covered \cup s.notcovered}
        update == UpdateScenequeue([s EXCEPT !.buildable = @ \cup ready],
                                   outrightfail \ tids, tids, deferred, sstate)
    IN  [update EXCEPT !.sq = IF harddepfail = {} THEN @ ELSE Settle(@, {}, harddepfail)]

\* Mutant: covered tasks are rehashed.
Bug_RehashCovered == sq_live

\* Setscene tasks that are covered or on a worker keep their hash, the hash
\* server is told of the equivalence (report_unihash_equiv).
KeepsHash == sq.covered \cup sq_live

\* Hashes first: those reported, then those of every task above, which the hash
\* server may map to any hash.
Rehash ==
    /\ Begun /\ HashesMoved
    /\ LET total == UNION {TasksAbove(t) : t \in Rehashed.moved}
       IN \E newuni \in [total \ KeepsHash -> Unihash] :
            LET changed == {t \in DOMAIN newuni : newuni[t] # Rehashed.unihash[t]}
            IN  /\ unihash' = [t \in Task |-> IF t \in DOMAIN newuni THEN newuni[t]
                                           ELSE Rehashed.unihash[t]]
                /\ pending_migrations' = pending_migrations \cup (changed \cap rqdata.setscene)
                /\ pc' = IF changed # {} THEN "changed" ELSE "unchanged"
    /\ updated_taskhash_queue' = Rehashed.queue
    /\ UNCHANGED <<rqdata, sqdata, scene, holdoff, holdoff_need_update, runq, reports, forced, disk, state>>

TooLate == pending_migrations \cap (runq_running \cup sq_live)
\* Mutant: running covered tasks are not looked at.
Bug_MigrateAtOnce == pending_migrations \ TooLate


Migrating == {t \in pending_migrations \ TooLate : sqdata.covered[t] \cap Unfinished = {}}

\* Setscene tasks whose covered tasks were skipped can no longer migrate.
Stranded == {t \in Migrating : ~(sqdata.covered[t] \cap runq_complete \subseteq runq_tasksrun)}

\* "Task %s marked as completed but now needing to rerun? Halting build."  Taken
\* as the first of the tasks to migrate.
HaltBuild(t) ==
    /\ failed_tids' = failed_tids \cup {t}
    /\ pending_migrations' = pending_migrations \ (TooLate \cup {t})
    /\ sq' = [sq EXCEPT !.done = @ \ {t}]
    /\ state' = "cleanup"
    /\ UNCHANGED <<sq_deferred, sq_needed_harddeps, outrightfail, sqdone, holdoff_need_update, present>>

MigrateTasks ==
    LET again == pc = "changed" \/ Migrating # {}
        owned == {t \in Migrating : Index(t) \in DOMAIN sqdata.hashes /\ sqdata.hashes[Index(t)] # t}
        deferred == [t \in owned \cup DOMAIN sq_deferred |->
                        IF t \in owned THEN sqdata.hashes[Index(t)] ELSE sq_deferred[t]]
        back == PutBack(Migrating, deferred)
    IN  /\ sq_deferred' = deferred
        /\ sq' = IF again THEN [back.sq EXCEPT !.harddep_deferred = {}] ELSE sq
        /\ outrightfail' = back.fails
        /\ present' = present \cup back.here
        /\ sqdone' = (sqdone /\ Migrating = {})
        /\ sq_needed_harddeps' = IF again THEN {} ELSE sq_needed_harddeps
        /\ holdoff_need_update' = (holdoff_need_update \/ again)
        /\ pending_migrations' = pending_migrations \ (TooLate \cup Migrating)
        /\ UNCHANGED <<failed_tids, state>>

Migrate ==
    /\ pc \in {"changed", "unchanged"}
    /\ IF Stranded # {}
       THEN \E t \in Stranded : HaltBuild(t)
       ELSE MigrateTasks
    /\ pc' = "scene"
    /\ UNCHANGED <<rqdata, sqdata, sq_live, holdoff, runq_buildable, runq_running, runq_complete,
                   runq_tasksrun, active, unihash, updated_taskhash_queue, reports, forced,
                   stamps, sqstamps, sstate>>

-----------------------------------------------------------------------------
(* execute, first half: setscene tasks.                                     *)

AtScene == pc = "scene" \/ (Begun /\ ~HashesMoved)

SceneCandidates ==
    IF sqdone \/ ~CanStart(active, sq_live) THEN {}
    ELSE sq.buildable \ (sq.running \cup sq.harddep_deferred \cup InFlight)

\* What depends on t has come from the cache, so t itself is not needed.
NotNeeded(t) ==
    /\ sqdata.revdeps[t] # {} /\ sqdata.revdeps[t] \subseteq sq.covered
    /\ t \notin sqdata.unskippable \cup sq_needed_harddeps \cup rqdata.targets
    /\ t \in rqdata.unneeded

HardPending(t) == ~(rqdata.hard[t] \subseteq sq.covered \cup sq.notcovered)
DeferralBlocks(t) == t \in DOMAIN sq_deferred /\ sq_deferred[t] \notin runq_complete

\* The loop passes over tasks that are deferred after one that is not complete.
\* Its check for covered tasks that are running has no effect: the continue is
\* that of the inner loop.
SceneTurn(t) ==
    LET acting == {c \in SceneCandidates : NotNeeded(c) \/ HardPending(c) \/ ~DeferralBlocks(c)}
    IN  AtScene /\ acting # {} /\ t = Min(acting)

SkipUnneeded(t) ==
    /\ SceneTurn(t) /\ NotNeeded(t)
    /\ sq' = Settle(sq, {t}, {})
    /\ sq_deferred' = Restrict(sq_deferred, DOMAIN sq_deferred \ {t})
    /\ holdoff_need_update' = TRUE
    /\ pc' = "top"
    /\ UNCHANGED <<rqdata, sqdata, sq_live, sq_needed_harddeps, outrightfail, sqdone,
                   holdoff, runq, hashing, disk, state>>

DeferHard(t) ==
    /\ SceneTurn(t) /\ ~NotNeeded(t) /\ HardPending(t)
    /\ LET enabled == rqdata.hard[t] \ sq_needed_harddeps
       IN  /\ sq' = [sq EXCEPT !.buildable = @ \cup enabled, !.harddep_deferred = @ \cup {t}]
           /\ sq_needed_harddeps' = sq_needed_harddeps \cup enabled
           /\ pc' = IF enabled # {} THEN "top" ELSE "scene"
    /\ UNCHANGED <<rqdata, sqdata, sq_live, sq_deferred, outrightfail, sqdone, holdoff,
                   holdoff_need_update, runq, hashing, disk, state>>

\* t is up for a decision, and no longer deferred.
SceneChosen(t) ==
    /\ SceneTurn(t) /\ ~NotNeeded(t) /\ ~HardPending(t)
    /\ sq_deferred' = Restrict(sq_deferred, DOMAIN sq_deferred \ {t})

SceneRefused(t) ==
    \/ t \in DOMAIN sq_deferred /\ Index(t) \notin sstate
    \/ t \in outrightfail
    \/ StampCurrentRecurse(t)
    \/ "force" \in rqdata.flags /\ t \in rqdata.targets
    \/ "skipsetscene" \in rqdata.flags /\ ~SetsceneStamp(t)

\* sq_task_failoutright, or sq_task_skip of a task whose setscene stamp is there.
SceneDecided(t) ==
    /\ SceneChosen(t) /\ (SceneRefused(t) \/ SetsceneStamp(t))
    /\ sq' = IF SceneRefused(t) THEN Settle(sq, {}, {t}) ELSE Settle(sq, {t}, {})
    /\ present' = IF SceneRefused(t) THEN present ELSE present \cup {t}
    /\ holdoff_need_update' = TRUE
    /\ pc' = "top"
    /\ UNCHANGED <<rqdata, sqdata, sq_live, sq_needed_harddeps, outrightfail, sqdone,
                   holdoff, runq, hashing, stamps, sqstamps, sstate, state>>

StartSetscene(t) ==
    /\ SceneChosen(t) /\ ~SceneRefused(t) /\ ~SetsceneStamp(t)
    /\ sq' = [sq EXCEPT !.running = @ \cup {t}]
    /\ sq_live' = sq_live \cup {t}
    /\ pc' = IF CanStart(active, sq_live') THEN "top" ELSE "holdoff"
    /\ UNCHANGED <<rqdata, sqdata, sq_needed_harddeps, outrightfail, sqdone, holdoff,
                   holdoff_need_update, runq, hashing, disk, state>>

-----------------------------------------------------------------------------
(* execute, second half: which tasks are covered, and the real tasks.       *)

UpdateHoldoff ==
    /\ pc = "holdoff" \/ (AtScene /\ ~\E t \in Task : SceneTurn(t))
    /\ pc' = "task"
    /\ holdoff_need_update' = FALSE
    /\ LET Below(s) == UNION {sqdata.covered[t] : t \in s}
           notcovered == sq.done \cap (sq.notcovered \cup Below(sq.notcovered)
                             \cup Cantskip(rqdata.setscene, rqdata.targets)
                             \cup (sqdata.unskippable \ rqdata.setscene))
           covered == (sq.done \cap (sq.covered \cup Below(sq.covered))) \ notcovered
           open == rqdata.setscene \ (sq.covered \cup sq.notcovered)
       IN IF holdoff_need_update
          THEN /\ tasks_covered' = covered /\ tasks_notcovered' = notcovered
               /\ holdoff_tasks' = open \cup (Below(open) \ runq_complete)
               /\ runq_buildable' = runq_buildable \cup
                      {t \in covered \cup notcovered : Satisfied(t, runq_complete)}
          ELSE UNCHANGED <<holdoff, runq_buildable>>
    /\ UNCHANGED <<rqdata, sqdata, scene, runq_running, runq_complete, runq_tasksrun, failed_tids,
                   active, hashing, disk, state>>

\* summarise_scenequeue_errors finds nothing.
SceneQueueSound ==
    /\ DOMAIN sq_deferred = {} /\ updated_taskhash_queue = {} /\ holdoff_tasks = {}
    /\ rqdata.setscene \subseteq (sq.covered \cup sq.notcovered) \cap sq.buildable \cap sq.running
    /\ Task = tasks_covered \cup tasks_notcovered
    /\ Task = sq.done
    /\ {t \in Task : rqdata.depends[t] = {}} \subseteq runq_buildable

SceneOver ==
    /\ ~sqdone /\ sq_live = {} /\ DOMAIN sq_deferred = {}
    /\ updated_taskhash_queue = {} /\ holdoff_tasks = {}

SetsceneDone ==
    /\ pc = "task" /\ SceneOver
    /\ IF ~SceneQueueSound THEN state' = "insane" /\ pc' = "top" /\ UNCHANGED sqdone
       ELSE IF "setsceneonly" \in rqdata.flags
            THEN state' = "complete" /\ pc' = "top" /\ UNCHANGED sqdone
            ELSE sqdone' = TRUE /\ UNCHANGED <<state, pc>>
    /\ UNCHANGED <<rqdata, sqdata, sq, sq_live, sq_deferred, sq_needed_harddeps, outrightfail,
                   holdoff, holdoff_need_update, runq, hashing, disk>>

\* next_buildable_task picks by weight; any candidate here.
TaskCandidates ==
    IF "setsceneonly" \in rqdata.flags \/ ~CanStart(active, sq_live) THEN {}
    ELSE (runq_buildable \cap (tasks_covered \cup tasks_notcovered)) \ (runq_running \cup holdoff_tasks)

AtTask == pc = "task" /\ ~SceneOver
TaskChosen(t) == AtTask /\ t \in TaskCandidates

\* task_skip of a covered task, and of one whose stamp is current.
SkipTask(t) ==
    /\ TaskChosen(t) /\ (t \in tasks_covered \/ StampCurrent(t))
    /\ runq_running' = runq_running \cup {t}
    /\ runq_tasksrun' = IF t \in tasks_covered THEN runq_tasksrun ELSE runq_tasksrun \cup {t}
    /\ CompleteOutright(t, {t} \ tasks_covered, sstate)
    /\ pc' = "top"
    /\ UNCHANGED <<rqdata, sqdata, sq_live, sq_needed_harddeps, sqdone, holdoff, failed_tids,
                   active, hashing, stamps, sqstamps, sstate, state>>

NoexecTask(t) ==
    /\ TaskChosen(t) /\ t \notin tasks_covered /\ ~StampCurrent(t) /\ t \in rqdata.noexec
    /\ runq_running' = runq_running \cup {t}
    /\ runq_tasksrun' = runq_tasksrun \cup {t}
    /\ stamps' = StampsAfter(t, unihash[t])
    /\ CompleteOutright(t, {t}, sstate)
    /\ pc' = "top"
    /\ UNCHANGED <<rqdata, sqdata, sq_live, sq_needed_harddeps, sqdone, holdoff, failed_tids,
                   active, hashing, sqstamps, sstate, state>>

StartTask(t) ==
    /\ TaskChosen(t) /\ t \notin tasks_covered /\ ~StampCurrent(t) /\ t \notin rqdata.noexec
    /\ runq_running' = runq_running \cup {t}
    /\ active' = active + 1
    /\ pc' = IF CanStart(active', sq_live) THEN "top" ELSE "idle"
    /\ UNCHANGED <<rqdata, sqdata, scene, holdoff, holdoff_need_update, runq_buildable,
                   runq_complete, runq_tasksrun, failed_tids, hashing, disk, state>>

\* exceeds_max_pressure is asked only while a task is active.
UnderPressure == "pressure" \in rqdata.flags /\ active > 0
NothingToStart == AtTask /\ (TaskCandidates = {} \/ UnderPressure)

Wait ==
    /\ NothingToStart /\ (active > 0 \/ sq_live # {})
    /\ pc' = "idle"
    /\ UNCHANGED <<rqdata, sqdata, scene, holdoff, holdoff_need_update, runq, hashing, disk, state>>

\* Mutant: the entry is taken from a copy.
Bug_ForceNothing ==
    /\ NothingToStart /\ active = 0 /\ sq_live = {} /\ DOMAIN sq_deferred # {}
    /\ pc' = "top"
    /\ UNCHANGED <<rqdata, sqdata, scene, holdoff, holdoff_need_update, runq, hashing, disk, state>>

\* "Runqueue deadlocked on deferred tasks, forcing task".
ForceDeferred ==
    /\ NothingToStart /\ active = 0 /\ sq_live = {}
    /\ \E t \in DOMAIN sq_deferred :
          sq_deferred' = Restrict(sq_deferred, DOMAIN sq_deferred \ {t})
    /\ forced' = TRUE
    /\ pc' = "top"
    /\ UNCHANGED <<rqdata, sqdata, sq, sq_live, sq_needed_harddeps, outrightfail, sqdone,
                   holdoff, holdoff_need_update, runq, unihash, updated_taskhash_queue,
                   pending_migrations, reports, disk, state>>

\* No task left: failed tasks, the sanity checks, or a complete build.
BuildOver ==
    /\ NothingToStart /\ active = 0 /\ sq_live = {} /\ DOMAIN sq_deferred = {}
    /\ state' = IF failed_tids # {} THEN "failed"
                ELSE IF SceneQueueSound /\ Task = runq_buildable \cap runq_running \cap runq_complete
                     THEN "complete" ELSE "insane"
    /\ pc' = "top"
    /\ UNCHANGED <<rqdata, sqdata, scene, holdoff, holdoff_need_update, runq, hashing, disk>>

-----------------------------------------------------------------------------
(* finish, finish_now and the end.                                          *)

\* finish: nothing is started any more, the build ends with the last worker.
Finish ==
    /\ state = "cleanup" /\ pc \in {"top", "idle"} /\ active = 0 /\ sq_live = {}
    /\ state' = IF failed_tids # {} THEN "failed" ELSE "complete"
    /\ pc' = "top"
    /\ UNCHANGED <<rqdata, sqdata, scene, holdoff, holdoff_need_update, runq, hashing, disk>>

\* finish_runqueue, called for a user who stops the build: once politely, then
\* at once.  A worker that dies has the effect of the latter.
StopBuild ==
    /\ "stop" \in rqdata.flags /\ Reading
    /\ \/ state = "running" /\ state' = "cleanup"
       \/ state' = IF failed_tids # {} THEN "failed" ELSE "complete"
    /\ pc' = "top"
    /\ UNCHANGED <<rqdata, sqdata, scene, holdoff, holdoff_need_update, runq, hashing, disk>>

Over == state \in Final /\ UNCHANGED vars

Loop ==
    \/ Rehash \/ Migrate
    \/ \E t \in Task : SkipUnneeded(t) \/ DeferHard(t) \/ SceneDecided(t) \/ StartSetscene(t)
    \/ UpdateHoldoff \/ SetsceneDone
    \/ \E t \in Task : SkipTask(t) \/ NoexecTask(t) \/ StartTask(t)
    \/ Wait \/ ForceDeferred \/ BuildOver \/ Finish

Exit(t) == SceneCompleted(t) \/ SceneFailed(t) \/ TaskCompleted(t) \/ TaskFailed(t)

Next ==
    \/ Loop
    \/ \E t \in Task : Exit(t) \/ (\E h \in Unihash : UnihashReported(t, h))
    \/ StopBuild
    \/ Over

\* The server calls execute again and again, and a worker ends every task, with
\* a result or a failure.
Spec == Init /\ [][Next]_vars /\ WF_vars(Loop) /\ \A t \in Task : WF_vars(Exit(t))

-----------------------------------------------------------------------------
(* Properties.                                                             *)

Status(t) ==
    IF t \in runq_complete THEN "done"
    ELSE IF t \in runq_running
         THEN IF t \in failed_tids THEN "failed" ELSE "running"
         ELSE "todo"

Order == INSTANCE BuildOrder WITH depends <- rqdata.depends, status <- [t \in Task |-> Status(t)]

\* The types of the state, and the setscene sets within the setscene tasks.
TypeOK ==
    /\ rqdata \in BuildType
    /\ unihash \in [Task -> Unihash]
    /\ {"buildable", "running", "covered", "notcovered", "done", "harddep_deferred"} = DOMAIN sq
    /\ sq.buildable \cup sq.running \cup sq.covered \cup sq.notcovered \cup sq.harddep_deferred
         \cup sq_live \cup DOMAIN sq_deferred \cup sq_needed_harddeps \cup outrightfail
         \cup pending_migrations \subseteq rqdata.setscene
    /\ sq.done \cup holdoff_tasks \cup tasks_covered \cup tasks_notcovered
         \cup runq_buildable \cup runq_running \cup failed_tids \cup present \subseteq Task
    /\ runq_tasksrun \subseteq runq_complete /\ runq_complete \subseteq runq_running
    /\ sqdone \in BOOLEAN /\ holdoff_need_update \in BOOLEAN /\ forced \in BOOLEAN
    /\ updated_taskhash_queue \subseteq Task \X Unihash
    /\ state \in Final \cup {"running", "cleanup"}
    /\ pc \in {"top", "begun", "changed", "unchanged", "scene", "holdoff", "task", "idle"}

\* task_completeoutright and update_holdofftasks: a task is begun once, and only
\* when all it depends on is complete.
BuildsInOrder == Order!Spec

\* can_start_task: the count of active tasks is that of the tasks on the workers,
\* which with the setscene tasks are never more than BB_NUMBER_THREADS.
WorkersCounted ==
    /\ active = Cardinality(InFlight)
    /\ active + Cardinality(sq_live) <= number_tasks

\* "Something went badly wrong during scenequeue generation": the collapsed graph
\* is the one the dependencies define.
Collapsed == IsCollapsed(rqdata.depends, rqdata.setscene,
                 [squash |-> [t \in Task |-> IF t \in rqdata.setscene THEN sqdata.revdeps[t] ELSE {}],
                  collated |-> sqdata.covered])

\* "No task should end up in both covered and uncovered, that is a bug."  A deferred
\* task that failed with a hard dependency does, if its own stamp is found to be
\* current when the task it was deferred after completes.
CoveredApart == \A t \in sq.covered \cap sq.notcovered : rqdata.hard[t] # {}

\* The bookkeeping of the setscene queue: what the sets hold, the graph they were
\* built from, and that each task is decided one way.
Bookkeeping == TypeOK /\ Collapsed /\ CoveredApart

\* "If covered tasks are running, need to wait for them to complete": no setscene
\* task unpacks while a task it covers, or its own real task, is running.  Only a
\* task that failed with a hard dependency may still be unpacking.
CoveredWaits ==
    \A t \in sq_live :
        ({t} \cup sqdata.covered[t]) \cap InFlight = {} \/ (t \in sq.notcovered /\ rqdata.hard[t] # {})

\* sq_deferred, "We shouldn't allow all to run at once as it is prone to races":
\* of the tasks with one hash only one at a time is on a worker.
TwinsApart ==
    \A t, u \in (sq_live \cup InFlight) \cap rqdata.setscene : Index(t) = Index(u) => t = u

\* No hash was reported to have changed and no deferral was broken by force; the build
\* has no hard dependencies, with which a deferred task may fail and run at once; and
\* none of those to be deferred was done before: the next in line would be complete.
Calm ==
    /\ reports = 0 /\ ~forced /\ \A t \in Task : rqdata.hard[t] = {}
    /\ DOMAIN sqdata.deferred \cap (rqdata.stamps \cup rqdata.sqstamps \cup rqdata.noexec) = {}

\* Until then they are kept apart.
TwinsApartAtFirst == Calm => TwinsApart

\* "Task %s marked as completed but now needing to rerun? Halting build.": it never
\* comes to that.
NeverStranded == pc \in {"changed", "unchanged"} => Stranded = {}

\* A task decided both ways counts as covered when NotNeeded asks who needs a task
\* below it, and runs if its stamp is outdated by a change of hash.
Spared == {d \in rqdata.setscene : \E s \in sqdata.revdeps[d] : rqdata.hard[s] # {}}

\* A task runs only when the output of all it depends on is really there, but for what
\* a task with hard dependencies should have kept from being taken for not needed.
InputsPresent == \A t \in InFlight : rqdata.depends[t] \subseteq present \cup Spared

\* The sanity checks at the end of execute find nothing, but for a build of the setscene
\* tasks only that has none: as sqdone is set before, no task is begun, and every one is
\* said to be "never buildable" or that it "never ran".
SanityHolds == state = "insane" => "setsceneonly" \in rqdata.flags /\ rqdata.setscene = {}

\* A complete build has all it was asked for.
TargetsThere ==
    state = "complete" /\ rqdata.flags \cap {"stop", "setsceneonly"} = {} => rqdata.targets \subseteq present

\* bitbake -k, "Continue as much as possible after an error": only what depends
\* on a failed task is left undone.
KeepsGoing ==
    state = "failed" /\ rqdata.flags \cap {"stop", "halt"} = {}
        => Task = runq_complete \cup failed_tids \cup UNION {TasksAbove(t) : t \in failed_tids}

\* What a build that has ended leaves: nothing for the sanity checks to find, what it was
\* asked for, and after a failure with -k all that could be done.
EndsWell == SanityHolds /\ TargetsThere /\ KeepsGoing

\* Every build comes to an end.
BuildEnds == <>(state \in Final)

=============================================================================
