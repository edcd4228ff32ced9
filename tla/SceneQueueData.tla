--------------------------- MODULE SceneQueueData ---------------------------
(***************************************************************************)
(* build_scenequeue_data of bitbake's runqueue.py: the graph of all tasks  *)
(* is collapsed to a graph of those that have a setscene variant, which    *)
(* takes a task's output from the shared state cache instead of running    *)
(* it.  The algorithm is kept as it is, in levels; what it is meant to     *)
(* compute is stated beside it, by paths.                                  *)
(*                                                                         *)
(* A graph is the function depends: depends[t] are the tasks t waits for.  *)
(***************************************************************************)
EXTENDS Naturals, FiniteSets, FiniteSetsExt, Functions, TLC

CONSTANT Task  \* the tasks of the run queue, rqdata.runtaskentries

ASSUME TaskAssumption == Task \subseteq Nat /\ IsFiniteSet(Task)

Revdeps(depends, t) == {r \in Task : t \in depends[r]}

-----------------------------------------------------------------------------
(* What the two passes over the tasks leave for process_endpoints.         *)

\* points maps the tasks to be processed to the setscene tasks that led there.
Endpoints(depends, setscene) ==
    LET ends == {t \in Task \ setscene : Revdeps(depends, t) = {}}
        below == UNION {depends[s] : s \in setscene}
    IN  [points |-> [t \in ends \cup below |-> {s \in setscene : t \in depends[s]}],
         next |-> [t \in {} |-> {}],
         sq_revdeps |-> [t \in Task |-> Revdeps(depends, t) \ setscene],
         squash |-> [t \in Task |-> {}],
         collated |-> [s \in setscene |-> {}]]

\* One turn of the loop of process_endpoints.
ProcessPoint(depends, setscene, q, point) ==
    LET tasks == q.points[point] \cup q.squash[point]
        left == [d \in Task |-> IF d \in depends[point] THEN q.sq_revdeps[d] \ {point}
                                                        ELSE q.sq_revdeps[d]]
        reached == {d \in depends[point] \ setscene : left[d] = {}}
    IN  IF point \in setscene
        THEN [q EXCEPT !.squash[point] = tasks]
        ELSE [q EXCEPT !.collated = [s \in setscene |-> IF s \in tasks THEN @[s] \cup {point} ELSE @[s]],
                       !.squash = [d \in Task |-> IF d = point THEN {}
                                                  ELSE IF d \in depends[point] THEN @[d] \cup tasks
                                                  ELSE @[d]],
                       !.sq_revdeps = left,
                       !.next = [d \in reached \cup DOMAIN @ |->
                                    IF d \in reached THEN q.points[point] ELSE @[d]]]

ProcessLevel(depends, setscene, q) ==
    LET done == FoldSet(LAMBDA p, acc : ProcessPoint(depends, setscene, acc, p), q, DOMAIN q.points)
    IN  [done EXCEPT !.points = done.next, !.next = [t \in {} |-> {}]]

\* A level follows one edge, so there are no more levels than tasks.
ProcessEndpoints(depends, setscene) ==
    LET level[n \in 0 .. Cardinality(Task)] ==
            IF n = 0 THEN Endpoints(depends, setscene)
            ELSE ProcessLevel(depends, setscene, level[n - 1])
    IN  level[Cardinality(Task)]

-----------------------------------------------------------------------------
(* The sets computed beside it.                                            *)

Cantskip(setscene, targets) == (targets \cap Task) \ setscene

\* Mutant: the first setscene tasks are left out.
Bug_UnskippablePlain(depends, setscene, targets) ==
    {t \in Task \ setscene : Revdeps(depends, t) = {}} \cup Cantskip(setscene, targets)

\* The tasks the build's endpoints reach without crossing a setscene task,
\* the first setscene tasks they meet included.
Unskippable(depends, setscene, targets) ==
    LET grown[n \in 0 .. Cardinality(Task)] ==
            IF n = 0 THEN {t \in Task : Revdeps(depends, t) = {}} \cup Cantskip(setscene, targets)
            ELSE UNION {{t} \cup (IF t \in setscene THEN {} ELSE depends[t]) : t \in grown[n - 1]}
    IN  grown[Cardinality(Task)]

\* The owner of a hash is its first task; the others are deferred after it.
Hashes(setscene, index) ==
    [h \in {index[t] : t \in setscene} |-> Min({t \in setscene : index[t] = h})]

\* Mutant: nothing is deferred.
Bug_DeferNone(setscene, index) == [t \in {} |-> t]

Deferred(setscene, index) ==
    LET hashes == Hashes(setscene, index)
    IN  [t \in {s \in setscene : hashes[index[s]] # s} |-> hashes[index[t]]]

-----------------------------------------------------------------------------
(* What the collapsed graph is meant to be.                                *)

\* Graphs with a cycle are refused (circular_depchains_handler).
Acyclic(depends) ==
    \E weight \in [Task -> 1 .. Cardinality(Task)] :
        \A t \in Task : \A d \in depends[t] : weight[d] < weight[t]

\* The tasks reached from t by dependencies through tasks without setscene.
Reach(depends, setscene, t) ==
    LET found[u \in Task] == depends[u] \cup UNION {found[d] : d \in depends[u] \ setscene}
    IN  found[t]

\* "collapse the huge runqueue dependency tree into a smaller one only
\* containing the setscene functions": a setscene task's reverse dependencies
\* are the setscene tasks that reach it, it covers the plain tasks it reaches,
\* and nothing is left at a plain task ("Something went badly wrong").
IsCollapsed(depends, setscene, q) ==
    /\ \A t \in setscene : q.squash[t] = {s \in setscene : t \in Reach(depends, setscene, s)}
    /\ \A s \in setscene : q.collated[s] = Reach(depends, setscene, s) \ setscene
    /\ \A t \in Task \ setscene : q.squash[t] = {}

=============================================================================
