----------------------------- MODULE BuildOrder -----------------------------
(***************************************************************************)
(* What a run queue promises to the metadata: a task is begun once, after  *)
(* all the tasks it depends on are done, whether it is executed or found   *)
(* to be there already.                                                    *)
(***************************************************************************)
CONSTANT Task

VARIABLES depends,  \* [Task -> SUBSET Task]
          status    \* [Task -> {"todo", "running", "done", "failed"}]

Ready(t) == status[t] = "todo" /\ \A d \in depends[t] : status[d] = "done"

Moves(t, next) == status' = [status EXCEPT ![t] = next] /\ UNCHANGED depends

Init == depends \in [Task -> SUBSET Task] /\ status = [t \in Task |-> "todo"]

Start(t) == Ready(t) /\ Moves(t, "running")

Skip(t) == Ready(t) /\ Moves(t, "done")

Succeed(t) == status[t] = "running" /\ Moves(t, "done")

Fail(t) == status[t] = "running" /\ Moves(t, "failed")

Next == \E t \in Task : Start(t) \/ Skip(t) \/ Succeed(t) \/ Fail(t)

Spec == Init /\ [][Next]_<<depends, status>>

=============================================================================
