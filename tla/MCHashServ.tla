----------------------------- MODULE MCHashServ -----------------------------
(* HashServ with two builders, in scenarios that each let a few things      *)
(* happen often.                                                           *)
EXTENDS HashServ

CONSTANTS t1, t2, t3, o1, o2

Tasks == {t1, t2, t3}
Outs == {o1, o2}

Scenario(up, ops, tasks, outs, n, kinds, m) ==
    [builders |-> Client, upstream |-> up, operations |-> ops, taskhashes |-> tasks, outhashes |-> outs,
     requests |-> n, events |-> kinds, max_events |-> m]

\* Builders that report, and a server that dies.
Reporting == Scenario(FALSE, {"report"}, Tasks, Outs, 3, {"crash"}, 1)
\* One builder with more to report.
Ordered == [Scenario(FALSE, {"report"}, Tasks, Outs, 4, {"crash"}, 1) EXCEPT !.builders = {CHOOSE c \in Client : TRUE}]
Declaring == Scenario(FALSE, {"report", "report-equiv", "get-all"}, {t1, t2}, {o1}, 3, {"crash"}, 1)
\* A server that reads through, all it is asked.
Through == Scenario(TRUE, Operation, {t1, t2}, {o1}, 2, {"upstream"}, 1)
Losing == Scenario(TRUE, {"get-stream", "report", "backfill-wait"}, {t1, t2}, {o1}, 2, {"upstream", "crash"}, 2)
Repeated == Scenario(TRUE, {"get"}, {t1}, {o1}, 1, {"crash"}, 3)
\* Reports meet what has come from upstream.
Meeting == Scenario(TRUE, {"get-stream", "report"}, {t1, t2}, {o1}, 3, {"upstream"}, 1)
\* Garbage collection under way.
Collecting == Scenario(TRUE, {"report"}, {t1, t2}, {o1}, 2, {"collect"}, 3)
Cleaning == Scenario(FALSE, {"report", "get"}, {t1, t2}, Outs, 2, {"remove", "collect", "clean"}, 2)

AllScenarios == {Reporting, Ordered, Declaring, Through, Losing, Repeated, Meeting,
                 Collecting, Cleaning}
Racing == {Scenario(TRUE, {"report"}, {t1, t2}, {o1}, 2, {}, 0)}

=============================================================================
