------------------------------ MODULE HashServ ------------------------------
(***************************************************************************)
(* The hash equivalence server of bitbake (lib/hashserv/server.py on the    *)
(* sqlite backend): builders ask it for the unihash of a taskhash and       *)
(* report what a task has put out; two tasks with the same output get the   *)
(* same unihash.                                                           *)
(*                                                                         *)
(* The server runs on one asyncio loop and its database calls block, so a  *)
(* handler is interleaved with others only where it awaits the server it   *)
(* reads through to, "up".  All requests are for one method.               *)
(***************************************************************************)
EXTENDS Integers, Sequences, FiniteSets, Functions

CONSTANTS
    Taskhash,      \* a unihash is the taskhash of the first task that had it
    Outhash,
    Mark,          \* names of garbage collections
    Client,
    NoHash, NoMark,
    Scenarios      \* what builders and the world do, see ScenarioType

Operation == {"get-stream", "get", "get-all", "get-outhash", "report", "report-readonly",
              "report-equiv", "backfill-wait"}

ScenarioType ==
    [ builders : SUBSET Client,
      upstream : BOOLEAN,                  \* self.server.upstream is set
      operations : SUBSET Operation,       \* that builders use
      taskhashes : SUBSET Taskhash, outhashes : SUBSET Outhash,
      requests : Nat,                      \* bound on the requests
      events : SUBSET {"remove", "collect", "clean", "upstream", "crash"},
      max_events : Nat ]                   \* bound on all events together

ASSUME HashServAssumption ==
    /\ Taskhash # {} /\ Outhash # {}
    /\ NoHash \notin Taskhash \cup Outhash /\ NoMark \notin Mark
    /\ Scenarios \subseteq ScenarioType

VARIABLES
    db,             \* of both servers: unihashes_v3, outhashes_v2 and the mark in config
    scenario,
    req,            \* Client -> its request
    backfill_queue, \* taskhashes; the worker is at the first one
    backfill,       \* what the worker has been told of it
    now,            \* reports so far: the clock that outhashes are created by
    requests, events,
    \* History
    answered,       \* <<taskhash, unihash>> a builder has been given
    settled,        \* those given to a report, and not removed since
    first,          \* the outhash with which a report has mapped a taskhash
    reported,       \* <<taskhash, outhash>> anybody has ever reported
    declared,       \* <<taskhash, unihash>> anybody has ever declared equivalent
    kept            \* Mark -> taskhashes it was told to keep

queue == <<backfill_queue, backfill>>
bounds == <<requests, events>>
history == <<answered, settled, first, reported, declared, kept>>
vars == <<scenario, db, req, queue, now, bounds, history>>

Server == {"local", "up"}
AnyTask == CHOOSE h \in Taskhash : TRUE
AnyOut == CHOOSE o \in Outhash : TRUE

-----------------------------------------------------------------------------
(* The statements of sqlite.py, on a database d.                            *)

Mapped(d) == DOMAIN d.unihashes
UnihashOf(d, h) == d.unihashes[h].unihash

With(f, x, v) == [y \in DOMAIN f \cup {x} |-> IF y = x THEN v ELSE f[y]]

\* Mutant: INSERT OR REPLACE.
Bug_InsertOrReplace(d, h, u) ==
    [d EXCEPT !.unihashes = With(@, h, [unihash |-> u, gc_mark |-> d.mark])]

\* Mutant: the current mark is left out.
Bug_InsertUnmarked(d, h, u) ==
    IF h \in Mapped(d) THEN d
    ELSE [d EXCEPT !.unihashes = With(@, h, [unihash |-> u, gc_mark |-> NoMark])]

\* insert_unihash: INSERT OR IGNORE, under the current mark.
InsertUnihash(d, h, u) ==
    IF h \in Mapped(d) THEN d
    ELSE [d EXCEPT !.unihashes = With(@, h, [unihash |-> u, gc_mark |-> d.mark])]

HasOuthash(d, h, o) == \E r \in d.outhashes : r.taskhash = h /\ r.outhash = o

InsertOuthash(d, h, o, t) ==
    IF HasOuthash(d, h, o) THEN d
    ELSE [d EXCEPT !.outhashes = @ \cup {[taskhash |-> h, outhash |-> o, created |-> t]}]

\* Mutant: true only when there was no such row.
Bug_InsertedIfAbsent(d, h, o) == ~HasOuthash(d, h, o)

\* What insert_outhash returns: it compares the lastrowid of the cursor with that
\* before the statement, which is None on a new cursor, so every row counts as new.
Inserted(d, h, o) == TRUE

\* Mutant: the newest.
Bug_Newest(rows) == CHOOSE r \in rows : \A s \in rows : r.created >= s.created

\* ORDER BY created ASC LIMIT 1.
Oldest(rows) == CHOOSE r \in rows : \A s \in rows : r.created <= s.created

\* The joins of outhashes_v2 with unihashes_v3.
Joined(d) == {r \in d.outhashes : r.taskhash \in Mapped(d)}

NoRow == [unihash |-> NoHash, taskhash |-> AnyTask, outhash |-> AnyOut, created |-> 0]
OldestRow(d, rows) ==
    LET r == Oldest(rows)
    IN  IF rows = {} THEN NoRow
        ELSE [unihash |-> UnihashOf(d, r.taskhash), taskhash |-> r.taskhash, outhash |-> r.outhash,
              created |-> r.created]

\* get_equivalent, get_unihash_by_taskhash_full, get_unihash_by_outhash.
ByTaskhash(d, h) == IF h \in Mapped(d) THEN [NoRow EXCEPT !.unihash = UnihashOf(d, h)] ELSE NoRow
ByTaskhashFull(d, h) == OldestRow(d, {r \in Joined(d) : r.taskhash = h})
ByOuthash(d, o) == OldestRow(d, {r \in Joined(d) : r.outhash = o})

\* Mutant: the outhash is left out of the condition.
Bug_EquivalentToAny(d, h, o) == OldestRow(d, {r \in Joined(d) : r.taskhash # h})

\* get_equivalent_for_outhash.
EquivalentFor(d, h, o) == OldestRow(d, {r \in Joined(d) : r.outhash = o /\ r.taskhash # h})

\* update_unified.
UpdateUnified(d, row) ==
    IF row = NoRow THEN d
    ELSE InsertOuthash(InsertUnihash(d, row.taskhash, row.unihash), row.taskhash, row.outhash, row.created)

\* handle_report of a server that reads through to no other.
ReportTo(d, h, o, u, t) ==
    LET with == InsertOuthash(d, h, o, t)
        same == EquivalentFor(with, h, o)
    IN  InsertUnihash(with, h, IF same = NoRow THEN u ELSE same.unihash)

-----------------------------------------------------------------------------
Idle == [pc |-> "idle", op |-> "get", taskhash |-> AnyTask, outhash |-> AnyOut,
         unihash |-> AnyTask, count |-> 0, told |-> NoRow]
NotAsked == [pc |-> "idle", unihash |-> NoHash]
EmptyDb == [unihashes |-> <<>>, outhashes |-> {}, mark |-> NoMark]

Init ==
    /\ db = [s \in Server |-> EmptyDb]
    /\ scenario \in Scenarios
    /\ req = [c \in Client |-> Idle]
    /\ backfill_queue = <<>> /\ backfill = NotAsked
    /\ now = 0 /\ requests = 0 /\ events = {}
    /\ answered = {} /\ settled = {} /\ first = <<>> /\ reported = {} /\ declared = {}
    /\ kept = [m \in Mark |-> {}]

local == db["local"]
upstream == scenario.upstream

\* An event of the scenario; events keeps what has happened.
Happens(kind) ==
    /\ kind \in scenario.events /\ Cardinality(events) < scenario.max_events
    /\ events' = events \cup {<<Cardinality(events), kind>>}
Never(kinds) == \A e \in events : e[2] \notin kinds

\* A new mapping is one its mark must keep.
Store(d) ==
    /\ db' = [db EXCEPT !["local"] = d]
    /\ kept' = [m \in Mark |-> IF m = d.mark THEN kept[m] \cup (Mapped(d) \ Mapped(local)) ELSE kept[m]]

\* The request of c goes on, and is done when row is its answer.
Ask(c) == req' = [req EXCEPT ![c].pc = "asked"]
Respond(c, row) == req' = [req EXCEPT ![c].pc = "done", ![c].told = row]

\* _send_wrapper: a broken connection is opened again and the request repeated,
\* three times at most.
Again(q) == IF q.count = 3 THEN Idle ELSE [q EXCEPT !.pc = "sent", !.count = @ + 1, !.told = NoRow]

-----------------------------------------------------------------------------
(* Builders.                                                               *)

\* A builder reports the unihash it has been given, or else the taskhash.
Sensible(q) ==
    /\ q.op \notin {"report", "report-readonly", "get-outhash"} => q.outhash = AnyOut
    /\ q.op \in {"get-outhash", "backfill-wait"} => q.taskhash = AnyTask
    /\ q.op = "backfill-wait" => upstream
    /\ q.op # "report-equiv" => \/ q.unihash = q.taskhash
                                \/ q.op = "report" /\ <<q.taskhash, q.unihash>> \in answered

Send(c) ==
    /\ c \in scenario.builders /\ req[c].pc = "idle" /\ requests < scenario.requests
    /\ requests' = requests + 1
    /\ \E op \in scenario.operations, h \in scenario.taskhashes,
          o \in scenario.outhashes \cup {AnyOut}, u \in scenario.taskhashes :
          LET q == [Idle EXCEPT !.op = op, !.taskhash = h, !.outhash = o, !.unihash = u, !.pc = "sent"]
          IN  Sensible(q) /\ req' = [req EXCEPT ![c] = q]
    /\ UNCHANGED <<scenario, db, queue, now, events, history>>

\* The answer reaches the builder.
Receive(c) ==
    /\ req[c].pc = "done"
    /\ req' = [req EXCEPT ![c] = Idle]
    /\ answered' = IF req[c].told.unihash \in Taskhash /\ req[c].op # "get-outhash"
                   THEN answered \cup {<<req[c].taskhash, req[c].told.unihash>>} ELSE answered
    /\ UNCHANGED <<scenario, db, queue, now, bounds, settled, first, reported, declared, kept>>

-----------------------------------------------------------------------------
(* The handlers, up to the answer or to the question to the upstream server. *)

\* What the local database says to the operations that only look something up.
Found(q) ==
    CASE q.op \in {"get-stream", "get"} -> ByTaskhash(local, q.taskhash)
      [] q.op = "get-all" -> ByTaskhashFull(local, q.taskhash)
      [] q.op \in {"get-outhash", "report-readonly"} -> ByOuthash(local, q.outhash)

\* handle_get, handle_get_outhash, handle_get_stream and report_readonly.
LookUp(c) ==
    /\ req[c].pc = "sent"
    /\ req[c].op \in {"get-stream", "get", "get-all", "get-outhash", "report-readonly"}
    /\ LET row == Found(req[c])
           own == [NoRow EXCEPT !.unihash = req[c].unihash]
       IN  IF row # NoRow THEN Respond(c, row)
           ELSE IF upstream THEN Ask(c)
           ELSE Respond(c, IF req[c].op = "report-readonly" THEN own ELSE NoRow)
    /\ reported' = IF req[c].op = "report-readonly"
                   THEN reported \cup {<<req[c].taskhash, req[c].outhash>>} ELSE reported
    /\ UNCHANGED <<scenario, db, queue, now, bounds, answered, settled, first, declared, kept>>

\* The end of handle_report: what is stored by now is the answer.  With sqlite there
\* is always a mapping.
FinishReport(c, after) ==
    LET h == req[c].taskhash
        row == IF h \in Mapped(after) THEN ByTaskhash(after, h) ELSE [NoRow EXCEPT !.unihash = req[c].unihash]
    IN  /\ Store(after)
        /\ Respond(c, row)
        /\ settled' = settled \cup {<<h, row.unihash>>}
        /\ first' = IF h \in Mapped(after) \ Mapped(local) THEN With(first, h, req[c].outhash) ELSE first

Report(c) ==
    LET h == req[c].taskhash
        o == req[c].outhash
        with == InsertOuthash(local, h, o, now)
        same == EquivalentFor(with, h, o)
        new == Inserted(local, h, o)
    IN  /\ req[c].pc = "sent" /\ req[c].op = "report"
        /\ now' = now + 1
        /\ reported' = reported \cup {<<h, o>>}
        /\ IF new /\ same = NoRow /\ upstream
           THEN Ask(c) /\ Store(with) /\ UNCHANGED <<settled, first>>
           ELSE FinishReport(c, IF new THEN InsertUnihash(with, h, IF same = NoRow THEN req[c].unihash
                                                                  ELSE same.unihash)
                                ELSE with)
        /\ UNCHANGED <<scenario, queue, bounds, answered, declared>>

\* handle_equivreport.
ReportEquiv(c) ==
    LET h == req[c].taskhash
        after == InsertUnihash(local, h, req[c].unihash)
    IN  /\ req[c].pc = "sent" /\ req[c].op = "report-equiv"
        /\ Store(after)
        /\ Respond(c, ByTaskhash(after, h))
        /\ declared' = declared \cup {<<h, req[c].unihash>>}
        /\ UNCHANGED <<scenario, queue, now, bounds, answered, settled, first, reported>>

-----------------------------------------------------------------------------
(* The upstream server, and the handlers after its answer.                  *)

\* What it says to get_unihash, get_taskhash and get_outhash of its client.
UpstreamAnswers(c) ==
    /\ req[c].pc = "asked"
    /\ LET up == db["up"]
           q == req[c]
           row == CASE q.op \in {"get-stream", "get"} -> ByTaskhash(up, q.taskhash)
                    [] q.op = "get-all" -> ByTaskhashFull(up, q.taskhash)
                    [] q.op \in {"get-outhash", "report", "report-readonly"} -> ByOuthash(up, q.outhash)
       IN  req' = [req EXCEPT ![c].pc = "told", ![c].told = row]
    /\ UNCHANGED <<scenario, db, queue, now, bounds, history>>

Told(c, op) == req[c].pc = "told" /\ req[c].op = op

StreamGoesOn(c) ==
    /\ Told(c, "get-stream")
    /\ Respond(c, req[c].told)
    /\ backfill_queue' = IF req[c].told = NoRow THEN backfill_queue
                         ELSE Append(backfill_queue, req[c].taskhash)
    /\ UNCHANGED <<scenario, db, backfill, now, bounds, history>>

\* get_unihash without fetch_all: of a taskhash that is unknown upstream it takes
\* fields of None, the exception ends the connection.
GetGoesOn(c) ==
    /\ Told(c, "get")
    /\ IF req[c].told = NoRow
       THEN req' = [req EXCEPT ![c] = Again(@)] /\ UNCHANGED <<db, kept>>
       ELSE Respond(c, req[c].told) /\ Store(InsertUnihash(local, req[c].taskhash, req[c].told.unihash))
    /\ UNCHANGED <<scenario, queue, now, bounds, answered, settled, first, reported, declared>>

UnifiedGoesOn(c) ==
    /\ \E op \in {"get-all", "get-outhash", "report-readonly"} : Told(c, op)
    /\ Store(UpdateUnified(local, req[c].told))
    /\ Respond(c, IF req[c].told = NoRow /\ req[c].op = "report-readonly"
                  THEN [NoRow EXCEPT !.unihash = req[c].unihash] ELSE req[c].told)
    /\ UNCHANGED <<scenario, queue, now, bounds, answered, settled, first, reported, declared>>

ReportGoesOn(c) ==
    /\ Told(c, "report")
    /\ FinishReport(c, InsertUnihash(local, req[c].taskhash,
                           IF req[c].told = NoRow THEN req[c].unihash ELSE req[c].told.unihash))
    /\ UNCHANGED <<scenario, queue, now, bounds, answered, reported, declared>>

\* handle_backfill_wait: queue.join().
BackfillWait(c) ==
    /\ req[c].pc = "sent" /\ req[c].op = "backfill-wait" /\ backfill_queue = <<>>
    /\ Respond(c, NoRow)
    /\ UNCHANGED <<scenario, db, queue, now, bounds, history>>

\* backfill_worker_task.
BackfillAsks ==
    /\ backfill.pc = "idle" /\ backfill_queue # <<>>
    /\ backfill' = [pc |-> "told", unihash |-> ByTaskhash(db["up"], Head(backfill_queue)).unihash]
    /\ UNCHANGED <<scenario, db, req, backfill_queue, now, bounds, history>>

\* Mutant: the worker dies of an unknown taskhash.
Bug_BackfillDies ==
    /\ backfill.pc = "told" /\ backfill.unihash # NoHash
    /\ Store(InsertUnihash(local, Head(backfill_queue), backfill.unihash))
    /\ backfill_queue' = Tail(backfill_queue) /\ backfill' = NotAsked
    /\ UNCHANGED <<scenario, req, now, bounds, answered, settled, first, reported, declared>>

BackfillStores ==
    /\ backfill.pc = "told"
    /\ IF backfill.unihash = NoHash THEN UNCHANGED <<db, kept>>
       ELSE Store(InsertUnihash(local, Head(backfill_queue), backfill.unihash))
    /\ backfill_queue' = Tail(backfill_queue) /\ backfill' = NotAsked
    /\ UNCHANGED <<scenario, req, now, bounds, answered, settled, first, reported, declared>>

\* Others report to the upstream server, and it forgets what is not marked.
UpstreamReport ==
    /\ upstream /\ Happens("upstream")
    /\ now' = now + 1
    /\ \E h \in scenario.taskhashes, o \in scenario.outhashes :
          /\ db' = [db EXCEPT !["up"] = ReportTo(@, h, o, h, now)]
          /\ reported' = reported \cup {<<h, o>>}
    /\ UNCHANGED <<scenario, req, queue, requests, answered, settled, first, declared, kept>>

UpstreamForgets ==
    /\ Happens("upstream")
    /\ \E h \in Mapped(db["up"]) : db' = [db EXCEPT !["up"].unihashes = Restrict(@, Mapped(db["up"]) \ {h})]
    /\ UNCHANGED <<scenario, req, queue, now, requests, history>>

-----------------------------------------------------------------------------
(* Administration.                                                         *)

Where == [column : {"taskhash", "unihash"}, value : Taskhash] \cup [column : {"outhash"}, value : Outhash]

MatchingUnihashes(w) ==
    {h \in Mapped(local) : \/ w.column = "taskhash" /\ h = w.value
                           \/ w.column = "unihash" /\ UnihashOf(local, h) = w.value}
MatchingOuthashes(w) ==
    {r \in local.outhashes : \/ w.column = "taskhash" /\ r.taskhash = w.value
                             \/ w.column = "outhash" /\ r.outhash = w.value}

\* Mappings that go take their history with them.
Drop(gone, outhashes, mark) ==
    /\ db' = [db EXCEPT !["local"] = [unihashes |-> Restrict(local.unihashes, Mapped(local) \ gone),
                                      outhashes |-> outhashes, mark |-> mark]]
    /\ settled' = {p \in settled : p[1] \notin gone}
    /\ first' = Restrict(first, DOMAIN first \ gone)
    /\ kept' = [m \in Mark |-> kept[m] \ gone]
    /\ UNCHANGED <<scenario, req, queue, now, requests, answered, reported, declared>>

Remove(w) ==
    /\ Happens("remove")
    /\ Drop(MatchingUnihashes(w), local.outhashes \ MatchingOuthashes(w), local.mark)

\* The mappings when those of taskhashes are marked with m.
WithMark(taskhashes, m) ==
    [h \in Mapped(local) |->
        IF h \in taskhashes THEN [local.unihashes[h] EXCEPT !.gc_mark = m] ELSE local.unihashes[h]]

GcMark(m, w) ==
    LET marked == MatchingUnihashes(w)
    IN  /\ Happens("collect")
        /\ db' = [db EXCEPT !["local"] =
                     [unihashes |-> WithMark(marked, m), outhashes |-> local.outhashes, mark |-> m]]
        /\ kept' = [x \in Mark |-> IF x = m THEN kept[x] \cup marked ELSE kept[x] \ marked]
        /\ UNCHANGED <<scenario, req, queue, now, requests,
                       answered, settled, first, reported, declared>>

\* handle_gc_sweep refuses a mark that is not the current one.
GcSweep(m) ==
    /\ Happens("collect") /\ local.mark = m
    /\ Drop({h \in Mapped(local) : local.unihashes[h].gc_mark # local.mark}, local.outhashes, NoMark)

\* handle_clean_unused: the limit it computes, now - (-max_age), is never in the past,
\* so the age of a row does not matter.
CleanUnused ==
    /\ Happens("clean")
    /\ Drop({}, Joined(local), local.mark)

-----------------------------------------------------------------------------
(* The server dies and is started again.  A request may be repeated until   *)
(* it is, or given up.                                                     *)

Broken(d) ==
    /\ Happens("crash")
    /\ db' = [db EXCEPT !["local"] = d]
    /\ \E given_up \in SUBSET Client :
          req' = [c \in Client |-> IF req[c].pc = "idle" \/ c \in given_up THEN Idle ELSE Again(req[c])]
    /\ backfill_queue' = <<>> /\ backfill' = NotAsked
    /\ UNCHANGED <<scenario, requests, answered, settled, first, declared, kept>>

Crash == Broken(local) /\ UNCHANGED <<now, reported>>

\* Between the two commits of handle_report.
CrashInReport(c) ==
    LET h == req[c].taskhash
        o == req[c].outhash
    IN  /\ req[c].pc = "sent" /\ req[c].op = "report"
        /\ Broken(InsertOuthash(local, h, o, now))
        /\ now' = now + 1 /\ reported' = reported \cup {<<h, o>>}

-----------------------------------------------------------------------------
Handle(c) ==
    \/ LookUp(c) \/ Report(c) \/ ReportEquiv(c) \/ BackfillWait(c)
    \/ StreamGoesOn(c) \/ GetGoesOn(c) \/ UnifiedGoesOn(c) \/ ReportGoesOn(c)
Backfill == BackfillAsks \/ BackfillStores

Admin ==
    \/ \E w \in Where : Remove(w) \/ \E m \in Mark : GcMark(m, w)
    \/ \E m \in Mark : GcSweep(m)
    \/ CleanUnused

Next ==
    \/ \E c \in Client : Send(c) \/ Handle(c) \/ UpstreamAnswers(c) \/ Receive(c) \/ CrashInReport(c)
    \/ Backfill \/ UpstreamReport \/ UpstreamForgets
    \/ Admin
    \/ Crash

Progress ==
    \/ \E c \in Client : Receive(c) \/ UpstreamAnswers(c) \/ Handle(c)
    \/ Backfill

\* The loop of the server goes on while anything is ready, and so does the upstream
\* server's; nothing is assumed of the order.
Spec == Init /\ [][Next]_vars /\ WF_vars(Progress)

-----------------------------------------------------------------------------
(* Properties.                                                             *)

\* The types of the state; no row of unihashes_v3 is without a unihash.
TypeOK ==
    /\ \A s \in Server :
          /\ Mapped(db[s]) \subseteq Taskhash
          /\ \A h \in Mapped(db[s]) : db[s].unihashes[h] \in [unihash : Taskhash, gc_mark : Mark \cup {NoMark}]
          /\ db[s].outhashes \subseteq [taskhash : Taskhash, outhash : Outhash, created : 0..now]
          /\ db[s].mark \in Mark \cup {NoMark}
    /\ \A c \in Client : /\ req[c].pc \in {"idle", "sent", "asked", "told", "done"}
                         /\ req[c].op \in Operation /\ req[c].count \in 0..3
    /\ backfill_queue \in Seq(Taskhash) /\ (backfill_queue = <<>> => backfill = NotAsked)
    /\ settled \subseteq Taskhash \X Taskhash /\ DOMAIN first \subseteq Taskhash

\* The lines of reports and declarations that lead from h to g.
Linked(h, g) ==
    LET Step(x, y) == \/ \E o \in Outhash : <<x, o>> \in reported /\ <<y, o>> \in reported
                      \/ <<x, y>> \in declared \/ <<y, x>> \in declared
    IN  h = g \/ \A S \in SUBSET Taskhash :
           h \in S /\ (\A x \in S : \A y \in Taskhash : Step(x, y) => y \in S) => g \in S

\* get_equivalent_for_outhash and the reads through to the upstream server: a task is
\* given the unihash of another only if reports of equal outputs, or declared
\* equivalences, lead from one to the other.
Justified ==
    /\ \A s \in Server : \A h \in Mapped(db[s]) : Linked(h, UnihashOf(db[s], h))
    /\ \A p \in answered : Linked(p[1], p[2])

\* The rows of both databases have the right shape and a reason.
RowsSound == TypeOK /\ Justified

\* handle_report: what a report is answered is what the server has stored, and says
\* until it is removed; however often requests race, are repeated or cut short.
ReportsSettle == \A p \in settled : p[1] \in Mapped(local) /\ UnihashOf(local, p[1]) = p[2]

\* INSERT OR IGNORE: a mapping is removed or kept, never changed, test_duplicate_taskhash.
MappingsStay ==
    [][\A s \in Server : \A h \in Mapped(db[s]) \cap Mapped(db'[s]) :
          UnihashOf(db'[s], h) = UnihashOf(db[s], h)]_vars

\* gc_mark: "any new entries added to the database after this command will be
\* automatically marked": a sweep deletes nothing its collection was told to keep.
SweepSpares == [][\A m \in Mark : GcSweep(m) => kept[m] \subseteq Mapped(db'["local"])]_vars

Shared == \A g, h \in DOMAIN first : first[g] = first[h] => UnihashOf(local, g) = UnihashOf(local, h)

\* handle_report: without upstream server, tasks that are mapped by a report of the
\* same output have the same unihash, while nothing is removed and the server does not
\* die between its two commits.
EqualOutputsShare == ~upstream /\ Never({"remove", "collect", "clean", "crash"}) => Shared

\* "Tests that a second reported task with the same outhash will be assigned the same
\* unihash": with an upstream server as well, while nothing fails.
SecondReportShares == events = {} /\ declared = {} => Shared

\* Every request is answered, or given up after three repetitions; also the wait for
\* the backfill queue.
RequestsEnd == <>[](\A c \in Client : req[c].pc = "idle")

=============================================================================
