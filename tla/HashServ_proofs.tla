-------------------------- MODULE HashServ_proofs --------------------------
(***************************************************************************)
(* Proofs about HashServ, for any sets of hashes, builders and scenarios:  *)
(* mappings are never changed, answers to reports stay true, a sweep       *)
(* spares what was marked, equal outputs share a unihash, and every        *)
(* unihash that is stored or given away has a reason.                      *)
(***************************************************************************)
EXTENDS HashServ, FiniteSetTheorems, TLAPS

-----------------------------------------------------------------------------
(* The databases, and what the statements do to one.                       *)

Row == [unihash : Taskhash, gc_mark : Mark \cup {NoMark}]
Out == [taskhash : Taskhash, outhash : Outhash, created : Nat]

Table(t) == DOMAIN t \subseteq Taskhash /\ t \in [DOMAIN t -> Row]

Db(d) ==
    /\ d = [unihashes |-> d.unihashes, outhashes |-> d.outhashes, mark |-> d.mark]
    /\ Table(d.unihashes) /\ d.outhashes \subseteq Out /\ d.mark \in Mark \cup {NoMark}

\* e has the mappings of d, and new ones under the mark of d.
Grows(d, e) ==
    /\ Db(e) /\ e.mark = d.mark /\ Mapped(d) \subseteq Mapped(e)
    /\ \A h \in Mapped(d) : e.unihashes[h] = d.unihashes[h]
    /\ \A h \in Mapped(e) \ Mapped(d) : e.unihashes[h].gc_mark = d.mark

LEMMA GrowsFromItself == ASSUME NEW d, Db(d) PROVE Grows(d, d)
BY DEF Grows

LEMMA GrowsOn ==
    ASSUME NEW d, NEW e, NEW f, Db(d), Grows(d, e), Grows(e, f)
    PROVE  Grows(d, f)
BY DEF Grows

LEMMA WithAdds ==
    ASSUME NEW f, NEW x, NEW v
    PROVE  /\ DOMAIN With(f, x, v) = DOMAIN f \cup {x} /\ With(f, x, v)[x] = v
           /\ \A y \in DOMAIN f : y # x => With(f, x, v)[y] = f[y]
BY DEF With

LEMMA InsertUnihashDoes ==
    ASSUME NEW d, Db(d), NEW h \in Taskhash, NEW u \in Taskhash
    PROVE  /\ Grows(d, InsertUnihash(d, h, u))
           /\ Mapped(InsertUnihash(d, h, u)) = Mapped(d) \cup {h}
           /\ h \notin Mapped(d) => UnihashOf(InsertUnihash(d, h, u), h) = u
           /\ InsertUnihash(d, h, u).outhashes = d.outhashes
<1>1. CASE h \in Mapped(d)
  BY <1>1 DEF InsertUnihash, Mapped, Grows
<1>2. CASE h \notin Mapped(d)
  <2> DEFINE row == [unihash |-> u, gc_mark |-> d.mark]
             t == With(d.unihashes, h, row)
             e == [d EXCEPT !.unihashes = t]
  <2>1. InsertUnihash(d, h, u) = e
    BY <1>2 DEF InsertUnihash
  <2>2. e = [unihashes |-> t, outhashes |-> d.outhashes, mark |-> d.mark]
    BY DEF Db
  <2>3. row \in Row /\ row.unihash = u /\ row.gc_mark = d.mark
    BY DEF Row, Db
  <2> HIDE DEF row
  <2>5. t = [y \in DOMAIN d.unihashes \cup {h} |-> IF y = h THEN row ELSE d.unihashes[y]]
    BY DEF With
  <2>4. /\ DOMAIN t = Mapped(d) \cup {h} /\ t[h] = row
        /\ \A g \in Mapped(d) : t[g] = d.unihashes[g]
    BY <1>2, <2>5 DEF Mapped
  <2>6. Table(t)
    <3>1. \A y \in DOMAIN d.unihashes : d.unihashes[y] \in Row
      BY DEF Db, Table
    <3>2. t \in [DOMAIN d.unihashes \cup {h} -> Row]
      BY <2>3, <2>5, <3>1
    <3> QED  BY <2>4, <3>2 DEF Table, Mapped, Db
  <2> HIDE DEF t
  <2>7. e.unihashes = t /\ e.outhashes = d.outhashes /\ e.mark = d.mark
    BY <2>2
  <2>8. Db(e)
    BY <2>2, <2>6, <2>7 DEF Db
  <2> HIDE DEF e
  <2> QED  BY <1>2, <2>1, <2>3, <2>4, <2>7, <2>8 DEF Grows, Mapped, UnihashOf
<1> QED  BY <1>1, <1>2

LEMMA InsertOuthashDoes ==
    ASSUME NEW d, Db(d), NEW h \in Taskhash, NEW o \in Outhash, NEW t \in Nat
    PROVE  /\ Db(InsertOuthash(d, h, o, t))
           /\ InsertOuthash(d, h, o, t).unihashes = d.unihashes
           /\ InsertOuthash(d, h, o, t).mark = d.mark
           /\ InsertOuthash(d, h, o, t).outhashes =
                IF HasOuthash(d, h, o) THEN d.outhashes
                ELSE d.outhashes \cup {[taskhash |-> h, outhash |-> o, created |-> t]}
           /\ Grows(d, InsertOuthash(d, h, o, t))
<1> DEFINE e == InsertOuthash(d, h, o, t)
<1>1. CASE HasOuthash(d, h, o)
  BY <1>1, GrowsFromItself DEF InsertOuthash
<1>2. CASE ~HasOuthash(d, h, o)
  <2> DEFINE rows == d.outhashes \cup {[taskhash |-> h, outhash |-> o, created |-> t]}
  <2>1. e = [d EXCEPT !.outhashes = rows]
    BY <1>2 DEF InsertOuthash
  <2>2. rows \subseteq Out
    BY DEF Db, Out
  <2> HIDE DEF rows, e
  <2>3. e = [unihashes |-> d.unihashes, outhashes |-> rows, mark |-> d.mark]
    BY <2>1 DEF Db
  <2>4. Db(e)
    BY <2>2, <2>3 DEF Db
  <2>5. Grows(d, e)
    BY <2>3, <2>4 DEF Grows, Mapped
  <2> QED  BY <1>2, <2>3, <2>4, <2>5 DEF e, rows
<1> QED  BY <1>1, <1>2

-----------------------------------------------------------------------------
(* The lookups.                                                            *)

FullRow == [unihash : Taskhash, taskhash : Taskhash, outhash : Outhash, created : Nat]
Answer == FullRow \cup {NoRow}

LEMMA AnyIsThere == AnyTask \in Taskhash /\ AnyOut \in Outhash
BY HashServAssumption DEF AnyTask, AnyOut

LEMMA NoRowIsNone ==
    NoRow \notin FullRow /\ \A u \in Taskhash : [NoRow EXCEPT !.unihash = u] \in FullRow
BY AnyIsThere, HashServAssumption DEF NoRow, FullRow

\* A set of numbers has a smallest one: of the intervals that end in one of
\* them, finite sets all, some is minimal.
LEMMA Smallest ==
    ASSUME NEW T, T \subseteq Nat, T # {}
    PROVE  \E x \in T : \A y \in T : x <= y
<1> DEFINE R == StrictSubsetOrdering(Nat)
           D == {0 .. x : x \in T}
<1>1. IsWellFoundedOn(R, FiniteSubsetsOf(Nat))
  BY FS_StrictSubsetOrderingWellFounded
<1>2. \A x \in T : 0 .. x \in SUBSET Nat /\ IsFiniteSet(0 .. x)
  BY FS_Interval
<1>3. D \subseteq FiniteSubsetsOf(Nat) /\ D # {}
  BY <1>2 DEF FiniteSubsetsOf
<1> HIDE DEF R
<1>4. PICK d \in D : \A e \in D : <<e, d>> \notin R
  BY <1>1, <1>3, WFMin
<1>5. PICK x \in T : d = 0 .. x
  OBVIOUS
<1>6. ASSUME NEW y \in T, y < x PROVE FALSE
  <2>1. 0 .. y \in D /\ 0 .. y \subseteq 0 .. x /\ 0 .. y # 0 .. x
    BY <1>6
  <2>2. <<0 .. y, 0 .. x>> \in R
    BY <1>2, <2>1 DEF R, StrictSubsetOrdering
  <2> QED  BY <1>4, <1>5, <2>1, <2>2
<1> QED  BY <1>6

LEMMA OldestIs ==
    ASSUME NEW rows, rows \subseteq Out, rows # {}
    PROVE  Oldest(rows) \in rows /\ \A r \in rows : Oldest(rows).created <= r.created
<1> DEFINE T == {r.created : r \in rows}
<1>1. T \subseteq Nat /\ T # {}
  BY DEF Out
<1>2. PICK x \in T : \A y \in T : x <= y
  BY <1>1, Smallest
<1>3. \E r \in rows : \A q \in rows : r.created <= q.created
  BY <1>2
<1> QED  BY <1>3 DEF Oldest

\* What a lookup finds: the row of r with the unihash it is mapped to.
Of(d, r) == [unihash |-> UnihashOf(d, r.taskhash), taskhash |-> r.taskhash, outhash |-> r.outhash,
             created |-> r.created]

LEMMA OldestRowIs ==
    ASSUME NEW d, Db(d), NEW rows, rows \subseteq Joined(d)
    PROVE  /\ rows = {} => OldestRow(d, rows) = NoRow
           /\ rows # {} => /\ OldestRow(d, rows) \in FullRow
                           /\ OldestRow(d, rows) = Of(d, Oldest(rows))
                           /\ Oldest(rows) \in rows
<1>1. rows \subseteq Out
  BY DEF Joined, Db
<1>2. CASE rows = {}
  BY <1>2 DEF OldestRow
<1>3. CASE rows # {}
  <2>1. Oldest(rows) \in rows
    BY <1>1, <1>3, OldestIs
  <2>2. OldestRow(d, rows) = Of(d, Oldest(rows))
    BY <1>3 DEF OldestRow, Of
  <2>3. UnihashOf(d, Oldest(rows).taskhash) \in Taskhash
    BY <2>1 DEF Joined, Mapped, UnihashOf, Db, Table, Row
  <2>4. Of(d, Oldest(rows)) \in FullRow
    BY <1>1, <2>1, <2>3 DEF Of, FullRow, Out
  <2> QED  BY <1>3, <2>1, <2>2, <2>4
<1> QED  BY <1>2, <1>3

LEMMA LookupTypes ==
    ASSUME NEW d, Db(d), NEW h \in Taskhash, NEW o \in Outhash
    PROVE  /\ ByTaskhash(d, h) \in Answer /\ ByTaskhashFull(d, h) \in Answer
           /\ ByOuthash(d, o) \in Answer /\ EquivalentFor(d, h, o) \in Answer
           /\ h \in Mapped(d) => UnihashOf(d, h) \in Taskhash
<1>1. h \in Mapped(d) => UnihashOf(d, h) \in Taskhash
  BY DEF Mapped, UnihashOf, Db, Table, Row
<1>2. ByTaskhash(d, h) \in Answer
  BY <1>1, NoRowIsNone DEF ByTaskhash, Answer
<1>3. ByTaskhashFull(d, h) \in Answer
  <2>1. {r \in Joined(d) : r.taskhash = h} \subseteq Joined(d)
    OBVIOUS
  <2> QED  BY <2>1, OldestRowIs DEF ByTaskhashFull, Answer
<1>4. ByOuthash(d, o) \in Answer
  <2>1. {r \in Joined(d) : r.outhash = o} \subseteq Joined(d)
    OBVIOUS
  <2> QED  BY <2>1, OldestRowIs DEF ByOuthash, Answer
<1>5. EquivalentFor(d, h, o) \in Answer
  <2>1. {r \in Joined(d) : r.outhash = o /\ r.taskhash # h} \subseteq Joined(d)
    OBVIOUS
  <2> QED  BY <2>1, OldestRowIs DEF EquivalentFor, Answer
<1> QED  BY <1>1, <1>2, <1>3, <1>4, <1>5

LEMMA UpdateUnifiedGrows ==
    ASSUME NEW d, Db(d), NEW row \in Answer
    PROVE  Grows(d, UpdateUnified(d, row))
<1>1. CASE row = NoRow
  BY <1>1, GrowsFromItself DEF UpdateUnified
<1>2. CASE row # NoRow
  <2>1. row \in FullRow
    BY <1>2 DEF Answer
  <2> DEFINE e == InsertUnihash(d, row.taskhash, row.unihash)
  <2>2. Grows(d, e)
    BY <2>1, InsertUnihashDoes DEF FullRow
  <2>3. Db(e)
    BY <2>2 DEF Grows
  <2> HIDE DEF e
  <2>4. Grows(e, InsertOuthash(e, row.taskhash, row.outhash, row.created))
    BY <2>1, <2>3, InsertOuthashDoes DEF FullRow
  <2> QED  BY <1>2, <2>2, <2>4, GrowsOn DEF UpdateUnified, e
<1> QED  BY <1>1, <1>2

LEMMA ReportToGrows ==
    ASSUME NEW d, Db(d), NEW h \in Taskhash, NEW o \in Outhash, NEW u \in Taskhash, NEW t \in Nat
    PROVE  Grows(d, ReportTo(d, h, o, u, t))
<1> DEFINE with == InsertOuthash(d, h, o, t)
           same == EquivalentFor(with, h, o)
           v == IF same = NoRow THEN u ELSE same.unihash
<1>1. Db(with) /\ Grows(d, with)
  BY InsertOuthashDoes
<1> HIDE DEF with
<1>2. v \in Taskhash
  BY <1>1, LookupTypes DEF Answer, FullRow
<1> HIDE DEF v
<1>3. Grows(with, InsertUnihash(with, h, v))
  BY <1>1, <1>2, InsertUnihashDoes
<1> QED  BY <1>1, <1>3, GrowsOn DEF ReportTo, with, v

-----------------------------------------------------------------------------
(* The invariant.                                                          *)

\* What the upstream server may be asked for.
Passed == {"get-stream", "get", "get-all", "get-outhash", "report", "report-readonly"}

Request ==
    {q \in [pc : {"idle", "sent", "asked", "told", "done"}, op : Operation, taskhash : Taskhash,
            outhash : Outhash, unihash : Taskhash, count : 0 .. 3, told : Answer] :
        q.pc \in {"asked", "told"} => q.op \in Passed}

DbInv == db = [s \in Server |-> db[s]] /\ \A s \in Server : Db(db[s])

QueueInv ==
    /\ backfill_queue \in Seq(Taskhash)
    /\ backfill \in [pc : {"idle", "told"}, unihash : Taskhash \cup {NoHash}]
    /\ backfill_queue = <<>> => backfill = NotAsked

ClientInv == scenario \in Scenarios /\ req \in [Client -> Request] /\ now \in Nat

\* What a mark must keep has that mark.
KeptInv ==
    /\ kept = [m \in Mark |-> kept[m]]
    /\ \A m \in Mark : \A h \in kept[m] : h \in Mapped(local) /\ local.unihashes[h].gc_mark = m

StateInv == DbInv /\ QueueInv /\ ClientInv

HashInv == StateInv /\ KeptInv /\ ReportsSettle

\* The body of MappingsStay.
Stay ==
    \A s \in Server : \A h \in Mapped(db[s]) \cap Mapped(db'[s]) :
        UnihashOf(db'[s], h) = UnihashOf(db[s], h)

LEMMA LocalDb == DbInv => Db(local) /\ Db(db["up"])
BY DEF DbInv, Server, local

LEMMA HashInit == Init => HashInv
<1> SUFFICES ASSUME Init PROVE HashInv
  OBVIOUS
<1> USE DEF Init
<1>1. Db(EmptyDb)
  BY DEF EmptyDb, Db, Table, Mapped
<1>2. DbInv
  BY <1>1 DEF DbInv
<1>3. Idle \in Request
  BY AnyIsThere DEF Idle, Request, Operation, Answer
<1>4. ClientInv /\ QueueInv
  BY <1>3 DEF ClientInv, QueueInv, NotAsked
<1>5. KeptInv /\ ReportsSettle
  BY DEF KeptInv, ReportsSettle
<1> QED  BY <1>2, <1>4, <1>5 DEF HashInv, StateInv

-----------------------------------------------------------------------------
(* What steps do to the databases.                                         *)

\* The local database grows; the other stays.
LEMMA StoreKeeps ==
    ASSUME DbInv, KeptInv, NEW e, Grows(local, e), Store(e)
    PROVE  /\ DbInv' /\ KeptInv' /\ Stay /\ local' = e
           /\ \A h \in Mapped(local) : h \in Mapped(local)' /\ UnihashOf(local, h)' = UnihashOf(local, h)
<1>1. db' = [db EXCEPT !["local"] = e]
  BY DEF Store
<1>2. local' = e /\ db'["up"] = db["up"] /\ db' = [s \in Server |-> db'[s]]
  BY <1>1 DEF DbInv, Server, local
<1>3. DbInv'
  BY <1>2 DEF DbInv, Server, local, Grows
<1>4. \A h \in Mapped(local) : h \in Mapped(e) /\ e.unihashes[h] = local.unihashes[h]
  BY DEF Grows
<1>5. KeptInv'
  <2> SUFFICES ASSUME NEW m \in Mark, NEW h \in kept'[m]
               PROVE  h \in Mapped(e) /\ e.unihashes[h].gc_mark = m
    BY <1>2 DEF KeptInv, Store
  <2>1. CASE h \in kept[m]
    BY <1>4, <2>1 DEF KeptInv
  <2>2. CASE h \notin kept[m]
    <3>1. m = e.mark /\ h \in Mapped(e) \ Mapped(local)
      BY <2>2 DEF Store
    <3> QED  BY <3>1 DEF Grows
  <2> QED  BY <2>1, <2>2
<1>6. Stay
  BY <1>2, <1>4 DEF Stay, Server, local, Mapped, UnihashOf
<1> QED  BY <1>2, <1>3, <1>4, <1>5, <1>6 DEF Mapped, UnihashOf

\* No mapping of the local database changes, nor does its mark.
LEMMA SameKeeps ==
    ASSUME DbInv, KeptInv, DbInv', kept' = kept,
           \A s \in Server : \A h \in Mapped(db[s]) \cap Mapped(db'[s]) :
               db'[s].unihashes[h] = db[s].unihashes[h],
           Mapped(local) \subseteq Mapped(local')
    PROVE  KeptInv' /\ Stay
BY DEF KeptInv, Stay, UnihashOf, Server, local

LEMMA DropKeeps ==
    ASSUME DbInv, KeptInv, ReportsSettle,
           NEW gone, NEW rows, rows \subseteq local.outhashes,
           NEW mark \in Mark \cup {NoMark}, Drop(gone, rows, mark)
    PROVE  DbInv' /\ KeptInv' /\ ReportsSettle' /\ Stay
<1> DEFINE t == Restrict(local.unihashes, Mapped(local) \ gone)
           e == [unihashes |-> t, outhashes |-> rows, mark |-> mark]
<1>1. db' = [db EXCEPT !["local"] = e]
  BY DEF Drop
<1>2. DOMAIN t = Mapped(local) \ gone /\ \A h \in DOMAIN t : t[h] = local.unihashes[h]
  BY DEF Restrict
<1>3. Table(t)
  <2>1. t \in [Mapped(local) \ gone -> Row]
    BY LocalDb DEF Restrict, Db, Table, Mapped
  <2> QED  BY <1>2, <2>1, LocalDb DEF Db, Table, Mapped
<1> HIDE DEF t
<1>4. Db(e)
  BY <1>3, LocalDb DEF Db
<1>5. Mapped(e) = DOMAIN t /\ e.unihashes = t
  BY DEF Mapped
<1> HIDE DEF e
<1>6. local' = e /\ db'["up"] = db["up"] /\ db' = [s \in Server |-> db'[s]]
  BY <1>1 DEF DbInv, Server, local
<1>7. DbInv'
  BY <1>4, <1>6 DEF DbInv, Server, local
<1>8. KeptInv'
  <2>1. \A m \in Mark : kept'[m] = kept[m] \ gone
    BY DEF Drop
  <2>2. kept' = [m \in Mark |-> kept'[m]]
    BY DEF Drop
  <2> QED  BY <1>2, <1>5, <1>6, <2>1, <2>2 DEF KeptInv
<1>9. ReportsSettle'
  BY <1>2, <1>5, <1>6 DEF Drop, ReportsSettle, UnihashOf
<1>10. Stay
  BY <1>2, <1>5, <1>6 DEF Stay, Server, local, UnihashOf
<1> QED  BY <1>7, <1>8, <1>9, <1>10

-----------------------------------------------------------------------------
(* What steps do to the requests.                                          *)

LEMMA RequestTypes ==
    ASSUME ClientInv, NEW c \in Client
    PROVE  /\ req[c] \in Request
           /\ req[c].taskhash \in Taskhash /\ req[c].outhash \in Outhash
           /\ req[c].unihash \in Taskhash /\ req[c].told \in Answer
           /\ req[c].told # NoRow => req[c].told.unihash \in Taskhash
BY DEF ClientInv, Request, Answer, FullRow

LEMMA RespondTypes ==
    ASSUME ClientInv, NEW c \in Client, NEW row \in Answer, Respond(c, row)
    PROVE  req' \in [Client -> Request]
BY DEF ClientInv, Respond, Request

LEMMA AskTypes ==
    ASSUME ClientInv, NEW c \in Client, Ask(c), req[c].op \in Passed
    PROVE  req' \in [Client -> Request]
BY DEF ClientInv, Ask, Request

LEMMA AgainTypes ==
    ASSUME NEW q \in Request
    PROVE  Again(q) \in Request /\ Idle \in Request
<1>1. NoRow \in Answer /\ "get" \in Operation
  BY DEF Answer, Operation
<1>2. Idle \in Request
  BY <1>1, AnyIsThere DEF Idle, Request
<1>3. CASE q.count = 3
  BY <1>2, <1>3 DEF Again
<1>4. CASE q.count # 3
  <2> DEFINE n == NoRow
  <2>1. Again(q) = [q EXCEPT !.pc = "sent", !.count = @ + 1, !.told = n]
    BY <1>4 DEF Again
  <2>2. n \in Answer
    BY <1>1
  <2> HIDE DEF n
  <2>3. q.count + 1 \in 0 .. 3
    BY <1>4 DEF Request
  <2>4. [q EXCEPT !.pc = "sent", !.count = @ + 1, !.told = n] \in Request
    BY <2>2, <2>3 DEF Request
  <2> QED  BY <1>2, <2>1, <2>4
<1> QED  BY <1>3, <1>4

-----------------------------------------------------------------------------
(* The actions.                                                            *)

LEMMA Untouched ==
    ASSUME HashInv, db' = db, kept' = kept, settled' = settled
    PROVE  DbInv' /\ KeptInv' /\ ReportsSettle' /\ Stay
BY DEF HashInv, StateInv, DbInv, KeptInv, ReportsSettle, Stay, local, UnihashOf, Mapped

\* A step that stores something and settles no report.
LEMMA StoreSettles ==
    ASSUME HashInv, NEW e, Grows(local, e), Store(e), settled' = settled
    PROVE  DbInv' /\ KeptInv' /\ ReportsSettle' /\ Stay
<1>1. DbInv /\ KeptInv /\ ReportsSettle
  BY DEF HashInv, StateInv
<1>2. ReportsSettle'
  BY <1>1, StoreKeeps DEF ReportsSettle
<1> QED  BY <1>1, <1>2, StoreKeeps

LEMMA FinishKeeps ==
    ASSUME HashInv, NEW c \in Client, NEW after, Grows(local, after),
           req[c].taskhash \in Mapped(after), FinishReport(c, after)
    PROVE  DbInv' /\ KeptInv' /\ ReportsSettle' /\ Stay /\ req' \in [Client -> Request]
<1>1. Db(after) /\ ClientInv /\ DbInv /\ KeptInv /\ ReportsSettle
  BY DEF HashInv, StateInv, Grows
<1>2. PICK h \in Taskhash : h = req[c].taskhash
  BY <1>1, RequestTypes
<1> DEFINE row == ByTaskhash(after, h)
<1>3. Store(after) /\ Respond(c, row) /\ settled' = settled \cup {<<h, row.unihash>>}
  BY <1>2 DEF FinishReport
<1>4. row \in Answer
  <2>1. AnyOut \in Outhash
    BY AnyIsThere
  <2> QED  BY <1>1, <2>1, LookupTypes
<1>5. row.unihash = UnihashOf(after, h)
  BY <1>2 DEF ByTaskhash, NoRow
<1>6. /\ DbInv' /\ KeptInv' /\ Stay /\ local' = after
      /\ \A g \in Mapped(local) : g \in Mapped(local)' /\ UnihashOf(local, g)' = UnihashOf(local, g)
  BY <1>1, <1>3, StoreKeeps
<1> HIDE DEF row
<1>7. ReportsSettle'
  BY <1>1, <1>2, <1>3, <1>5, <1>6 DEF ReportsSettle
<1>8. req' \in [Client -> Request]
  BY <1>1, <1>3, <1>4, RespondTypes
<1> QED  BY <1>6, <1>7, <1>8

Sent(op, h, o, u) ==
    [Idle EXCEPT !.op = op, !.taskhash = h, !.outhash = o, !.unihash = u, !.pc = "sent"]

LEMMA SendSends ==
    ASSUME NEW c \in Client, Send(c)
    PROVE  \E op \in scenario.operations, h \in scenario.taskhashes,
             o \in scenario.outhashes \cup {AnyOut}, u \in scenario.taskhashes :
             req' = [req EXCEPT ![c] = Sent(op, h, o, u)]
<1>1. \E op \in scenario.operations, h \in scenario.taskhashes,
         o \in scenario.outhashes \cup {AnyOut}, u \in scenario.taskhashes :
            Sensible(Sent(op, h, o, u)) /\ req' = [req EXCEPT ![c] = Sent(op, h, o, u)]
  BY DEF Send, Sent
<1> HIDE DEF Sent
<1> QED  BY <1>1

LEMMA SendKeeps ==
    ASSUME HashInv, NEW c \in Client, Send(c) \/ Receive(c)
    PROVE  HashInv' /\ Stay
<1> USE DEF HashInv, StateInv
<1>1. db' = db /\ kept' = kept /\ settled' = settled /\ UNCHANGED <<queue, scenario, now>>
  BY DEF Send, Receive, history
<1>2. req' \in [Client -> Request]
  <2>1. CASE Receive(c)
    BY <2>1, AgainTypes, RequestTypes DEF Receive, ClientInv
  <2>2. CASE Send(c)
    <3>1. /\ scenario.operations \subseteq Operation /\ scenario.taskhashes \subseteq Taskhash
          /\ scenario.outhashes \subseteq Outhash
      BY HashServAssumption DEF ClientInv, ScenarioType
    <3>2. PICK op \in scenario.operations, h \in scenario.taskhashes,
               o \in scenario.outhashes \cup {AnyOut}, u \in scenario.taskhashes :
            req' = [req EXCEPT ![c] = Sent(op, h, o, u)]
      BY <2>2, SendSends
    <3>3. op \in Operation /\ h \in Taskhash /\ o \in Outhash /\ u \in Taskhash
      BY <3>1, AnyIsThere
    <3> DEFINE q == Sent(op, h, o, u)
    <3>4. q \in Request
      <4>1. NoRow \in Answer
        BY DEF Answer
      <4>2. Idle \in Request
        BY AgainTypes, RequestTypes
      <4> HIDE DEF HashInv, StateInv
      <4> QED  BY <3>3, <4>2 DEF Sent, Request
    <3> HIDE DEF q
    <3>5. req' = [req EXCEPT ![c] = q]
      BY <3>2 DEF q
    <3> QED  BY <3>4, <3>5 DEF ClientInv
  <2> QED  BY <2>1, <2>2
<1> QED  BY <1>1, <1>2, Untouched DEF ClientInv, QueueInv, queue

LEMMA LookUpKeeps ==
    ASSUME HashInv, NEW c \in Client, LookUp(c)
    PROVE  HashInv' /\ Stay
<1> USE DEF HashInv, StateInv
<1>1. db' = db /\ kept' = kept /\ settled' = settled /\ UNCHANGED <<queue, scenario, now>>
  BY DEF LookUp
<1>2. Db(local) /\ ClientInv
  BY LocalDb
<1>3. Found(req[c]) \in Answer
  <2>1. req[c].op \in {"get-stream", "get", "get-all", "get-outhash", "report-readonly"}
    BY DEF LookUp
  <2>2. /\ ByTaskhash(local, req[c].taskhash) \in Answer
        /\ ByTaskhashFull(local, req[c].taskhash) \in Answer
        /\ ByOuthash(local, req[c].outhash) \in Answer
    BY <1>2, RequestTypes, LookupTypes
  <2>3. CASE req[c].op \in {"get-stream", "get"}
    BY <2>2, <2>3, Zenon DEF Found
  <2>4. CASE req[c].op = "get-all"
    BY <2>2, <2>4 DEF Found
  <2>5. CASE req[c].op \in {"get-outhash", "report-readonly"}
    BY <2>2, <2>5 DEF Found
  <2> QED  BY <2>1, <2>3, <2>4, <2>5
<1>4. [NoRow EXCEPT !.unihash = req[c].unihash] \in Answer /\ NoRow \in Answer
  BY <1>2, RequestTypes, NoRowIsNone DEF Answer
<1>5. Ask(c) \/ \E row \in Answer : Respond(c, row)
  BY <1>3, <1>4 DEF LookUp
<1>6. req' \in [Client -> Request]
  <2>1. req[c].op \in Passed
    BY DEF LookUp, Passed
  <2> QED  BY <1>2, <1>5, <2>1, AskTypes, RespondTypes
<1> QED  BY <1>1, <1>6, Untouched DEF ClientInv, QueueInv, queue

LEMMA ReportKeeps ==
    ASSUME HashInv, NEW c \in Client, Report(c)
    PROVE  HashInv' /\ Stay
<1> USE DEF HashInv, StateInv
<1> DEFINE h == req[c].taskhash
           o == req[c].outhash
           with == InsertOuthash(local, h, o, now)
           same == EquivalentFor(with, h, o)
           u == IF same = NoRow THEN req[c].unihash ELSE same.unihash
           after == InsertUnihash(with, h, u)
<1>1. /\ DbInv /\ KeptInv /\ ClientInv /\ Db(local) /\ h \in Taskhash /\ o \in Outhash
      /\ now \in Nat /\ req[c].unihash \in Taskhash
  BY LocalDb, RequestTypes DEF ClientInv
<1>2. Db(with) /\ Grows(local, with)
  BY <1>1, InsertOuthashDoes
<1>3. u \in Taskhash
  BY <1>1, <1>2, LookupTypes DEF Answer, FullRow
<1>4. (Ask(c) /\ Store(with) /\ settled' = settled) \/ FinishReport(c, after)
  BY DEF Report, Inserted
<1>5. now' = now + 1 /\ UNCHANGED <<scenario, queue>>
  BY DEF Report
<1> HIDE DEF with, u
<1>6. Grows(with, after) /\ h \in Mapped(after)
  BY <1>1, <1>2, <1>3, InsertUnihashDoes
<1>7. Grows(local, after)
  BY <1>1, <1>2, <1>6, GrowsOn
<1> HIDE DEF after
<1>8. DbInv' /\ KeptInv' /\ ReportsSettle' /\ Stay /\ req' \in [Client -> Request]
  <2>1. CASE Ask(c) /\ Store(with) /\ settled' = settled
    <3>1. req[c].op \in Passed
      BY DEF Report, Passed
    <3> QED  BY <1>1, <1>2, <2>1, <3>1, StoreSettles, AskTypes
  <2>2. CASE FinishReport(c, after)
    BY <1>6, <1>7, <2>2, FinishKeeps
  <2> QED  BY <1>4, <2>1, <2>2
<1> QED  BY <1>1, <1>5, <1>8 DEF ClientInv, QueueInv, queue

LEMMA EquivKeeps ==
    ASSUME HashInv, NEW c \in Client, ReportEquiv(c)
    PROVE  HashInv' /\ Stay
<1> USE DEF HashInv, StateInv
<1> DEFINE h == req[c].taskhash
           after == InsertUnihash(local, h, req[c].unihash)
<1>1. Db(local) /\ ClientInv /\ h \in Taskhash /\ req[c].unihash \in Taskhash /\ AnyOut \in Outhash
  BY LocalDb, RequestTypes, AnyIsThere
<1>2. Grows(local, after) /\ Db(after)
  BY <1>1, InsertUnihashDoes DEF Grows
<1>3. Store(after) /\ Respond(c, ByTaskhash(after, h)) /\ settled' = settled
  BY DEF ReportEquiv
<1>4. UNCHANGED <<scenario, queue, now>>
  BY DEF ReportEquiv
<1> HIDE DEF after
<1>5. req' \in [Client -> Request]
  BY <1>1, <1>2, <1>3, LookupTypes, RespondTypes
<1>6. DbInv' /\ KeptInv' /\ ReportsSettle' /\ Stay
  BY <1>2, <1>3, StoreSettles
<1> QED  BY <1>4, <1>5, <1>6 DEF ClientInv, QueueInv, queue

LEMMA AskedKeeps ==
    ASSUME HashInv, NEW c \in Client,
           UpstreamAnswers(c) \/ StreamGoesOn(c) \/ BackfillWait(c)
    PROVE  HashInv' /\ Stay
<1> USE DEF HashInv, StateInv
<1>1. /\ db' = db /\ kept' = kept /\ settled' = settled
      /\ UNCHANGED <<scenario, now, backfill>>
  BY DEF UpstreamAnswers, StreamGoesOn, BackfillWait, queue, history
<1>2. Db(db["up"]) /\ ClientInv
  BY LocalDb
<1>3. CASE UpstreamAnswers(c)
  <2>1. PICK row : req' = [req EXCEPT ![c].pc = "told", ![c].told = row] /\ row \in Answer
    <3>1. /\ ByTaskhash(db["up"], req[c].taskhash) \in Answer
          /\ ByTaskhashFull(db["up"], req[c].taskhash) \in Answer
          /\ ByOuthash(db["up"], req[c].outhash) \in Answer
      BY <1>2, RequestTypes, LookupTypes
    <3>2. req[c].op \in Passed
      BY <1>3, <1>2 DEF UpstreamAnswers, ClientInv, Request
    <3> QED  BY <1>3, <3>1, <3>2 DEF UpstreamAnswers, Passed
  <2>2. req' \in [Client -> Request]
    <3>1. req[c] \in Request /\ req[c].pc = "asked"
      BY <1>2, <1>3, RequestTypes DEF UpstreamAnswers
    <3>2. [req[c] EXCEPT !.pc = "told", !.told = row] \in Request
      BY <2>1, <3>1 DEF Request
    <3> QED  BY <1>2, <2>1, <3>2 DEF ClientInv, Request
  <2>3. UNCHANGED queue
    BY <1>3 DEF UpstreamAnswers
  <2> QED  BY <1>1, <2>2, <2>3, Untouched DEF ClientInv, QueueInv, queue
<1>4. CASE StreamGoesOn(c)
  <2>1. req' \in [Client -> Request]
    BY <1>2, <1>4, RequestTypes, RespondTypes DEF StreamGoesOn
  <2>2. backfill_queue' = backfill_queue \/ backfill_queue' = Append(backfill_queue, req[c].taskhash)
    BY <1>4 DEF StreamGoesOn
  <2>3. QueueInv'
    <3>1. req[c].taskhash \in Taskhash
      BY <1>2, RequestTypes
    <3> QED  BY <1>1, <2>2, <3>1 DEF QueueInv
  <2> QED  BY <1>1, <2>1, <2>3, Untouched DEF ClientInv
<1>5. CASE BackfillWait(c)
  <2>1. NoRow \in Answer
    BY DEF Answer
  <2>2. req' \in [Client -> Request] /\ UNCHANGED queue
    BY <1>2, <1>5, <2>1, RespondTypes DEF BackfillWait
  <2> QED  BY <1>1, <2>2, Untouched DEF ClientInv, QueueInv, queue
<1> QED  BY <1>3, <1>4, <1>5

LEMMA ToldKeeps ==
    ASSUME HashInv, NEW c \in Client,
           GetGoesOn(c) \/ UnifiedGoesOn(c) \/ ReportGoesOn(c)
    PROVE  HashInv' /\ Stay
<1> USE DEF HashInv, StateInv
<1>1. UNCHANGED <<scenario, queue, now>>
  BY DEF GetGoesOn, UnifiedGoesOn, ReportGoesOn
<1>2. Db(local) /\ ClientInv
  BY LocalDb
<1>3. /\ req[c] \in Request /\ req[c].taskhash \in Taskhash /\ req[c].unihash \in Taskhash
      /\ req[c].told \in Answer
      /\ req[c].told # NoRow => req[c].told.unihash \in Taskhash
  BY <1>2, RequestTypes
<1>4. ASSUME DbInv' /\ KeptInv' /\ ReportsSettle' /\ Stay /\ req' \in [Client -> Request]
      PROVE  HashInv' /\ Stay
  BY <1>1, <1>4 DEF ClientInv, QueueInv, queue
<1>5. CASE GetGoesOn(c)
  <2>1. CASE req[c].told = NoRow
    <3>1. db' = db /\ kept' = kept /\ settled' = settled /\ req' = [req EXCEPT ![c] = Again(@)]
      BY <1>5, <2>1 DEF GetGoesOn
    <3>2. req' \in [Client -> Request]
      BY <1>2, <1>3, <3>1, AgainTypes DEF ClientInv
    <3> QED  BY <1>4, <3>1, <3>2, Untouched
  <2>2. CASE req[c].told # NoRow
    <3> DEFINE after == InsertUnihash(local, req[c].taskhash, req[c].told.unihash)
    <3>1. Grows(local, after)
      BY <1>2, <1>3, <2>2, InsertUnihashDoes
    <3>2. Store(after) /\ Respond(c, req[c].told) /\ settled' = settled
      BY <1>5, <2>2 DEF GetGoesOn
    <3>3. req' \in [Client -> Request]
      BY <1>2, <1>3, <3>2, RespondTypes
    <3> HIDE DEF after
    <3> QED  BY <1>4, <3>1, <3>2, <3>3, StoreSettles
  <2> QED  BY <2>1, <2>2
<1>6. CASE UnifiedGoesOn(c)
  <2> DEFINE after == UpdateUnified(local, req[c].told)
  <2>1. Grows(local, after)
    BY <1>2, <1>3, UpdateUnifiedGrows
  <2>2. Store(after) /\ settled' = settled
    BY <1>6 DEF UnifiedGoesOn
  <2>3. [NoRow EXCEPT !.unihash = req[c].unihash] \in Answer
    BY <1>3, NoRowIsNone DEF Answer
  <2>4. \E row \in Answer : Respond(c, row)
    BY <1>3, <1>6, <2>3 DEF UnifiedGoesOn
  <2>5. req' \in [Client -> Request]
    BY <1>2, <2>4, RespondTypes
  <2> HIDE DEF after
  <2> QED  BY <1>4, <2>1, <2>2, <2>5, StoreSettles
<1>7. CASE ReportGoesOn(c)
  <2> DEFINE u == IF req[c].told = NoRow THEN req[c].unihash ELSE req[c].told.unihash
             after == InsertUnihash(local, req[c].taskhash, u)
  <2>1. u \in Taskhash
    BY <1>3
  <2>2. FinishReport(c, after)
    BY <1>7 DEF ReportGoesOn
  <2> HIDE DEF u
  <2>3. Grows(local, after) /\ req[c].taskhash \in Mapped(after)
    BY <1>2, <1>3, <2>1, InsertUnihashDoes
  <2> HIDE DEF after
  <2> QED  BY <1>4, <2>2, <2>3, FinishKeeps
<1> QED  BY <1>5, <1>6, <1>7

LEMMA BackfillKeeps ==
    ASSUME HashInv, Backfill
    PROVE  HashInv' /\ Stay
<1> USE DEF HashInv, StateInv
<1>1. Db(local) /\ Db(db["up"]) /\ ClientInv
  BY LocalDb
<1>2. CASE BackfillAsks
  <2>1. Head(backfill_queue) \in Taskhash /\ backfill_queue # <<>> /\ AnyOut \in Outhash
    BY <1>2, AnyIsThere DEF BackfillAsks, QueueInv
  <2>2. ByTaskhash(db["up"], Head(backfill_queue)).unihash \in Taskhash \cup {NoHash}
    <3>1. ByTaskhash(db["up"], Head(backfill_queue)) \in Answer
      BY <1>1, <2>1, LookupTypes
    <3> QED  BY <3>1 DEF Answer, FullRow, NoRow
  <2>3. QueueInv'
    BY <1>2, <2>1, <2>2 DEF BackfillAsks, QueueInv
  <2>4. /\ db' = db /\ kept' = kept /\ settled' = settled /\ req' = req /\ now' = now
        /\ scenario' = scenario
    BY <1>2 DEF BackfillAsks, history
  <2> QED  BY <2>3, <2>4, Untouched DEF ClientInv
<1>3. CASE BackfillStores
  <2>1. backfill_queue # <<>> /\ Head(backfill_queue) \in Taskhash
    BY <1>3 DEF BackfillStores, QueueInv, NotAsked
  <2>2. QueueInv'
    BY <1>3, <2>1 DEF BackfillStores, QueueInv, NotAsked
  <2>3. settled' = settled /\ req' = req /\ now' = now /\ scenario' = scenario
    BY <1>3 DEF BackfillStores
  <2>4. DbInv' /\ KeptInv' /\ ReportsSettle' /\ Stay
    <3>1. CASE backfill.unihash = NoHash
      BY <1>3, <2>3, <3>1, Untouched DEF BackfillStores
    <3>2. CASE backfill.unihash # NoHash
      <4>1. backfill.unihash \in Taskhash
        BY <3>2 DEF QueueInv
      <4> DEFINE after == InsertUnihash(local, Head(backfill_queue), backfill.unihash)
      <4>2. Grows(local, after)
        BY <1>1, <2>1, <4>1, InsertUnihashDoes
      <4>3. Store(after)
        BY <1>3, <3>2 DEF BackfillStores
      <4> HIDE DEF after
      <4> QED  BY <2>3, <4>2, <4>3, StoreSettles
    <3> QED  BY <3>1, <3>2
  <2> QED  BY <2>2, <2>3, <2>4 DEF ClientInv
<1> QED  BY <1>2, <1>3 DEF Backfill

LEMMA UpstreamKeeps ==
    ASSUME HashInv, UpstreamReport \/ UpstreamForgets
    PROVE  HashInv' /\ Stay
<1> USE DEF HashInv, StateInv
<1>1. /\ UNCHANGED <<scenario, req, queue>> /\ kept' = kept /\ settled' = settled /\ now' \in Nat
  BY DEF UpstreamReport, UpstreamForgets, history, ClientInv
<1>2. Db(db["up"])
  BY LocalDb
<1>3. PICK e : /\ Db(e) /\ db' = [db EXCEPT !["up"] = e]
               /\ \A h \in Mapped(db["up"]) \cap Mapped(e) : e.unihashes[h] = db["up"].unihashes[h]
  <2>1. CASE UpstreamReport
    <3>1. PICK h \in scenario.taskhashes, o \in scenario.outhashes :
            db' = [db EXCEPT !["up"] = ReportTo(@, h, o, h, now)]
      BY <2>1 DEF UpstreamReport
    <3>2. h \in Taskhash /\ o \in Outhash /\ now \in Nat
      BY HashServAssumption DEF ClientInv, ScenarioType
    <3>3. Grows(db["up"], ReportTo(db["up"], h, o, h, now))
      BY <1>2, <3>2, ReportToGrows
    <3>4. db' = [db EXCEPT !["up"] = ReportTo(db["up"], h, o, h, now)]
      BY <3>1 DEF DbInv, Server
    <3> QED  BY <3>3, <3>4 DEF Grows
  <2>2. CASE UpstreamForgets
    <3>1. PICK h \in Mapped(db["up"]) :
            db' = [db EXCEPT !["up"].unihashes = Restrict(@, Mapped(db["up"]) \ {h})]
      BY <2>2 DEF UpstreamForgets
    <3> DEFINE t == Restrict(db["up"].unihashes, Mapped(db["up"]) \ {h})
               e == [db["up"] EXCEPT !.unihashes = t]
    <3>2. db' = [db EXCEPT !["up"] = e]
      BY <3>1 DEF DbInv, Server
    <3>3. DOMAIN t = Mapped(db["up"]) \ {h} /\ \A g \in DOMAIN t : t[g] = db["up"].unihashes[g]
      BY DEF Restrict
    <3>4. Table(t)
      <4>1. t \in [Mapped(db["up"]) \ {h} -> Row]
        BY <1>2 DEF Restrict, Db, Table, Mapped
      <4> QED  BY <1>2, <3>3, <4>1 DEF Db, Table, Mapped
    <3> HIDE DEF t
    <3>5. e = [unihashes |-> t, outhashes |-> db["up"].outhashes, mark |-> db["up"].mark]
      BY <1>2 DEF Db
    <3>6. Db(e) /\ e.unihashes = t
      BY <1>2, <3>4, <3>5 DEF Db
    <3> HIDE DEF e
    <3> QED  BY <3>2, <3>3, <3>6 DEF Mapped
  <2> QED  BY <2>1, <2>2
<1>4. local' = local /\ db'["up"] = e /\ db' = [s \in Server |-> db'[s]]
  BY <1>3 DEF DbInv, Server, local
<1>5. DbInv'
  BY <1>3, <1>4 DEF DbInv, Server, local
<1>6. KeptInv' /\ ReportsSettle'
  BY <1>1, <1>4 DEF KeptInv, ReportsSettle
<1>7. Stay
  BY <1>3, <1>4 DEF Stay, UnihashOf, Server, local
<1> QED  BY <1>1, <1>5, <1>6, <1>7 DEF ClientInv, QueueInv, queue

LEMMA MarkKeeps ==
    ASSUME HashInv, NEW m \in Mark, NEW w \in Where, GcMark(m, w)
    PROVE  HashInv' /\ Stay
<1> USE DEF HashInv, StateInv
<1>1. UNCHANGED <<scenario, req, queue, now>> /\ settled' = settled
  BY DEF GcMark
<1>2. Db(local)
  BY LocalDb
<1> DEFINE marked == MatchingUnihashes(w)
           t == WithMark(marked, m)
           e == [unihashes |-> t, outhashes |-> local.outhashes, mark |-> m]
<1>3. marked \subseteq Mapped(local)
  BY DEF MatchingUnihashes
<1>4. db' = [db EXCEPT !["local"] = e]
  BY DEF GcMark, DbInv, Server, local
<1> HIDE DEF marked
<1>5. \A h \in Mapped(local) : local.unihashes[h] \in Row
  BY <1>2 DEF Db, Table, Mapped
<1>6. /\ DOMAIN t = Mapped(local)
      /\ \A h \in Mapped(local) :
           /\ t[h] \in Row /\ t[h].unihash = local.unihashes[h].unihash
           /\ h \in marked => t[h].gc_mark = m
           /\ h \notin marked => t[h] = local.unihashes[h]
  BY <1>5 DEF Row, WithMark
<1>7. Table(t)
  <2>1. t = [h \in Mapped(local) |-> t[h]]
    BY DEF WithMark
  <2> HIDE DEF t
  <2>2. t \in [Mapped(local) -> Row]
    BY <1>6, <2>1
  <2> QED  BY <1>2, <1>6, <2>2 DEF Db, Table, Mapped
<1> HIDE DEF t
<1>9. Db(e) /\ e.unihashes = t
  BY <1>2, <1>7 DEF Db
<1> HIDE DEF e
<1>10. local' = e /\ db'["up"] = db["up"] /\ db' = [s \in Server |-> db'[s]]
  BY <1>4 DEF DbInv, Server, local
<1>11. DbInv'
  BY <1>9, <1>10 DEF DbInv, Server, local
<1>12. KeptInv'
  <2>1. \A x \in Mark : kept'[x] = IF x = m THEN kept[x] \cup marked ELSE kept[x] \ marked
    BY DEF GcMark, marked
  <2>2. kept' = [x \in Mark |-> kept'[x]]
    BY DEF GcMark
  <2>3. ASSUME NEW x \in Mark, NEW h \in kept'[x]
        PROVE  h \in Mapped(e) /\ e.unihashes[h].gc_mark = x
    <3>1. Mapped(e) = Mapped(local)
      BY <1>6, <1>9 DEF Mapped
    <3>2. CASE x = m /\ h \in marked
      BY <1>3, <1>6, <1>9, <3>1, <3>2
    <3>3. CASE h \notin marked
      <4>1. h \in kept[x]
        BY <2>1, <2>3, <3>3
      <4> QED  BY <1>6, <1>9, <3>1, <3>3, <4>1 DEF KeptInv
    <3> QED  BY <2>1, <2>3, <3>2, <3>3
  <2> QED  BY <1>10, <2>2, <2>3 DEF KeptInv
<1>13. ReportsSettle'
  BY <1>1, <1>6, <1>9, <1>10 DEF ReportsSettle, Mapped, UnihashOf
<1>14. Stay
  BY <1>6, <1>9, <1>10 DEF Stay, Server, local, Mapped, UnihashOf
<1> QED  BY <1>1, <1>11, <1>12, <1>13, <1>14 DEF ClientInv, QueueInv, queue

LEMMA AdminKeeps ==
    ASSUME HashInv, Admin
    PROVE  HashInv' /\ Stay
<1> USE DEF HashInv, StateInv
<1>1. local.mark \in Mark \cup {NoMark}
  BY LocalDb DEF Db
<1>2. ASSUME NEW gone, NEW rows, rows \subseteq local.outhashes, NEW mark \in Mark \cup {NoMark},
             Drop(gone, rows, mark)
      PROVE  HashInv' /\ Stay
  <2>1. DbInv' /\ KeptInv' /\ ReportsSettle' /\ Stay
    BY <1>2, DropKeeps
  <2>2. UNCHANGED <<scenario, req, queue, now>>
    BY <1>2 DEF Drop
  <2> QED  BY <2>1, <2>2 DEF ClientInv, QueueInv, queue
<1>3. ASSUME NEW w \in Where, Remove(w) PROVE HashInv' /\ Stay
  BY <1>1, <1>2, <1>3 DEF Remove
<1>4. ASSUME NEW m \in Mark, GcSweep(m) PROVE HashInv' /\ Stay
  BY <1>2, <1>4 DEF GcSweep
<1>5. CASE CleanUnused
  BY <1>1, <1>2, <1>5 DEF CleanUnused, Joined
<1> QED  BY <1>3, <1>4, <1>5, MarkKeeps DEF Admin

LEMMA CrashKeeps ==
    ASSUME HashInv, Crash \/ \E c \in Client : CrashInReport(c)
    PROVE  HashInv' /\ Stay
<1> USE DEF HashInv, StateInv
<1>1. PICK e : Broken(e) /\ Db(e) /\ e.unihashes = local.unihashes
  <2>1. CASE Crash
    BY <2>1, LocalDb DEF Crash
  <2>2. ASSUME NEW c \in Client, CrashInReport(c) PROVE \E e : Broken(e) /\ Db(e) /\ e.unihashes = local.unihashes
    <3>1. PICK h, o, t : h = req[c].taskhash /\ o = req[c].outhash /\ t = now
      OBVIOUS
    <3>2. Broken(InsertOuthash(local, h, o, t))
      BY <2>2, <3>1 DEF CrashInReport
    <3>3. h \in Taskhash /\ o \in Outhash /\ t \in Nat /\ Db(local)
      BY <3>1, RequestTypes, LocalDb DEF ClientInv
    <3>4. /\ Db(InsertOuthash(local, h, o, t))
          /\ InsertOuthash(local, h, o, t).unihashes = local.unihashes
      <4>1. Db(InsertOuthash(local, h, o, t))
        BY <3>3, InsertOuthashDoes
      <4>2. InsertOuthash(local, h, o, t).unihashes = local.unihashes
        BY <3>3 DEF InsertOuthash, Db
      <4> QED  BY <4>1, <4>2
    <3> QED  BY <3>2, <3>4
  <2> QED  BY <2>1, <2>2
<1>2. now' \in Nat /\ UNCHANGED <<scenario, kept, settled>>
  <2>1. now \in Nat
    BY DEF ClientInv
  <2>2. now' = now \/ now' = now + 1
    BY DEF Crash, CrashInReport
  <2>3. UNCHANGED <<scenario, kept, settled>>
    BY <1>1 DEF Broken
  <2> QED  BY <2>1, <2>2, <2>3
<1>3. req' \in [Client -> Request]
  <2>1. PICK given_up \in SUBSET Client :
          req' = [c \in Client |-> IF req[c].pc = "idle" \/ c \in given_up THEN Idle ELSE Again(req[c])]
    BY <1>1 DEF Broken
  <2>2. \A c \in Client : Idle \in Request /\ Again(req[c]) \in Request
    BY RequestTypes, AgainTypes
  <2> QED  BY <2>1, <2>2
<1>4. db' = [db EXCEPT !["local"] = e]
  BY <1>1 DEF Broken
<1>5. local' = e /\ db'["up"] = db["up"] /\ db' = [s \in Server |-> db'[s]]
  BY <1>4 DEF DbInv, Server, local
<1>6. DbInv'
  BY <1>1, <1>5 DEF DbInv, Server, local
<1>7. KeptInv' /\ ReportsSettle' /\ Stay
  BY <1>1, <1>2, <1>5 DEF KeptInv, ReportsSettle, Stay, Server, local, Mapped, UnihashOf
<1>8. QueueInv'
  BY <1>1 DEF Broken, QueueInv, NotAsked
<1> QED  BY <1>2, <1>3, <1>6, <1>7, <1>8 DEF ClientInv

-----------------------------------------------------------------------------
(* Equal outputs.                                                          *)

IsOldest(d, o, r) ==
    /\ r \in d.outhashes /\ r.outhash = o
    /\ \A s \in d.outhashes : s.outhash = o => r.created <= s.created

\* At time t all rows are mapped and were created at different times, and a task that
\* a report has mapped has the unihash of the oldest row with its output.
Consistent(d, f, t) ==
    /\ \A r \in d.outhashes : r.taskhash \in Mapped(d) /\ r.created < t
    /\ \A r, s \in d.outhashes : r.created = s.created => r = s
    /\ \A g \in DOMAIN f :
          /\ g \in Mapped(d)
          /\ \E r \in d.outhashes : r.outhash = f[g]
          /\ \A r \in d.outhashes : IsOldest(d, f[g], r) => UnihashOf(d, g) = UnihashOf(d, r.taskhash)

LEMMA GrowsSame ==
    ASSUME NEW d, NEW e, Grows(d, e), NEW h \in Mapped(d)
    PROVE  h \in Mapped(e) /\ UnihashOf(e, h) = UnihashOf(d, h)
BY DEF Grows, UnihashOf

LEMMA ConsistentGrows ==
    ASSUME NEW d, NEW e, Grows(d, e), e.outhashes = d.outhashes, NEW f, NEW t, Consistent(d, f, t)
    PROVE  Consistent(e, f, t)
BY GrowsSame DEF Consistent, IsOldest

LEMMA OldestExists ==
    ASSUME NEW d, Db(d), NEW o, \E r \in d.outhashes : r.outhash = o
    PROVE  \E r \in d.outhashes : IsOldest(d, o, r)
<1> DEFINE rows == {r \in d.outhashes : r.outhash = o}
<1>1. rows \subseteq Out /\ rows # {}
  BY DEF Db
<1>2. Oldest(rows) \in rows /\ \A r \in rows : Oldest(rows).created <= r.created
  BY <1>1, OldestIs
<1> QED  BY <1>2 DEF IsOldest

LEMMA ConsistentShares ==
    ASSUME NEW d, Db(d), NEW f, NEW t, Consistent(d, f, t),
           NEW g \in DOMAIN f, NEW h \in DOMAIN f, f[g] = f[h]
    PROVE  UnihashOf(d, g) = UnihashOf(d, h)
<1>1. PICK r \in d.outhashes : IsOldest(d, f[g], r)
  BY OldestExists DEF Consistent
<1> QED  BY <1>1 DEF Consistent

\* handle_report without upstream server.
LEMMA ConsistentReport ==
    ASSUME NEW d, Db(d), NEW h \in Taskhash, NEW o \in Outhash, NEW u \in Taskhash,
           NEW t \in Nat, NEW f, Consistent(d, f, t),
           NEW with, with = InsertOuthash(d, h, o, t),
           NEW same, same = EquivalentFor(with, h, o),
           NEW after, after = InsertUnihash(with, h, IF same = NoRow THEN u ELSE same.unihash)
    PROVE  Consistent(after, IF h \in Mapped(after) \ Mapped(d) THEN With(f, h, o) ELSE f, t + 1)
<1> DEFINE v == IF same = NoRow THEN u ELSE same.unihash
           row == [taskhash |-> h, outhash |-> o, created |-> t]
<1>1. /\ Db(with) /\ Mapped(with) = Mapped(d) /\ Grows(d, with)
      /\ with.outhashes = IF HasOuthash(d, h, o) THEN d.outhashes ELSE d.outhashes \cup {row}
  <2>1. Db(with) /\ Grows(d, with)
    BY InsertOuthashDoes
  <2>2. with.unihashes = d.unihashes
    BY DEF InsertOuthash, Db
  <2>3. with.outhashes = IF HasOuthash(d, h, o) THEN d.outhashes ELSE d.outhashes \cup {row}
    BY DEF InsertOuthash, Db
  <2> QED  BY <2>1, <2>2, <2>3 DEF Mapped
<1>2. v \in Taskhash
  BY <1>1, LookupTypes DEF Answer, FullRow
<1>3. /\ Grows(with, after) /\ Mapped(after) = Mapped(d) \cup {h}
      /\ h \notin Mapped(d) => UnihashOf(after, h) = v
      /\ after.outhashes = with.outhashes
  <2> HIDE DEF v
  <2>1. after = InsertUnihash(with, h, v)
    BY DEF v
  <2> QED  BY <1>1, <1>2, <2>1, InsertUnihashDoes
<1>4. Grows(d, after) /\ Db(after)
  BY <1>1, <1>3, GrowsOn DEF Grows
<1> DEFINE new == IF h \in Mapped(after) \ Mapped(d) THEN With(f, h, o) ELSE f
<1>5. d.outhashes \subseteq Out /\ d.outhashes \subseteq with.outhashes
  BY <1>1 DEF Db
<1>6. row.taskhash = h /\ row.outhash = o /\ row.created = t
  OBVIOUS
<1> HIDE DEF row
<1>7. \A r \in after.outhashes : r \in d.outhashes \/ r = row
  BY <1>1, <1>3
<1>8. \A r \in d.outhashes : r.created \in Nat /\ r.created < t /\ r.taskhash \in Mapped(d)
  BY <1>5 DEF Consistent, Out
<1>9. \A r \in after.outhashes : r.taskhash \in Mapped(after) /\ r.created < t + 1
  BY <1>3, <1>6, <1>7, <1>8
<1>10. \A r, s \in after.outhashes : r.created = s.created => r = s
  BY <1>6, <1>7, <1>8 DEF Consistent
<1>11. ASSUME NEW g \in DOMAIN f
       PROVE  /\ g \in Mapped(d) /\ g \in Mapped(after)
              /\ \E r \in after.outhashes : r.outhash = f[g]
              /\ \A r \in after.outhashes :
                    IsOldest(after, f[g], r) => UnihashOf(after, g) = UnihashOf(after, r.taskhash)
  <2>1. g \in Mapped(d) /\ UnihashOf(after, g) = UnihashOf(d, g)
    BY <1>4, GrowsSame DEF Consistent
  <2>2. PICK q \in d.outhashes : q.outhash = f[g]
    BY DEF Consistent
  <2>3. ASSUME NEW r \in after.outhashes, IsOldest(after, f[g], r)
        PROVE  UnihashOf(after, g) = UnihashOf(after, r.taskhash)
    <3>1. r.created <= q.created
      BY <1>3, <1>5, <2>2, <2>3 DEF IsOldest
    <3>2. r \in d.outhashes
      BY <1>6, <1>7, <1>8, <3>1
    <3>3. IsOldest(d, f[g], r)
      BY <1>3, <1>5, <2>3, <3>2 DEF IsOldest
    <3>4. UnihashOf(d, g) = UnihashOf(d, r.taskhash)
      BY <3>2, <3>3 DEF Consistent
    <3>5. UnihashOf(after, r.taskhash) = UnihashOf(d, r.taskhash)
      BY <1>4, <1>8, <3>2, GrowsSame
    <3> QED  BY <2>1, <3>4, <3>5
  <2> QED  BY <1>3, <1>5, <2>1, <2>2, <2>3
<1>12. ASSUME h \notin Mapped(d)
       PROVE  /\ h \in Mapped(after)
              /\ \E r \in after.outhashes : r.outhash = o
              /\ \A r \in after.outhashes :
                    IsOldest(after, o, r) => UnihashOf(after, h) = UnihashOf(after, r.taskhash)
  <2>1. with.outhashes = d.outhashes \cup {row}
    BY <1>1, <1>8, <1>12 DEF HasOuthash
  <2> DEFINE others == {r \in Joined(with) : r.outhash = o /\ r.taskhash # h}
  <2>2. same = OldestRow(with, others)
    BY DEF EquivalentFor
  <2>3. \A r : r \in others <=> r \in d.outhashes /\ r.outhash = o
    BY <1>1, <1>6, <1>8, <1>12, <2>1 DEF Joined
  <2>4. others \subseteq Joined(with) /\ others \subseteq Out
    BY <1>1 DEF Joined, Db
  <2> HIDE DEF others
  <2>5. ASSUME NEW r \in after.outhashes, IsOldest(after, o, r)
        PROVE  UnihashOf(after, h) = UnihashOf(after, r.taskhash)
    <3>1. CASE others = {}
      <4>1. r = row
        BY <1>7, <2>3, <2>5, <3>1 DEF IsOldest
      <4> QED  BY <1>6, <4>1
    <3>2. CASE others # {}
      <4>1. PICK q : q = Oldest(others)
        OBVIOUS
      <4>2. q \in others /\ \A x \in others : q.created <= x.created
        BY <2>4, <3>2, <4>1, OldestIs
      <4>3. q \in d.outhashes /\ q.outhash = o /\ q \in after.outhashes
        BY <1>3, <1>5, <2>3, <4>2
      <4>4. r.created <= q.created
        BY <2>5, <4>3 DEF IsOldest
      <4>5. r \in d.outhashes /\ r.outhash = o
        BY <1>6, <1>7, <1>8, <2>5, <4>3, <4>4 DEF IsOldest
      <4>6. r = q
        <5>1. q.created <= r.created
          BY <2>3, <4>2, <4>5
        <5> QED  BY <1>8, <1>10, <2>5, <4>3, <4>4, <4>5, <5>1
      <4>7. same \in FullRow /\ same = Of(with, q)
        BY <1>1, <2>2, <2>4, <3>2, <4>1, OldestRowIs
      <4>8. v = UnihashOf(with, q.taskhash)
        BY <4>7, NoRowIsNone DEF Of
      <4>9. UnihashOf(after, q.taskhash) = UnihashOf(with, q.taskhash)
        BY <1>1, <1>3, <1>8, <4>3, GrowsSame
      <4> QED  BY <1>3, <1>12, <4>6, <4>8, <4>9
    <3> QED  BY <3>1, <3>2
  <2> QED  BY <1>3, <1>6, <2>1, <2>5
<1>13. Consistent(after, new, t + 1)
  <2>1. CASE h \in Mapped(d)
    <3>1. new = f
      BY <1>3, <2>1
    <3> HIDE DEF new
    <3> QED  BY <1>9, <1>10, <1>11, <3>1 DEF Consistent
  <2>2. CASE h \notin Mapped(d)
    <3>1. new = With(f, h, o)
      BY <1>3, <2>2
    <3>2. h \notin DOMAIN f
      BY <1>11, <2>2
    <3> HIDE DEF new
    <3>3. DOMAIN new = DOMAIN f \cup {h} /\ new[h] = o /\ \A g \in DOMAIN f : new[g] = f[g]
      <4>1. new = [y \in DOMAIN f \cup {h} |-> IF y = h THEN o ELSE f[y]]
        BY <3>1 DEF With
      <4> QED  BY <3>2, <4>1
    <3>4. ASSUME NEW g \in DOMAIN new
          PROVE  /\ g \in Mapped(after)
                 /\ \E r \in after.outhashes : r.outhash = new[g]
                 /\ \A r \in after.outhashes :
                       IsOldest(after, new[g], r) => UnihashOf(after, g) = UnihashOf(after, r.taskhash)
      <4>1. CASE g = h
        BY <1>12, <2>2, <3>3, <4>1
      <4>2. CASE g \in DOMAIN f
        BY <1>11, <3>3, <4>2
      <4> QED  BY <3>3, <4>1, <4>2
    <3> QED  BY <1>9, <1>10, <3>4 DEF Consistent
  <2> QED  BY <2>1, <2>2
<1> QED  BY <1>13

\* Nothing is removed, the server has not died and there is no upstream server.
Alone == ~upstream /\ Never({"remove", "collect", "clean", "crash"})

\* Nothing is asked of an upstream server.
Silent == backfill_queue = <<>> /\ \A c \in Client : req[c].pc \notin {"asked", "told"}

ShareInv == Alone => Silent /\ Consistent(local, first, now)

LEMMA RespondSilent ==
    ASSUME ClientInv, Silent, NEW c \in Client, NEW row, Respond(c, row), backfill_queue' = backfill_queue
    PROVE  Silent'
<1>1. \A x \in Client : req'[x].pc = req[x].pc \/ req'[x].pc = "done"
  BY DEF Respond, ClientInv, Request
<1> QED  BY <1>1 DEF Silent

LEMMA ReportConsistent ==
    ASSUME HashInv, NEW c \in Client, Report(c), ~upstream, Consistent(local, first, now)
    PROVE  /\ Consistent(local, first, now)'
           /\ \E row : Respond(c, row)
<1>1. PICK h, o, u, t : /\ h = req[c].taskhash /\ o = req[c].outhash /\ u = req[c].unihash
                        /\ t = now
  OBVIOUS
<1>2. PICK with : with = InsertOuthash(local, h, o, t)
  OBVIOUS
<1>3. PICK same : same = EquivalentFor(with, h, o)
  OBVIOUS
<1>4. PICK after : after = InsertUnihash(with, h, IF same = NoRow THEN u ELSE same.unihash)
  OBVIOUS
<1>5. /\ h \in Taskhash /\ o \in Outhash /\ u \in Taskhash /\ t \in Nat /\ Db(local)
      /\ DbInv /\ ClientInv
  BY <1>1, RequestTypes, LocalDb DEF HashInv, StateInv, ClientInv
<1>6. FinishReport(c, after) /\ now' = t + 1
  BY <1>1, <1>2, <1>3, <1>4 DEF Report, Inserted
<1>7. /\ Store(after) /\ \E row : Respond(c, row)
      /\ first' = IF h \in Mapped(after) \ Mapped(local) THEN With(first, h, o) ELSE first
  BY <1>1, <1>6 DEF FinishReport
<1>8. local' = after
  BY <1>5, <1>7 DEF Store, DbInv, Server, local
<1>9. Consistent(local, first, t)
  BY <1>1
<1>10. PICK d, f : d = local /\ f = first
  OBVIOUS
<1>11. Consistent(after, IF h \in Mapped(after) \ Mapped(d) THEN With(f, h, o) ELSE f, t + 1)
  BY <1>2, <1>3, <1>4, <1>5, <1>9, <1>10, ConsistentReport
<1>12. Consistent(after, first', t + 1)
  BY <1>7, <1>10, <1>11
<1> QED  BY <1>6, <1>7, <1>8, <1>12

LEMMA ShareNext == HashInv /\ ShareInv /\ [Next]_vars => ShareInv'
<1> SUFFICES ASSUME HashInv, ShareInv, [Next]_vars, Alone'
             PROVE  Silent' /\ Consistent(local, first, now)'
  BY DEF ShareInv
<1>1. scenario' = scenario /\ events \subseteq events'
  <2>1. CASE UNCHANGED vars
    BY <2>1 DEF vars, bounds
  <2>2. CASE \E c \in Client : Send(c) \/ Handle(c) \/ UpstreamAnswers(c) \/ Receive(c)
    BY <2>2 DEF Send, Handle, LookUp, Report, ReportEquiv, BackfillWait, StreamGoesOn, GetGoesOn,
                UnifiedGoesOn, ReportGoesOn, UpstreamAnswers, Receive, bounds
  <2>3. CASE Backfill \/ UpstreamReport \/ UpstreamForgets
    BY <2>3 DEF Backfill, BackfillAsks, BackfillStores, UpstreamReport, UpstreamForgets, Happens, bounds
  <2>4. CASE Admin \/ Crash \/ \E c \in Client : CrashInReport(c)
    BY <2>4 DEF Admin, Remove, GcMark, GcSweep, CleanUnused, Drop, Crash, CrashInReport, Broken, Happens
  <2> QED  BY <2>1, <2>2, <2>3, <2>4 DEF Next
<1>2. ~upstream /\ Alone
  BY <1>1 DEF Alone, Never, upstream
<1>3. /\ Silent /\ Consistent(local, first, now) /\ DbInv /\ ClientInv /\ QueueInv
      /\ backfill = NotAsked
  BY <1>2 DEF ShareInv, HashInv, StateInv, Silent, QueueInv
<1>4. ASSUME db' = db, first' = first, now' = now, Silent'
      PROVE  Silent' /\ Consistent(local, first, now)'
  BY <1>3, <1>4 DEF Consistent, IsOldest, Mapped, UnihashOf, local
<1>5. CASE UNCHANGED vars
  <2>1. Silent'
    BY <1>3, <1>5 DEF vars, queue, Silent
  <2> QED  BY <1>4, <1>5, <2>1 DEF vars, history
<1>6. ASSUME NEW c \in Client, Send(c) \/ Receive(c)
      PROVE  Silent' /\ Consistent(local, first, now)'
  <2>1. db' = db /\ first' = first /\ now' = now /\ backfill_queue' = backfill_queue
    BY <1>6 DEF Send, Receive, history, queue
  <2>2. PICK q : req' = [req EXCEPT ![c] = q] /\ q.pc \in {"sent", "idle"}
    <3>1. CASE Receive(c)
      <4>1. req' = [req EXCEPT ![c] = Idle]
        BY <3>1 DEF Receive
      <4>2. Idle.pc = "idle"
        BY DEF Idle
      <4> QED  BY <4>1, <4>2
    <3>2. CASE Send(c)
      <4>1. PICK op \in scenario.operations, h \in scenario.taskhashes,
                 o \in scenario.outhashes \cup {AnyOut}, u \in scenario.taskhashes :
              req' = [req EXCEPT ![c] = Sent(op, h, o, u)]
        BY <3>2, SendSends
      <4>2. Sent(op, h, o, u).pc = "sent"
        BY DEF Sent, Idle
      <4> QED  BY <4>1, <4>2
    <3> QED  BY <1>6, <3>1, <3>2
  <2>3. Silent'
    BY <1>3, <2>1, <2>2 DEF Silent, ClientInv
  <2> QED  BY <1>4, <2>1, <2>3
<1>7. ASSUME NEW c \in Client, LookUp(c) \/ BackfillWait(c)
      PROVE  Silent' /\ Consistent(local, first, now)'
  <2>1. db' = db /\ first' = first /\ now' = now /\ backfill_queue' = backfill_queue
    BY <1>7 DEF LookUp, BackfillWait, history, queue
  <2>2. \E row : Respond(c, row)
    BY <1>2, <1>7 DEF LookUp, BackfillWait
  <2>3. Silent'
    BY <1>3, <2>1, <2>2, RespondSilent
  <2> QED  BY <1>4, <2>1, <2>3
<1>8. ASSUME NEW c \in Client, Report(c)
      PROVE  Silent' /\ Consistent(local, first, now)'
  <2>1. Consistent(local, first, now)' /\ \E row : Respond(c, row)
    BY <1>2, <1>3, <1>8, ReportConsistent
  <2>2. backfill_queue' = backfill_queue
    BY <1>8 DEF Report, queue
  <2> QED  BY <1>3, <2>1, <2>2, RespondSilent
<1>9. ASSUME NEW c \in Client, ReportEquiv(c)
      PROVE  Silent' /\ Consistent(local, first, now)'
  <2>1. PICK h, u : h = req[c].taskhash /\ u = req[c].unihash
    OBVIOUS
  <2>2. PICK after : after = InsertUnihash(local, h, u)
    OBVIOUS
  <2>3. h \in Taskhash /\ u \in Taskhash /\ Db(local)
    BY <1>3, <2>1, RequestTypes, LocalDb
  <2>4. Grows(local, after) /\ after.outhashes = local.outhashes
    BY <2>2, <2>3, InsertUnihashDoes
  <2>5. /\ Store(after) /\ (\E row : Respond(c, row))
        /\ first' = first /\ now' = now /\ backfill_queue' = backfill_queue
    BY <1>9, <2>1, <2>2 DEF ReportEquiv, queue
  <2>6. local' = after
    BY <1>3, <2>5 DEF Store, DbInv, Server, local
  <2>7. Consistent(after, first, now)
    BY <1>3, <2>4, ConsistentGrows
  <2>8. Consistent(local, first, now)'
    BY <2>5, <2>6, <2>7
  <2> QED  BY <1>3, <2>5, <2>8, RespondSilent
<1>10. ASSUME NEW c \in Client,
              UpstreamAnswers(c) \/ StreamGoesOn(c) \/ GetGoesOn(c) \/ UnifiedGoesOn(c) \/ ReportGoesOn(c)
       PROVE  FALSE
  BY <1>3, <1>10 DEF UpstreamAnswers, StreamGoesOn, GetGoesOn, UnifiedGoesOn, ReportGoesOn, Told, Silent
<1>11. ~Backfill /\ ~UpstreamReport
  BY <1>2, <1>3 DEF Backfill, BackfillAsks, BackfillStores, UpstreamReport, Silent, NotAsked
<1>12. CASE UpstreamForgets
  <2>1. /\ first' = first /\ now' = now
        /\ UNCHANGED <<req, queue>>
    BY <1>12 DEF UpstreamForgets, history
  <2>2. db'["local"] = db["local"]
    BY <1>3, <1>12 DEF UpstreamForgets, DbInv, Server
  <2>3. Silent'
    BY <1>3, <2>1 DEF Silent, queue
  <2>4. local' = local
    BY <2>2 DEF local
  <2> QED  BY <1>3, <2>1, <2>3, <2>4
<1>13. ASSUME NEW kind \in {"remove", "collect", "clean", "crash"}, Happens(kind)
       PROVE  FALSE
  <2>1. <<Cardinality(events), kind>> \in events'
    BY <1>13 DEF Happens
  <2> QED  BY <2>1 DEF Alone, Never
<1>14. ~Admin /\ ~Crash /\ \A c \in Client : ~CrashInReport(c)
  BY <1>13 DEF Admin, Remove, GcMark, GcSweep, CleanUnused, Crash, CrashInReport, Broken
<1> QED
  BY <1>5, <1>6, <1>7, <1>8, <1>9, <1>10, <1>11, <1>12, <1>14 DEF Next, Handle

-----------------------------------------------------------------------------
(* The theorems.                                                           *)

LEMMA HashNext == HashInv /\ [Next]_vars => HashInv' /\ Stay
<1> SUFFICES ASSUME HashInv, [Next]_vars PROVE HashInv' /\ Stay
  OBVIOUS
<1>1. CASE UNCHANGED vars
  BY <1>1, Untouched DEF vars, queue, history, HashInv, StateInv, ClientInv, QueueInv
<1>2. ASSUME NEW c \in Client, Send(c) \/ Handle(c) \/ UpstreamAnswers(c) \/ Receive(c)
      PROVE  HashInv' /\ Stay
  BY <1>2, SendKeeps, LookUpKeeps, ReportKeeps, EquivKeeps, AskedKeeps, ToldKeeps DEF Handle
<1> QED
  BY <1>1, <1>2, BackfillKeeps, UpstreamKeeps, AdminKeeps, CrashKeeps DEF Next

LEMMA HashInvariant == Spec => []HashInv
<1>1. Init => HashInv
  BY HashInit
<1>2. HashInv /\ [Next]_vars => HashInv'
  BY HashNext
<1> QED  BY <1>1, <1>2, PTL DEF Spec

\* What a report is answered is what the server has stored for the taskhash, and
\* has until it is removed, however requests race, are repeated or are cut short by
\* a crash (handle_report).
THEOREM SettleCorrect == Spec => []ReportsSettle
<1>1. HashInv => ReportsSettle
  BY DEF HashInv
<1> QED  BY <1>1, HashInvariant, PTL

\* No step of either server changes a mapping that is there (insert_unihash).
THEOREM StayCorrect == Spec => MappingsStay
<1>1. HashInv /\ [Next]_vars => [Stay]_vars
  BY HashNext
<1> QED  BY <1>1, HashInvariant, PTL DEF Spec, MappingsStay, Stay

\* Without upstream server, tasks that reports of the same output have mapped have the
\* same unihash, for any number of builders whose requests race or are repeated, while
\* nothing is removed and the server does not die (handle_report,
\* get_equivalent_for_outhash).
THEOREM ShareCorrect == Spec => []EqualOutputsShare
<1>1. Init => ShareInv
  <2> SUFFICES ASSUME Init PROVE Silent /\ Consistent(local, first, now)
    BY DEF ShareInv
  <2>1. Silent
    BY DEF Init, Silent, Idle
  <2>2. local.outhashes = {} /\ DOMAIN first = {}
    BY DEF Init, local, Server, EmptyDb
  <2> QED  BY <2>1, <2>2 DEF Consistent
<1>2. HashInv /\ ShareInv => EqualOutputsShare
  <2> SUFFICES ASSUME HashInv, ShareInv, Alone,
                      NEW g \in DOMAIN first, NEW h \in DOMAIN first, first[g] = first[h]
               PROVE  UnihashOf(local, g) = UnihashOf(local, h)
    BY DEF EqualOutputsShare, Alone, Shared
  <2>1. Db(local) /\ Consistent(local, first, now)
    BY LocalDb DEF HashInv, StateInv, ShareInv
  <2> QED  BY <2>1, ConsistentShares
<1> QED  BY <1>1, <1>2, HashInvariant, ShareNext, PTL DEF Spec

\* A sweep deletes no mapping that the collection was told to keep or that was
\* stored since it began (handle_gc_mark, handle_gc_sweep, insert_unihash).
THEOREM SweepCorrect == Spec => SweepSpares
<1> DEFINE Spares == \A m \in Mark : GcSweep(m) => kept[m] \subseteq Mapped(db'["local"])
<1>1. HashInv /\ [Next]_vars => [Spares]_vars
  <2> SUFFICES ASSUME HashInv, NEW m \in Mark, GcSweep(m), NEW h \in kept[m]
               PROVE  h \in Mapped(db'["local"])
    OBVIOUS
  <2>1. h \in Mapped(local) /\ local.unihashes[h].gc_mark = local.mark
    BY DEF HashInv, KeptInv, GcSweep
  <2> DEFINE gone == {g \in Mapped(local) : local.unihashes[g].gc_mark # local.mark}
  <2>2. Drop(gone, local.outhashes, NoMark)
    BY DEF GcSweep
  <2>3. h \notin gone
    BY <2>1
  <2> HIDE DEF gone
  <2>4. db'["local"].unihashes = Restrict(local.unihashes, Mapped(local) \ gone)
    BY <2>2 DEF Drop, HashInv, StateInv, DbInv, Server
  <2> QED  BY <2>1, <2>3, <2>4 DEF Mapped, Restrict
<1> QED  BY <1>1, HashInvariant, PTL DEF Spec, SweepSpares

-----------------------------------------------------------------------------
(* Reasons.                                                                *)

\* Linked, of what has been reported, R, and declared, D.
Line(R, D, x, y) ==
    \/ \E o \in Outhash : <<x, o>> \in R /\ <<y, o>> \in R
    \/ <<x, y>> \in D \/ <<y, x>> \in D
Closed(R, D, S) == \A x \in S : \A y \in Taskhash : Line(R, D, x, y) => y \in S
Link(R, D, h, g) == h = g \/ \A S \in SUBSET Taskhash : h \in S /\ Closed(R, D, S) => g \in S

\* By the time t, each mapping of d has a reason and each row has been reported.
SoundDb(d, R, D, t) ==
    /\ \A h \in Mapped(d) : Link(R, D, h, UnihashOf(d, h))
    /\ \A r \in d.outhashes : <<r.taskhash, r.outhash>> \in R /\ r.created <= t

\* A row as the joins find it, and as get_equivalent does.
SoundFull(row, R, D, t) ==
    /\ <<row.taskhash, row.outhash>> \in R /\ row.created <= t
    /\ Link(R, D, row.taskhash, row.unihash)

\* What the upstream server has said is about what it was asked for.
SoundTold(q, R, D, t) ==
    /\ q.op \in {"get-stream", "get"} => Link(R, D, q.taskhash, q.told.unihash)
    /\ q.op \in {"get-all", "get-outhash", "report", "report-readonly"} => SoundFull(q.told, R, D, t)
    /\ q.op = "get-all" => q.told.taskhash = q.taskhash
    /\ q.op \in {"get-outhash", "report", "report-readonly"} => q.told.outhash = q.outhash

\* A request: what it reports has been reported by the time it asks the upstream server
\* for it, and the unihashes it brings, is told and is answered have a reason.
SoundReq(q, R, D, t) ==
    /\ q.op # "report-equiv" => Link(R, D, q.taskhash, q.unihash)
    /\ q.op \in {"report", "report-readonly"} /\ q.pc \in {"asked", "told"} => <<q.taskhash, q.outhash>> \in R
    /\ q.pc = "told" /\ q.told # NoRow => SoundTold(q, R, D, t)
    /\ q.pc = "done" /\ q.told.unihash \in Taskhash /\ q.op # "get-outhash" =>
          Link(R, D, q.taskhash, q.told.unihash)

SoundBackfill ==
    backfill.unihash # NoHash => Link(reported, declared, Head(backfill_queue), backfill.unihash)

SoundDbs == \A s \in Server : SoundDb(db[s], reported, declared, now)
SoundReqs == \A c \in Client : SoundReq(req[c], reported, declared, now)
SoundAnswered == \A p \in answered : Link(reported, declared, p[1], p[2])
HistoryTypes == settled \subseteq Taskhash \X Taskhash /\ DOMAIN first \subseteq Taskhash

ReasonInv == SoundDbs /\ SoundReqs /\ SoundBackfill /\ SoundAnswered /\ HistoryTypes

LEMMA LinkedIsLink ==
    ASSUME NEW h, NEW g
    PROVE  Linked(h, g) <=> Link(reported, declared, h, g)
BY DEF Linked, Link, Closed, Line

LEMMA LinkRefl == ASSUME NEW R, NEW D, NEW h PROVE Link(R, D, h, h)
BY DEF Link

LEMMA LinkTrans ==
    ASSUME NEW R, NEW D, NEW h, NEW g, NEW k, Link(R, D, h, g), Link(R, D, g, k)
    PROVE  Link(R, D, h, k)
<1> SUFFICES ASSUME h # k, NEW S \in SUBSET Taskhash, h \in S, Closed(R, D, S) PROVE k \in S
  BY DEF Link
<1>1. g \in S
  BY DEF Link
<1> QED  BY <1>1 DEF Link

\* More reports and declarations link more.
LEMMA LinkGrows ==
    ASSUME NEW R, NEW D, NEW R2, NEW D2, R \subseteq R2, D \subseteq D2,
           NEW h, NEW g, Link(R, D, h, g)
    PROVE  Link(R2, D2, h, g)
<1> SUFFICES ASSUME h # g, NEW S \in SUBSET Taskhash, h \in S, Closed(R2, D2, S) PROVE g \in S
  BY DEF Link
<1>1. Closed(R, D, S)
  BY DEF Closed, Line
<1> QED  BY <1>1 DEF Link

LEMMA LineLinks ==
    ASSUME NEW R, NEW D, NEW h, NEW g \in Taskhash, Line(R, D, h, g)
    PROVE  Link(R, D, h, g)
BY DEF Link, Closed

LEMMA OutputLinks ==
    ASSUME NEW R, NEW D, NEW h, NEW g \in Taskhash, NEW o \in Outhash,
           <<h, o>> \in R, <<g, o>> \in R
    PROVE  Link(R, D, h, g)
BY LineLinks DEF Line

Later(R, D, t, R2, D2, t2) == R \subseteq R2 /\ D \subseteq D2 /\ t \in Nat /\ t2 \in Nat /\ t <= t2

LEMMA SoundDbLater ==
    ASSUME NEW R, NEW D, NEW t, NEW R2, NEW D2, NEW t2, Later(R, D, t, R2, D2, t2),
           NEW d, Db(d), SoundDb(d, R, D, t)
    PROVE  SoundDb(d, R2, D2, t2)
<1>1. \A h \in Mapped(d) : Link(R2, D2, h, UnihashOf(d, h))
  BY LinkGrows DEF SoundDb, Later
<1>2. \A r \in d.outhashes : r.created \in Nat
  BY DEF Db, Out
<1> QED  BY <1>1, <1>2 DEF SoundDb, Later

LEMMA SoundReqLater ==
    ASSUME NEW R, NEW D, NEW t, NEW R2, NEW D2, NEW t2, Later(R, D, t, R2, D2, t2),
           NEW q \in Request, SoundReq(q, R, D, t)
    PROVE  SoundReq(q, R2, D2, t2)
<1>1. \A h, g : Link(R, D, h, g) => Link(R2, D2, h, g)
  BY LinkGrows DEF Later
<1>2. q.told # NoRow => q.told.created \in Nat
  BY DEF Request, Answer, FullRow
<1>3. ASSUME q.told # NoRow, SoundTold(q, R, D, t) PROVE SoundTold(q, R2, D2, t2)
  <2>1. SoundFull(q.told, R, D, t) => SoundFull(q.told, R2, D2, t2)
    BY <1>1, <1>2, <1>3 DEF SoundFull, Later
  <2> QED  BY <1>1, <1>3, <2>1 DEF SoundTold
<1> QED  BY <1>1, <1>3 DEF SoundReq, Later

-----------------------------------------------------------------------------
(* Lookups find what has a reason, and statements add nothing else.         *)

LEMMA NoRowSays == NoRow.unihash \notin Taskhash /\ NoRow.created = 0
BY HashServAssumption DEF NoRow

LEMMA SoundOldest ==
    ASSUME NEW R, NEW D, NEW t, NEW d, Db(d), SoundDb(d, R, D, t),
           NEW rows, rows \subseteq Joined(d), OldestRow(d, rows) # NoRow
    PROVE  /\ SoundFull(OldestRow(d, rows), R, D, t)
           /\ \E r \in rows : OldestRow(d, rows).taskhash = r.taskhash /\ OldestRow(d, rows).outhash = r.outhash
<1>1. rows # {}
  BY OldestRowIs
<1>2. PICK r \in rows : OldestRow(d, rows) = Of(d, r)
  BY <1>1, OldestRowIs
<1>3. r \in d.outhashes /\ r.taskhash \in Mapped(d)
  BY DEF Joined
<1> QED  BY <1>2, <1>3 DEF Of, SoundFull, SoundDb

LEMMA SoundLookups ==
    ASSUME NEW R, NEW D, NEW t, NEW d, Db(d), SoundDb(d, R, D, t),
           NEW h \in Taskhash, NEW o \in Outhash
    PROVE  /\ ByTaskhash(d, h) # NoRow => Link(R, D, h, ByTaskhash(d, h).unihash)
           /\ ByTaskhashFull(d, h) # NoRow =>
                 SoundFull(ByTaskhashFull(d, h), R, D, t) /\ ByTaskhashFull(d, h).taskhash = h
           /\ ByOuthash(d, o) # NoRow =>
                 SoundFull(ByOuthash(d, o), R, D, t) /\ ByOuthash(d, o).outhash = o
           /\ EquivalentFor(d, h, o) # NoRow =>
                 SoundFull(EquivalentFor(d, h, o), R, D, t) /\ EquivalentFor(d, h, o).outhash = o
<1>1. ByTaskhash(d, h) # NoRow => Link(R, D, h, ByTaskhash(d, h).unihash)
  BY DEF ByTaskhash, SoundDb, NoRow
<1>2. ASSUME NEW rows, rows \subseteq Joined(d), OldestRow(d, rows) # NoRow
      PROVE  /\ SoundFull(OldestRow(d, rows), R, D, t)
             /\ \E r \in rows : OldestRow(d, rows).taskhash = r.taskhash /\ OldestRow(d, rows).outhash = r.outhash
  BY <1>2, SoundOldest
<1>3. ByTaskhashFull(d, h) # NoRow =>
         SoundFull(ByTaskhashFull(d, h), R, D, t) /\ ByTaskhashFull(d, h).taskhash = h
  BY <1>2 DEF ByTaskhashFull
<1>4. ByOuthash(d, o) # NoRow => SoundFull(ByOuthash(d, o), R, D, t) /\ ByOuthash(d, o).outhash = o
  BY <1>2 DEF ByOuthash
<1>5. EquivalentFor(d, h, o) # NoRow =>
         SoundFull(EquivalentFor(d, h, o), R, D, t) /\ EquivalentFor(d, h, o).outhash = o
  BY <1>2 DEF EquivalentFor
<1> QED  BY <1>1, <1>3, <1>4, <1>5

\* A task is linked to the unihash of a row with an output it has reported.
LEMMA OutputHasUnihash ==
    ASSUME NEW R, NEW D, NEW t, NEW row \in FullRow, SoundFull(row, R, D, t), NEW h, <<h, row.outhash>> \in R
    PROVE  Link(R, D, h, row.unihash)
<1>1. Link(R, D, h, row.taskhash)
  BY OutputLinks DEF FullRow, SoundFull
<1> QED  BY <1>1, LinkTrans DEF SoundFull

LEMMA SoundInsertUnihash ==
    ASSUME NEW R, NEW D, NEW t, NEW d, Db(d), SoundDb(d, R, D, t),
           NEW h \in Taskhash, NEW u \in Taskhash, Link(R, D, h, u)
    PROVE  SoundDb(InsertUnihash(d, h, u), R, D, t)
<1> DEFINE e == InsertUnihash(d, h, u)
<1>1. /\ Grows(d, e) /\ Mapped(e) = Mapped(d) \cup {h} /\ e.outhashes = d.outhashes
      /\ h \notin Mapped(d) => UnihashOf(e, h) = u
  BY InsertUnihashDoes
<1> HIDE DEF e
<1>2. \A g \in Mapped(d) : UnihashOf(e, g) = UnihashOf(d, g)
  BY <1>1 DEF Grows, UnihashOf
<1>3. SoundDb(e, R, D, t)
  BY <1>1, <1>2 DEF SoundDb
<1> QED  BY <1>3 DEF e

LEMMA SoundInsertOuthash ==
    ASSUME NEW R, NEW D, NEW t, NEW d, Db(d), SoundDb(d, R, D, t),
           NEW h \in Taskhash, NEW o \in Outhash, NEW c \in Nat, c <= t, <<h, o>> \in R
    PROVE  SoundDb(InsertOuthash(d, h, o, c), R, D, t)
<1>1. CASE HasOuthash(d, h, o)
  BY <1>1 DEF InsertOuthash
<1>2. CASE ~HasOuthash(d, h, o)
  <2> DEFINE r == [taskhash |-> h, outhash |-> o, created |-> c]
             rows == d.outhashes \cup {r}
             e == [d EXCEPT !.outhashes = rows]
  <2>1. e.unihashes = d.unihashes /\ e.outhashes = rows
    BY DEF Db
  <2>2. <<r.taskhash, r.outhash>> \in R /\ r.created <= t
    OBVIOUS
  <2>3. InsertOuthash(d, h, o, c) = e
    BY <1>2 DEF InsertOuthash
  <2> HIDE DEF r, e
  <2> QED  BY <2>1, <2>2, <2>3 DEF SoundDb, Mapped, UnihashOf
<1> QED  BY <1>1, <1>2

LEMMA SoundUpdateUnified ==
    ASSUME NEW R, NEW D, NEW t, NEW d, Db(d), SoundDb(d, R, D, t),
           NEW row \in Answer, row # NoRow => SoundFull(row, R, D, t)
    PROVE  SoundDb(UpdateUnified(d, row), R, D, t)
<1>1. CASE row = NoRow
  BY <1>1 DEF UpdateUnified
<1>2. CASE row # NoRow
  <2>1. row \in FullRow
    BY <1>2 DEF Answer
  <2> DEFINE e == InsertUnihash(d, row.taskhash, row.unihash)
  <2>2. Db(e)
    BY <2>1, InsertUnihashDoes DEF FullRow, Grows
  <2>3. SoundDb(e, R, D, t)
    BY <1>2, <2>1, SoundInsertUnihash DEF FullRow, SoundFull
  <2> HIDE DEF e
  <2>4. SoundDb(InsertOuthash(e, row.taskhash, row.outhash, row.created), R, D, t)
    BY <1>2, <2>1, <2>2, <2>3, SoundInsertOuthash DEF FullRow, SoundFull
  <2> QED  BY <1>2, <2>4 DEF UpdateUnified, e
<1> QED  BY <1>1, <1>2

\* handle_report: the unihash of an equal output, or one the builder brings.
LEMMA SoundReport ==
    ASSUME NEW R, NEW D, NEW t \in Nat, NEW d, Db(d), SoundDb(d, R, D, t),
           NEW h \in Taskhash, NEW o \in Outhash, NEW u \in Taskhash, NEW c \in Nat, c <= t,
           <<h, o>> \in R, Link(R, D, h, u),
           NEW with, with = InsertOuthash(d, h, o, c),
           NEW same, same = EquivalentFor(with, h, o)
    PROVE  /\ SoundDb(with, R, D, t)
           /\ SoundDb(InsertUnihash(with, h, IF same = NoRow THEN u ELSE same.unihash), R, D, t)
<1>1. Db(with) /\ SoundDb(with, R, D, t)
  BY InsertOuthashDoes, SoundInsertOuthash
<1> DEFINE v == IF same = NoRow THEN u ELSE same.unihash
<1>2. v \in Taskhash /\ Link(R, D, h, v)
  <2>1. CASE same = NoRow
    BY <2>1
  <2>2. CASE same # NoRow
    <3>1. same \in FullRow
      BY <1>1, <2>2, LookupTypes DEF Answer
    <3>2. SoundFull(same, R, D, t) /\ same.outhash = o
      BY <1>1, <2>2, SoundLookups
    <3> QED  BY <2>2, <3>1, <3>2, OutputHasUnihash DEF FullRow
  <2> QED  BY <2>1, <2>2
<1> HIDE DEF v
<1>3. SoundDb(InsertUnihash(with, h, v), R, D, t)
  BY <1>1, <1>2, SoundInsertUnihash
<1> QED  BY <1>1, <1>3 DEF v

-----------------------------------------------------------------------------
(* Steps and their reasons.                                                 *)

\* Reports and declarations are never taken back.
Grown == reported \subseteq reported' /\ declared \subseteq declared' /\ now' \in {now, now + 1}

LEMMA ReasonLater ==
    ASSUME HashInv, ReasonInv, Grown
    PROVE  /\ \A s \in Server : SoundDb(db[s], reported', declared', now')
           /\ SoundDb(local, reported', declared', now')
           /\ \A c \in Client : SoundReq(req[c], reported', declared', now')
           /\ answered' = answered => SoundAnswered'
           /\ UNCHANGED queue => SoundBackfill'
           /\ db' = db => SoundDbs'
           /\ req' = req => SoundReqs'
<1>1. Later(reported, declared, now, reported', declared', now')
  BY DEF HashInv, StateInv, ClientInv, Grown, Later
<1>2. \A s \in Server : SoundDb(db[s], reported', declared', now')
  BY <1>1, SoundDbLater DEF HashInv, StateInv, DbInv, ReasonInv, SoundDbs
<1>3. \A c \in Client : SoundReq(req[c], reported', declared', now')
  BY <1>1, SoundReqLater DEF HashInv, StateInv, ClientInv, ReasonInv, SoundReqs
<1>4. \A h, g : Link(reported, declared, h, g) => Link(reported', declared', h, g)
  BY LinkGrows DEF Grown
<1>5. answered' = answered => SoundAnswered'
  BY <1>4 DEF ReasonInv, SoundAnswered
<1>6. UNCHANGED queue => SoundBackfill'
  BY <1>4 DEF ReasonInv, SoundBackfill, queue
<1> QED  BY <1>2, <1>3, <1>5, <1>6 DEF SoundDbs, SoundReqs, local, Server

\* The request of one builder changes.
LEMMA OneReq ==
    ASSUME HashInv, ReasonInv, Grown, NEW c \in Client, NEW q,
           req' = [req EXCEPT ![c] = q], SoundReq(q, reported', declared', now')
    PROVE  SoundReqs'
<1>1. \A x \in Client : req'[x] = IF x = c THEN q ELSE req[x]
  BY DEF HashInv, StateInv, ClientInv
<1> QED  BY <1>1, ReasonLater DEF SoundReqs

LEMMA RespondSound ==
    ASSUME HashInv, ReasonInv, Grown, NEW c \in Client, NEW row, Respond(c, row),
           req[c].op # "get-outhash" /\ row.unihash \in Taskhash =>
               Link(reported', declared', req[c].taskhash, row.unihash)
    PROVE  SoundReqs'
<1> DEFINE q == [req[c] EXCEPT !.pc = "done", !.told = row]
<1>1. req' = [req EXCEPT ![c] = q]
  BY DEF Respond
<1>2. req[c] \in Request /\ SoundReq(req[c], reported', declared', now')
  BY ReasonLater DEF HashInv, StateInv, ClientInv
<1>3. /\ q.pc = "done" /\ q.told = row /\ q.op = req[c].op /\ q.taskhash = req[c].taskhash
      /\ q.unihash = req[c].unihash
  BY <1>2 DEF Request
<1> HIDE DEF q
<1>4. SoundReq(q, reported', declared', now')
  BY <1>2, <1>3 DEF SoundReq
<1> QED  BY <1>1, <1>4, OneReq

LEMMA AskSound ==
    ASSUME HashInv, ReasonInv, Grown, NEW c \in Client, Ask(c),
           req[c].op \in {"report", "report-readonly"} => <<req[c].taskhash, req[c].outhash>> \in reported'
    PROVE  SoundReqs'
<1> DEFINE q == [req[c] EXCEPT !.pc = "asked"]
<1>1. req' = [req EXCEPT ![c] = q]
  BY DEF Ask
<1>2. req[c] \in Request /\ SoundReq(req[c], reported', declared', now')
  BY ReasonLater DEF HashInv, StateInv, ClientInv
<1>3. /\ q.pc = "asked" /\ q.op = req[c].op /\ q.taskhash = req[c].taskhash
      /\ q.unihash = req[c].unihash /\ q.outhash = req[c].outhash
  BY <1>2 DEF Request
<1> HIDE DEF q
<1>4. SoundReq(q, reported', declared', now')
  BY <1>2, <1>3 DEF SoundReq
<1> QED  BY <1>1, <1>4, OneReq

LEMMA AgainSound ==
    ASSUME NEW R, NEW D, NEW t, NEW q \in Request, SoundReq(q, R, D, t)
    PROVE  SoundReq(Again(q), R, D, t) /\ SoundReq(Idle, R, D, t)
<1>1. SoundReq(Idle, R, D, t)
  BY LinkRefl DEF Idle, SoundReq
<1>2. CASE q.count = 3
  BY <1>1, <1>2 DEF Again
<1>3. CASE q.count # 3
  <2> DEFINE n == NoRow
             p == [q EXCEPT !.pc = "sent", !.count = @ + 1, !.told = n]
  <2>1. Again(q) = p
    BY <1>3 DEF Again
  <2>2. p.pc = "sent" /\ p.op = q.op /\ p.taskhash = q.taskhash /\ p.unihash = q.unihash
    BY DEF Request
  <2> HIDE DEF p
  <2>3. SoundReq(p, R, D, t)
    BY <2>2 DEF SoundReq
  <2> QED  BY <1>1, <2>1, <2>3
<1> QED  BY <1>2, <1>3

LEMMA StoreSound ==
    ASSUME HashInv, ReasonInv, Grown, NEW e, Store(e), SoundDb(e, reported', declared', now')
    PROVE  SoundDbs' /\ local' = e
<1>1. db'["local"] = e /\ db'["up"] = db["up"]
  BY DEF Store, HashInv, StateInv, DbInv, Server
<1>2. SoundDb(db["up"], reported', declared', now')
  BY ReasonLater DEF Server
<1> QED  BY <1>1, <1>2 DEF SoundDbs, Server, local

\* The end of handle_report.
LEMMA FinishSound ==
    ASSUME HashInv, ReasonInv, Grown, NEW c \in Client, NEW after, Grows(local, after),
           req[c].taskhash \in Mapped(after), FinishReport(c, after),
           SoundDb(after, reported', declared', now')
    PROVE  SoundDbs' /\ SoundReqs' /\ HistoryTypes'
<1>1. Db(after) /\ req[c].taskhash \in Taskhash /\ AnyOut \in Outhash /\ req[c].outhash \in Outhash
  BY RequestTypes, AnyIsThere DEF Grows, HashInv, StateInv
<1>2. PICK h : h = req[c].taskhash
  OBVIOUS
<1> DEFINE row == ByTaskhash(after, h)
<1>3. /\ Store(after) /\ Respond(c, row) /\ settled' = settled \cup {<<h, row.unihash>>}
      /\ first' = IF h \in Mapped(after) \ Mapped(local) THEN With(first, h, req[c].outhash) ELSE first
  BY <1>2 DEF FinishReport
<1>4. row.unihash = UnihashOf(after, h) /\ row.unihash \in Taskhash
  <2>1. row.unihash = UnihashOf(after, h)
    BY <1>2 DEF ByTaskhash, NoRow
  <2> QED  BY <1>1, <1>2, <2>1, LookupTypes
<1>5. Link(reported', declared', h, row.unihash)
  BY <1>2, <1>4 DEF SoundDb
<1> HIDE DEF row
<1>6. SoundReqs'
  BY <1>2, <1>3, <1>5, RespondSound
<1>7. DOMAIN With(first, h, req[c].outhash) = DOMAIN first \cup {h}
  BY WithAdds
<1>8. HistoryTypes'
  <2>1. settled' \subseteq Taskhash \X Taskhash
    BY <1>1, <1>2, <1>3, <1>4 DEF ReasonInv, HistoryTypes
  <2>2. DOMAIN first' \subseteq Taskhash
    BY <1>1, <1>2, <1>3, <1>7 DEF ReasonInv, HistoryTypes
  <2> QED  BY <2>1, <2>2 DEF HistoryTypes
<1> QED  BY <1>3, <1>6, <1>8, StoreSound

LEMMA SendReason ==
    ASSUME HashInv, ReasonInv, NEW c \in Client, Send(c) \/ Receive(c)
    PROVE  ReasonInv'
<1>1. /\ Grown /\ db' = db /\ UNCHANGED queue /\ settled' = settled /\ first' = first
      /\ reported' = reported /\ declared' = declared /\ now' = now
  BY DEF Send, Receive, history, Grown
<1>2. SoundDbs' /\ SoundBackfill' /\ HistoryTypes'
  BY <1>1, ReasonLater DEF ReasonInv, HistoryTypes
<1>3. SoundReqs'
  <2>1. CASE Receive(c)
    <3>1. SoundReq(Idle, reported', declared', now')
      BY LinkRefl DEF Idle, SoundReq
    <3> QED  BY <1>1, <2>1, <3>1, OneReq DEF Receive
  <2>2. CASE Send(c)
    <3>1. PICK op \in scenario.operations, h \in scenario.taskhashes,
               o \in scenario.outhashes \cup {AnyOut}, u \in scenario.taskhashes :
            Sensible(Sent(op, h, o, u)) /\ req' = [req EXCEPT ![c] = Sent(op, h, o, u)]
      <4> HIDE DEF Sensible
      <4> QED  BY <2>2 DEF Send, Sent
    <3> DEFINE q == Sent(op, h, o, u)
    <3>2. q.op = op /\ q.taskhash = h /\ q.unihash = u /\ q.pc = "sent"
      BY DEF Sent, Idle
    <3>3. q.op # "report-equiv" => q.unihash = q.taskhash \/ <<q.taskhash, q.unihash>> \in answered
      BY <3>1 DEF Sensible
    <3> HIDE DEF q
    <3>4. SoundReq(q, reported', declared', now')
      <4>1. <<q.taskhash, q.unihash>> \in answered => Link(reported, declared, q.taskhash, q.unihash)
        BY DEF ReasonInv, SoundAnswered
      <4> QED  BY <1>1, <3>2, <3>3, <4>1, LinkRefl DEF SoundReq
    <3>5. req' = [req EXCEPT ![c] = q]
      BY <3>1 DEF q
    <3> QED  BY <1>1, <3>4, <3>5, OneReq
  <2> QED  BY <2>1, <2>2
<1>4. SoundAnswered'
  <2>1. CASE Send(c)
    <3>1. answered' = answered
      BY <2>1 DEF Send, history
    <3> QED  BY <1>1, <3>1, ReasonLater
  <2>2. CASE Receive(c)
    <3>1. /\ req[c].pc = "done"
          /\ answered' = IF req[c].told.unihash \in Taskhash /\ req[c].op # "get-outhash"
                         THEN answered \cup {<<req[c].taskhash, req[c].told.unihash>>} ELSE answered
      BY <2>2 DEF Receive
    <3>2. SoundReq(req[c], reported, declared, now) /\ SoundAnswered
      BY DEF ReasonInv, SoundAnswered, SoundReqs
    <3> QED  BY <1>1, <3>1, <3>2 DEF SoundReq, SoundAnswered
  <2> QED  BY <2>1, <2>2
<1> QED  BY <1>2, <1>3, <1>4 DEF ReasonInv

LEMMA LookUpReason ==
    ASSUME HashInv, ReasonInv, NEW c \in Client, LookUp(c)
    PROVE  ReasonInv'
<1> DEFINE q == req[c]
<1>1. /\ Grown /\ db' = db /\ UNCHANGED queue /\ settled' = settled /\ first' = first
      /\ answered' = answered
  BY DEF LookUp, Grown
<1>2. SoundDbs' /\ SoundBackfill' /\ SoundAnswered' /\ HistoryTypes'
  BY <1>1, ReasonLater DEF ReasonInv, HistoryTypes
<1>3. /\ q.op \in {"get-stream", "get", "get-all", "get-outhash", "report-readonly"}
      /\ q.op = "report-readonly" => <<q.taskhash, q.outhash>> \in reported'
      /\ \/ Found(q) # NoRow /\ Respond(c, Found(q))
         \/ Ask(c)
         \/ Respond(c, [NoRow EXCEPT !.unihash = q.unihash]) /\ q.op = "report-readonly"
         \/ Respond(c, NoRow)
  BY DEF LookUp
<1>4. /\ q \in Request /\ q.taskhash \in Taskhash /\ q.outhash \in Outhash /\ Db(local)
      /\ SoundReq(q, reported', declared', now') /\ SoundDb(local, reported', declared', now')
  BY <1>1, RequestTypes, LocalDb, ReasonLater DEF HashInv, StateInv
<1>5. CASE Ask(c)
  BY <1>1, <1>2, <1>3, <1>5, AskSound DEF ReasonInv
<1>6. CASE Found(q) # NoRow /\ Respond(c, Found(q))
  <2>1. CASE q.op \in {"get-stream", "get"}
    <3>1. Found(q) = ByTaskhash(local, q.taskhash)
      BY <2>1, Zenon DEF Found
    <3>2. Link(reported', declared', q.taskhash, Found(q).unihash)
      BY <1>4, <1>6, <3>1, SoundLookups
    <3> QED  BY <1>1, <1>2, <1>6, <3>2, RespondSound DEF ReasonInv
  <2>2. CASE q.op = "get-all"
    <3>1. Found(q) = ByTaskhashFull(local, q.taskhash)
      BY <2>2 DEF Found
    <3>2. SoundFull(Found(q), reported', declared', now') /\ Found(q).taskhash = q.taskhash
      BY <1>4, <1>6, <3>1, SoundLookups
    <3>3. Link(reported', declared', q.taskhash, Found(q).unihash)
      BY <3>2 DEF SoundFull
    <3> QED  BY <1>1, <1>2, <1>6, <3>3, RespondSound DEF ReasonInv
  <2>3. CASE q.op = "get-outhash"
    BY <1>1, <1>2, <1>6, <2>3, RespondSound DEF ReasonInv
  <2>4. CASE q.op = "report-readonly"
    <3>1. Found(q) = ByOuthash(local, q.outhash)
      BY <2>4 DEF Found
    <3>2. Found(q) \in FullRow
      BY <1>4, <1>6, <3>1, LookupTypes DEF Answer
    <3>3. SoundFull(Found(q), reported', declared', now') /\ Found(q).outhash = q.outhash
      BY <1>4, <1>6, <3>1, SoundLookups
    <3>4. Link(reported', declared', q.taskhash, Found(q).unihash)
      BY <1>3, <2>4, <3>2, <3>3, OutputHasUnihash
    <3> QED  BY <1>1, <1>2, <1>6, <3>4, RespondSound DEF ReasonInv
  <2> QED  BY <1>3, <2>1, <2>2, <2>3, <2>4
<1>7. CASE Respond(c, [NoRow EXCEPT !.unihash = q.unihash]) /\ q.op = "report-readonly"
  <2>1. [NoRow EXCEPT !.unihash = q.unihash].unihash = q.unihash
    BY DEF NoRow
  <2>2. Link(reported', declared', q.taskhash, q.unihash)
    BY <1>4, <1>7 DEF SoundReq
  <2> QED  BY <1>1, <1>2, <1>7, <2>1, <2>2, RespondSound DEF ReasonInv
<1>8. CASE Respond(c, NoRow)
  BY <1>1, <1>2, <1>8, NoRowSays, RespondSound DEF ReasonInv
<1> QED  BY <1>3, <1>5, <1>6, <1>7, <1>8

LEMMA ReportReason ==
    ASSUME HashInv, ReasonInv, NEW c \in Client, Report(c)
    PROVE  ReasonInv'
<1>1. /\ Grown /\ UNCHANGED queue /\ answered' = answered
      /\ req[c].op = "report" /\ <<req[c].taskhash, req[c].outhash>> \in reported'
      /\ now' = now + 1
  BY DEF Report, Grown
<1>2. SoundBackfill' /\ SoundAnswered'
  BY <1>1, ReasonLater
<1>3. PICK h, o, u : h = req[c].taskhash /\ o = req[c].outhash /\ u = req[c].unihash
  OBVIOUS
<1>4. PICK with, same : with = InsertOuthash(local, h, o, now) /\ same = EquivalentFor(with, h, o)
  OBVIOUS
<1>5. PICK after : after = InsertUnihash(with, h, IF same = NoRow THEN u ELSE same.unihash)
  OBVIOUS
<1>6. \/ Ask(c) /\ Store(with) /\ UNCHANGED <<settled, first>>
      \/ FinishReport(c, after)
  BY <1>3, <1>4, <1>5 DEF Report, Inserted
<1>7. /\ h \in Taskhash /\ o \in Outhash /\ u \in Taskhash /\ now \in Nat /\ now' \in Nat /\ Db(local)
      /\ now <= now'
  BY <1>1, <1>3, RequestTypes, LocalDb DEF HashInv, StateInv, ClientInv
<1>8. Link(reported', declared', h, u) /\ SoundDb(local, reported', declared', now')
  BY <1>1, <1>3, ReasonLater DEF SoundReq
<1>9. SoundDb(with, reported', declared', now') /\ SoundDb(after, reported', declared', now')
  BY <1>1, <1>3, <1>4, <1>5, <1>7, <1>8, SoundReport
<1>10. CASE Ask(c) /\ Store(with) /\ UNCHANGED <<settled, first>>
  <2>1. HistoryTypes'
    BY <1>10 DEF ReasonInv, HistoryTypes
  <2> QED  BY <1>1, <1>2, <1>9, <1>10, <2>1, AskSound, StoreSound DEF ReasonInv
<1>11. CASE FinishReport(c, after)
  <2>1. Db(with) /\ Grows(local, with)
    BY <1>4, <1>7, InsertOuthashDoes
  <2> DEFINE v == IF same = NoRow THEN u ELSE same.unihash
  <2>2. v \in Taskhash
    BY <1>4, <1>7, <2>1, LookupTypes DEF Answer, FullRow
  <2>3. after = InsertUnihash(with, h, v)
    BY <1>5
  <2> HIDE DEF v
  <2>4. Grows(with, after) /\ h \in Mapped(after)
    BY <1>7, <2>1, <2>2, <2>3, InsertUnihashDoes
  <2>5. Grows(local, after)
    BY <1>7, <2>1, <2>4, GrowsOn
  <2> QED  BY <1>1, <1>2, <1>3, <1>9, <1>11, <2>4, <2>5, FinishSound DEF ReasonInv
<1> QED  BY <1>6, <1>10, <1>11

LEMMA EquivReason ==
    ASSUME HashInv, ReasonInv, NEW c \in Client, ReportEquiv(c)
    PROVE  ReasonInv'
<1>1. PICK h, u : h = req[c].taskhash /\ u = req[c].unihash
  OBVIOUS
<1>2. PICK after : after = InsertUnihash(local, h, u)
  OBVIOUS
<1>3. /\ Grown /\ UNCHANGED queue /\ answered' = answered /\ settled' = settled /\ first' = first
      /\ <<h, u>> \in declared' /\ Store(after) /\ Respond(c, ByTaskhash(after, h))
  BY <1>1, <1>2 DEF ReportEquiv, Grown
<1>4. SoundBackfill' /\ SoundAnswered' /\ HistoryTypes'
  BY <1>3, ReasonLater DEF ReasonInv, HistoryTypes
<1>5. h \in Taskhash /\ u \in Taskhash /\ Db(local) /\ AnyOut \in Outhash
  BY <1>1, RequestTypes, LocalDb, AnyIsThere DEF HashInv, StateInv
<1>6. Link(reported', declared', h, u)
  BY <1>3, <1>5, LineLinks DEF Line
<1>7. SoundDb(after, reported', declared', now') /\ Db(after)
  BY <1>2, <1>3, <1>5, <1>6, ReasonLater, SoundInsertUnihash, InsertUnihashDoes DEF Grows
<1>8. ByTaskhash(after, h).unihash \in Taskhash => Link(reported', declared', h, ByTaskhash(after, h).unihash)
  BY <1>5, <1>7, SoundLookups, NoRowSays
<1> QED  BY <1>1, <1>3, <1>4, <1>7, <1>8, StoreSound, RespondSound DEF ReasonInv

LEMMA AnswersReason ==
    ASSUME HashInv, ReasonInv, NEW c \in Client, UpstreamAnswers(c)
    PROVE  ReasonInv'
<1> DEFINE q == req[c]
           up == db["up"]
<1>1. /\ Grown /\ db' = db /\ UNCHANGED queue /\ UNCHANGED history /\ q.pc = "asked"
  BY DEF UpstreamAnswers, Grown, history
<1>2. SoundDbs' /\ SoundBackfill' /\ SoundAnswered' /\ HistoryTypes'
  BY <1>1, ReasonLater DEF ReasonInv, HistoryTypes, history
<1>3. /\ q \in Request /\ q.taskhash \in Taskhash /\ q.outhash \in Outhash /\ Db(up) /\ q.op \in Passed
      /\ SoundReq(q, reported', declared', now') /\ SoundDb(up, reported', declared', now')
  BY <1>1, RequestTypes, LocalDb, ReasonLater DEF HashInv, StateInv, Request, Server
<1>4. PICK row :
        /\ req' = [req EXCEPT ![c].pc = "told", ![c].told = row]
        /\ q.op \in {"get-stream", "get"} => row = ByTaskhash(up, q.taskhash)
        /\ q.op = "get-all" => row = ByTaskhashFull(up, q.taskhash)
        /\ q.op \in {"get-outhash", "report", "report-readonly"} => row = ByOuthash(up, q.outhash)
  BY <1>3 DEF UpstreamAnswers, Passed
<1> DEFINE p == [q EXCEPT !.pc = "told", !.told = row]
<1>5. req' = [req EXCEPT ![c] = p]
  BY <1>4
<1>6. /\ p.pc = "told" /\ p.told = row /\ p.op = q.op /\ p.taskhash = q.taskhash
      /\ p.unihash = q.unihash /\ p.outhash = q.outhash
  BY <1>3 DEF Request
<1> HIDE DEF p, q, up
<1>7. row # NoRow => SoundTold(p, reported', declared', now')
  BY <1>3, <1>4, <1>6, SoundLookups DEF SoundTold
<1>8. SoundReq(p, reported', declared', now')
  BY <1>1, <1>3, <1>6, <1>7 DEF SoundReq
<1> QED  BY <1>1, <1>2, <1>5, <1>8, OneReq DEF ReasonInv

LEMMA StreamReason ==
    ASSUME HashInv, ReasonInv, NEW c \in Client, StreamGoesOn(c) \/ BackfillWait(c)
    PROVE  ReasonInv'
<1>1. /\ Grown /\ db' = db /\ UNCHANGED history /\ backfill' = backfill
  BY DEF StreamGoesOn, BackfillWait, Grown, history, queue
<1>2. SoundDbs' /\ SoundAnswered' /\ HistoryTypes'
  BY <1>1, ReasonLater DEF ReasonInv, HistoryTypes, history
<1>3. /\ req[c].told # NoRow => req[c].told.unihash \in Taskhash
      /\ req[c].taskhash \in Taskhash
      /\ SoundReq(req[c], reported', declared', now')
  BY <1>1, RequestTypes, ReasonLater DEF HashInv, StateInv
<1>4. SoundReqs'
  <2>1. CASE StreamGoesOn(c)
    <3>1. Respond(c, req[c].told) /\ req[c].pc = "told" /\ req[c].op = "get-stream"
      BY <2>1 DEF StreamGoesOn, Told
    <3>2. req[c].told.unihash \in Taskhash => Link(reported', declared', req[c].taskhash, req[c].told.unihash)
      BY <1>3, <3>1, NoRowSays DEF SoundReq, SoundTold
    <3> QED  BY <1>1, <3>1, <3>2, RespondSound
  <2>2. CASE BackfillWait(c)
    BY <1>1, <2>2, NoRowSays, RespondSound DEF BackfillWait
  <2> QED  BY <2>1, <2>2
<1>5. SoundBackfill'
  <2>1. CASE backfill_queue' = backfill_queue
    BY <1>1, <2>1, ReasonLater DEF queue
  <2>2. CASE backfill_queue' = Append(backfill_queue, req[c].taskhash)
    <3>1. backfill_queue = <<>> => backfill.unihash = NoHash
      BY DEF HashInv, StateInv, QueueInv, NotAsked
    <3>2. backfill_queue \in Seq(Taskhash)
      BY DEF HashInv, StateInv, QueueInv
    <3>3. backfill_queue # <<>> => Head(backfill_queue') = Head(backfill_queue)
      BY <1>3, <2>2, <3>2
    <3> QED  BY <1>1, <3>1, <3>3 DEF ReasonInv, SoundBackfill, history
  <2>3. backfill_queue' = backfill_queue \/ backfill_queue' = Append(backfill_queue, req[c].taskhash)
    BY DEF StreamGoesOn, BackfillWait, queue
  <2> QED  BY <2>1, <2>2, <2>3
<1> QED  BY <1>2, <1>4, <1>5 DEF ReasonInv

LEMMA ToldReason ==
    ASSUME HashInv, ReasonInv, NEW c \in Client, GetGoesOn(c) \/ UnifiedGoesOn(c)
    PROVE  ReasonInv'
<1> DEFINE q == req[c]
<1>1. /\ Grown /\ UNCHANGED queue /\ answered' = answered /\ settled' = settled /\ first' = first
      /\ q.pc = "told"
  BY DEF GetGoesOn, UnifiedGoesOn, Grown, Told
<1>2. SoundBackfill' /\ SoundAnswered' /\ HistoryTypes'
  BY <1>1, ReasonLater DEF ReasonInv, HistoryTypes
<1>3. /\ q \in Request /\ q.taskhash \in Taskhash /\ q.told \in Answer /\ Db(local)
      /\ q.told # NoRow => q.told \in FullRow /\ q.told.unihash \in Taskhash
      /\ SoundReq(q, reported', declared', now') /\ SoundDb(local, reported', declared', now')
  BY <1>1, RequestTypes, LocalDb, ReasonLater DEF HashInv, StateInv, Answer
<1>4. q.told # NoRow => SoundTold(q, reported', declared', now')
  BY <1>1, <1>3 DEF SoundReq
<1>5. CASE GetGoesOn(c)
  <2>1. q.op = "get"
    BY <1>5 DEF GetGoesOn, Told
  <2>2. CASE q.told = NoRow
    <3>1. db' = db /\ req' = [req EXCEPT ![c] = Again(q)]
      BY <1>5, <2>2 DEF GetGoesOn
    <3>2. SoundReq(Again(q), reported', declared', now')
      BY <1>3, AgainSound
    <3> HIDE DEF q
    <3> QED  BY <1>1, <1>2, <3>1, <3>2, OneReq, ReasonLater DEF ReasonInv
  <2>3. CASE q.told # NoRow
    <3>1. Respond(c, q.told) /\ Store(InsertUnihash(local, q.taskhash, q.told.unihash))
      BY <1>5, <2>3 DEF GetGoesOn
    <3>2. Link(reported', declared', q.taskhash, q.told.unihash)
      BY <1>4, <2>1, <2>3 DEF SoundTold
    <3>3. SoundDb(InsertUnihash(local, q.taskhash, q.told.unihash), reported', declared', now')
      BY <1>3, <2>3, <3>2, SoundInsertUnihash
    <3>4. SoundReqs'
      BY <1>1, <3>1, <3>2, RespondSound
    <3> QED  BY <1>1, <1>2, <3>1, <3>3, <3>4, StoreSound DEF ReasonInv
  <2> QED  BY <2>2, <2>3
<1>6. CASE UnifiedGoesOn(c)
  <2>1. q.op \in {"get-all", "get-outhash", "report-readonly"}
    BY <1>6 DEF UnifiedGoesOn, Told
  <2>2. q.told # NoRow => SoundFull(q.told, reported', declared', now')
    BY <1>4, <2>1 DEF SoundTold
  <2>3. SoundDb(UpdateUnified(local, q.told), reported', declared', now')
    BY <1>3, <2>2, SoundUpdateUnified
  <2>4. Store(UpdateUnified(local, q.told))
    BY <1>6 DEF UnifiedGoesOn
  <2>5. \/ Respond(c, [NoRow EXCEPT !.unihash = q.unihash]) /\ q.op = "report-readonly"
        \/ Respond(c, q.told)
    BY <1>6 DEF UnifiedGoesOn
  <2>6. CASE Respond(c, [NoRow EXCEPT !.unihash = q.unihash]) /\ q.op = "report-readonly"
    <3>1. [NoRow EXCEPT !.unihash = q.unihash].unihash = q.unihash
      BY DEF NoRow
    <3>2. Link(reported', declared', q.taskhash, q.unihash)
      BY <1>3, <2>6 DEF SoundReq
    <3>3. SoundReqs'
      BY <1>1, <2>6, <3>1, <3>2, RespondSound
    <3> QED  BY <1>1, <1>2, <2>3, <2>4, <3>3, StoreSound DEF ReasonInv
  <2>7. CASE Respond(c, q.told)
    <3>1. q.told.unihash \in Taskhash => q.told # NoRow
      BY NoRowSays
    <3>2. q.op = "get-all" /\ q.told # NoRow => Link(reported', declared', q.taskhash, q.told.unihash)
      BY <1>4, <2>2 DEF SoundTold, SoundFull
    <3>3. q.op = "report-readonly" /\ q.told # NoRow => Link(reported', declared', q.taskhash, q.told.unihash)
      <4> SUFFICES ASSUME q.op = "report-readonly", q.told # NoRow
                   PROVE  Link(reported', declared', q.taskhash, q.told.unihash)
        OBVIOUS
      <4>1. <<q.taskhash, q.told.outhash>> \in reported'
        BY <1>1, <1>3, <1>4 DEF SoundReq, SoundTold
      <4> QED  BY <1>3, <2>2, <4>1, OutputHasUnihash
    <3>4. SoundReqs'
      BY <1>1, <2>1, <2>7, <3>1, <3>2, <3>3, RespondSound
    <3> QED  BY <1>1, <1>2, <2>3, <2>4, <3>4, StoreSound DEF ReasonInv
  <2> QED  BY <2>5, <2>6, <2>7
<1> QED  BY <1>5, <1>6

LEMMA ReportOnReason ==
    ASSUME HashInv, ReasonInv, NEW c \in Client, ReportGoesOn(c)
    PROVE  ReasonInv'
<1> DEFINE q == req[c]
           u == IF q.told = NoRow THEN q.unihash ELSE q.told.unihash
<1>1. /\ Grown /\ UNCHANGED queue /\ answered' = answered
      /\ q.pc = "told" /\ q.op = "report"
  BY DEF ReportGoesOn, Grown, Told
<1>2. SoundBackfill' /\ SoundAnswered'
  BY <1>1, ReasonLater
<1>3. /\ q \in Request /\ q.taskhash \in Taskhash /\ q.unihash \in Taskhash /\ Db(local)
      /\ q.told # NoRow => q.told \in FullRow /\ q.told.unihash \in Taskhash
      /\ SoundReq(q, reported', declared', now') /\ SoundDb(local, reported', declared', now')
  BY <1>1, RequestTypes, LocalDb, ReasonLater DEF HashInv, StateInv, Answer
<1>4. u \in Taskhash /\ Link(reported', declared', q.taskhash, u)
  <2>1. CASE q.told = NoRow
    BY <1>1, <1>3, <2>1 DEF SoundReq
  <2>2. CASE q.told # NoRow
    <3>1. SoundFull(q.told, reported', declared', now') /\ <<q.taskhash, q.told.outhash>> \in reported'
      BY <1>1, <1>3, <2>2 DEF SoundReq, SoundTold
    <3> QED  BY <1>3, <2>2, <3>1, OutputHasUnihash
  <2> QED  BY <2>1, <2>2
<1>5. PICK after : after = InsertUnihash(local, q.taskhash, u)
  OBVIOUS
<1>6. FinishReport(c, after)
  BY <1>5 DEF ReportGoesOn
<1> HIDE DEF u
<1>7. /\ SoundDb(after, reported', declared', now') /\ Grows(local, after) /\ q.taskhash \in Mapped(after)
  BY <1>3, <1>4, <1>5, SoundInsertUnihash, InsertUnihashDoes
<1> QED  BY <1>1, <1>2, <1>6, <1>7, FinishSound DEF ReasonInv

LEMMA BackfillReason ==
    ASSUME HashInv, ReasonInv, Backfill
    PROVE  ReasonInv'
<1>1. Grown /\ req' = req /\ answered' = answered /\ settled' = settled /\ first' = first
  BY DEF Backfill, BackfillAsks, BackfillStores, Grown, history
<1>2. SoundReqs' /\ SoundAnswered' /\ HistoryTypes'
  BY <1>1, ReasonLater DEF ReasonInv, HistoryTypes
<1>3. CASE BackfillAsks
  <2>1. db' = db /\ backfill_queue' = backfill_queue
        /\ backfill'.unihash = ByTaskhash(db["up"], Head(backfill_queue)).unihash
    BY <1>3 DEF BackfillAsks
  <2>2. Head(backfill_queue) \in Taskhash /\ AnyOut \in Outhash /\ Db(db["up"])
    BY <1>3, AnyIsThere, LocalDb DEF BackfillAsks, HashInv, StateInv, QueueInv
  <2>3. SoundDb(db["up"], reported', declared', now')
    BY <1>1, ReasonLater DEF Server
  <2>4. SoundBackfill'
    BY <2>1, <2>2, <2>3, SoundLookups DEF SoundBackfill, NoRow
  <2> QED  BY <1>1, <1>2, <2>1, <2>4, ReasonLater DEF ReasonInv
<1>4. CASE BackfillStores
  <2>1. Head(backfill_queue) \in Taskhash /\ Db(local)
    BY <1>4, LocalDb DEF BackfillStores, HashInv, StateInv, QueueInv, NotAsked
  <2>2. SoundBackfill'
    BY <1>4 DEF BackfillStores, SoundBackfill, NotAsked
  <2>3. SoundDbs'
    <3>1. CASE backfill.unihash = NoHash
      BY <1>1, <1>4, <3>1, ReasonLater DEF BackfillStores
    <3>2. CASE backfill.unihash # NoHash
      <4>1. backfill.unihash \in Taskhash
        BY <3>2 DEF HashInv, StateInv, QueueInv
      <4>2. Link(reported', declared', Head(backfill_queue), backfill.unihash)
        BY <1>4, <3>2 DEF BackfillStores, ReasonInv, SoundBackfill
      <4>3. SoundDb(InsertUnihash(local, Head(backfill_queue), backfill.unihash), reported', declared', now')
        BY <1>1, <2>1, <4>1, <4>2, ReasonLater, SoundInsertUnihash
      <4>4. Store(InsertUnihash(local, Head(backfill_queue), backfill.unihash))
        BY <1>4, <3>2 DEF BackfillStores
      <4> QED  BY <1>1, <4>3, <4>4, StoreSound
    <3> QED  BY <3>1, <3>2
  <2> QED  BY <1>2, <2>2, <2>3 DEF ReasonInv
<1> QED  BY <1>3, <1>4 DEF Backfill

\* Mappings and rows of a sound database may go.
LEMMA SoundLess ==
    ASSUME NEW R, NEW D, NEW t, NEW d, SoundDb(d, R, D, t), NEW e,
           Mapped(e) \subseteq Mapped(d), e.outhashes \subseteq d.outhashes,
           \A h \in Mapped(e) : UnihashOf(e, h) = UnihashOf(d, h)
    PROVE  SoundDb(e, R, D, t)
BY DEF SoundDb

LEMMA UpstreamReason ==
    ASSUME HashInv, ReasonInv, UpstreamReport \/ UpstreamForgets
    PROVE  ReasonInv'
<1>1. /\ Grown /\ UNCHANGED <<req, queue>> /\ answered' = answered /\ settled' = settled /\ first' = first
      /\ now \in Nat
  BY DEF UpstreamReport, UpstreamForgets, Grown, history, HashInv, StateInv, ClientInv
<1>2. SoundReqs' /\ SoundAnswered' /\ SoundBackfill' /\ HistoryTypes'
  BY <1>1, ReasonLater DEF ReasonInv, HistoryTypes
<1>3. Db(db["up"]) /\ db = [s \in Server |-> db[s]]
  BY LocalDb DEF HashInv, StateInv, DbInv
<1>4. SoundDb(db["up"], reported', declared', now') /\ SoundDb(db["local"], reported', declared', now')
  BY <1>1, ReasonLater DEF Server
<1>5. ASSUME NEW e, db' = [db EXCEPT !["up"] = e], SoundDb(e, reported', declared', now')
      PROVE  ReasonInv'
  <2>1. db'["up"] = e /\ db'["local"] = db["local"]
    BY <1>3, <1>5 DEF Server
  <2>2. SoundDbs'
    BY <1>4, <1>5, <2>1 DEF SoundDbs, Server
  <2> QED  BY <1>2, <2>2 DEF ReasonInv
<1>6. CASE UpstreamReport
  <2>1. PICK h \in scenario.taskhashes, o \in scenario.outhashes :
          /\ db' = [db EXCEPT !["up"] = ReportTo(@, h, o, h, now)]
          /\ <<h, o>> \in reported'
    BY <1>6 DEF UpstreamReport
  <2>2. h \in Taskhash /\ o \in Outhash
    BY HashServAssumption DEF HashInv, StateInv, ClientInv, ScenarioType
  <2>3. db' = [db EXCEPT !["up"] = ReportTo(db["up"], h, o, h, now)]
    BY <1>3, <2>1 DEF Server
  <2>4. SoundDb(ReportTo(db["up"], h, o, h, now), reported', declared', now')
    <3>1. now' \in Nat /\ now <= now'
      BY <1>1 DEF Grown
    <3>2. PICK with, same : with = InsertOuthash(db["up"], h, o, now) /\ same = EquivalentFor(with, h, o)
      OBVIOUS
    <3>3. SoundDb(InsertUnihash(with, h, IF same = NoRow THEN h ELSE same.unihash), reported', declared', now')
      BY <1>1, <1>3, <1>4, <2>1, <2>2, <3>1, <3>2, LinkRefl, SoundReport
    <3> QED  BY <3>2, <3>3 DEF ReportTo
  <2> QED  BY <1>5, <2>3, <2>4
<1>7. CASE UpstreamForgets
  <2>1. PICK h \in Mapped(db["up"]) :
          db' = [db EXCEPT !["up"].unihashes = Restrict(@, Mapped(db["up"]) \ {h})]
    BY <1>7 DEF UpstreamForgets
  <2> DEFINE m == Restrict(db["up"].unihashes, Mapped(db["up"]) \ {h})
             e == [db["up"] EXCEPT !.unihashes = m]
  <2>2. db' = [db EXCEPT !["up"] = e]
    BY <1>3, <2>1 DEF Server
  <2>3. DOMAIN m = Mapped(db["up"]) \ {h} /\ \A g \in DOMAIN m : m[g] = db["up"].unihashes[g]
    BY DEF Restrict
  <2> HIDE DEF m
  <2>4. e.unihashes = m /\ e.outhashes = db["up"].outhashes
    BY <1>3 DEF Db
  <2> HIDE DEF e
  <2>5. /\ Mapped(e) \subseteq Mapped(db["up"]) /\ e.outhashes \subseteq db["up"].outhashes
        /\ \A g \in Mapped(e) : UnihashOf(e, g) = UnihashOf(db["up"], g)
    BY <2>3, <2>4 DEF Mapped, UnihashOf
  <2>6. SoundDb(e, reported', declared', now')
    BY <1>4, <2>5, SoundLess
  <2> QED  BY <1>5, <2>2, <2>6
<1> QED  BY <1>6, <1>7

\* What is done to the local database alone, and takes nothing in.
LEMMA LocalReason ==
    ASSUME HashInv, ReasonInv, Grown, NEW e, db' = [db EXCEPT !["local"] = e],
           SoundDb(e, reported', declared', now')
    PROVE  SoundDbs'
<1>1. db'["local"] = e /\ db'["up"] = db["up"]
  BY DEF HashInv, StateInv, DbInv, Server
<1>2. SoundDb(db["up"], reported', declared', now')
  BY ReasonLater DEF Server
<1> QED  BY <1>1, <1>2 DEF SoundDbs, Server

LEMMA AdminReason ==
    ASSUME HashInv, ReasonInv, Admin
    PROVE  ReasonInv'
<1>1. ASSUME NEW gone, NEW rows, rows \subseteq local.outhashes, NEW mark, Drop(gone, rows, mark)
      PROVE  ReasonInv'
  <2>1. /\ Grown /\ UNCHANGED <<req, queue>> /\ answered' = answered
        /\ settled' \subseteq settled /\ first' = Restrict(first, DOMAIN first \ gone)
    BY <1>1 DEF Drop, Grown
  <2>2. HistoryTypes'
    BY <2>1 DEF ReasonInv, HistoryTypes, Restrict
  <2> DEFINE m == Restrict(local.unihashes, Mapped(local) \ gone)
             e == [unihashes |-> m, outhashes |-> rows, mark |-> mark]
  <2>3. db' = [db EXCEPT !["local"] = e]
    BY <1>1 DEF Drop
  <2>4. DOMAIN m = Mapped(local) \ gone /\ \A g \in DOMAIN m : m[g] = local.unihashes[g]
    BY DEF Restrict
  <2> HIDE DEF m
  <2>5. e.unihashes = m /\ e.outhashes = rows
    OBVIOUS
  <2> HIDE DEF e
  <2>6. /\ Mapped(e) \subseteq Mapped(local) /\ e.outhashes \subseteq local.outhashes
        /\ \A g \in Mapped(e) : UnihashOf(e, g) = UnihashOf(local, g)
    BY <1>1, <2>4, <2>5 DEF Mapped, UnihashOf
  <2>7. SoundDb(e, reported', declared', now')
    BY <2>1, <2>6, ReasonLater, SoundLess
  <2> QED  BY <2>1, <2>2, <2>3, <2>7, LocalReason, ReasonLater DEF ReasonInv
<1>2. ASSUME NEW w \in Where, Remove(w) PROVE ReasonInv'
  BY <1>1, <1>2 DEF Remove
<1>3. ASSUME NEW m \in Mark, GcSweep(m) PROVE ReasonInv'
  BY <1>1, <1>3 DEF GcSweep
<1>4. CASE CleanUnused
  BY <1>1, <1>4 DEF CleanUnused, Joined
<1>5. ASSUME NEW m \in Mark, NEW w \in Where, GcMark(m, w) PROVE ReasonInv'
  <2>1. /\ Grown /\ UNCHANGED <<req, queue>> /\ answered' = answered
        /\ settled' = settled /\ first' = first
    BY <1>5 DEF GcMark, Grown
  <2>2. HistoryTypes'
    BY <2>1 DEF ReasonInv, HistoryTypes
  <2> DEFINE marked == MatchingUnihashes(w)
             t == WithMark(marked, m)
             e == [unihashes |-> t, outhashes |-> local.outhashes, mark |-> m]
  <2>3. db' = [db EXCEPT !["local"] = e]
    BY <1>5 DEF GcMark
  <2> HIDE DEF marked
  <2>4. \A h \in Mapped(local) : local.unihashes[h] \in Row
    BY LocalDb DEF HashInv, StateInv, Db, Table, Mapped
  <2>5. DOMAIN t = Mapped(local) /\ \A h \in Mapped(local) : t[h].unihash = local.unihashes[h].unihash
    BY <2>4 DEF Row, WithMark
  <2> HIDE DEF t
  <2>6. e.unihashes = t /\ e.outhashes = local.outhashes
    OBVIOUS
  <2> HIDE DEF e
  <2>7. /\ Mapped(e) \subseteq Mapped(local) /\ e.outhashes \subseteq local.outhashes
        /\ \A g \in Mapped(e) : UnihashOf(e, g) = UnihashOf(local, g)
    BY <2>5, <2>6 DEF Mapped, UnihashOf
  <2>8. SoundDb(e, reported', declared', now')
    BY <2>1, <2>7, ReasonLater, SoundLess
  <2> QED  BY <2>1, <2>2, <2>3, <2>8, LocalReason, ReasonLater DEF ReasonInv
<1> QED  BY <1>2, <1>3, <1>4, <1>5 DEF Admin

LEMMA BrokenReason ==
    ASSUME HashInv, ReasonInv, Grown, NEW e, Broken(e), SoundDb(e, reported', declared', now')
    PROVE  ReasonInv'
<1>1. /\ db' = [db EXCEPT !["local"] = e] /\ answered' = answered
      /\ settled' = settled /\ first' = first /\ backfill' = NotAsked
      /\ \A c \in Client : req'[c] \in {Idle, Again(req[c])}
  BY DEF Broken
<1>2. SoundAnswered' /\ HistoryTypes' /\ SoundBackfill' /\ SoundDbs'
  BY <1>1, ReasonLater, LocalReason DEF ReasonInv, HistoryTypes, SoundBackfill, NotAsked
<1>3. ASSUME NEW c \in Client PROVE SoundReq(req'[c], reported', declared', now')
  <2>1. req[c] \in Request /\ SoundReq(req[c], reported', declared', now')
    BY RequestTypes, ReasonLater DEF HashInv, StateInv
  <2> QED  BY <1>1, <2>1, AgainSound
<1> QED  BY <1>2, <1>3 DEF ReasonInv, SoundReqs

LEMMA CrashReason ==
    ASSUME HashInv, ReasonInv, Crash \/ \E c \in Client : CrashInReport(c)
    PROVE  ReasonInv'
<1>1. CASE Crash
  <2>1. Grown /\ Broken(local)
    BY <1>1 DEF Crash, Broken, Grown
  <2> QED  BY <2>1, ReasonLater, BrokenReason
<1>2. ASSUME NEW c \in Client, CrashInReport(c) PROVE ReasonInv'
  <2>1. PICK h, o : h = req[c].taskhash /\ o = req[c].outhash
    OBVIOUS
  <2>2. /\ Broken(InsertOuthash(local, h, o, now)) /\ Grown /\ <<h, o>> \in reported'
    BY <1>2, <2>1 DEF CrashInReport, Broken, Grown
  <2>3. h \in Taskhash /\ o \in Outhash /\ now \in Nat /\ Db(local) /\ now <= now'
    BY <2>1, <2>2, RequestTypes, LocalDb DEF HashInv, StateInv, ClientInv, Grown
  <2>4. SoundDb(InsertOuthash(local, h, o, now), reported', declared', now')
    BY <2>2, <2>3, ReasonLater, SoundInsertOuthash
  <2> QED  BY <2>2, <2>4, BrokenReason
<1> QED  BY <1>1, <1>2

LEMMA ReasonNext == HashInv /\ ReasonInv /\ [Next]_vars => ReasonInv'
<1> SUFFICES ASSUME HashInv, ReasonInv, [Next]_vars PROVE ReasonInv'
  OBVIOUS
<1>1. CASE UNCHANGED vars
  <2>1. Grown /\ db' = db /\ req' = req /\ UNCHANGED queue /\ UNCHANGED history
    BY <1>1 DEF vars, Grown, history
  <2> QED  BY <2>1, ReasonLater DEF ReasonInv, HistoryTypes, history
<1>2. ASSUME NEW c \in Client, Send(c) \/ Handle(c) \/ UpstreamAnswers(c) \/ Receive(c)
      PROVE  ReasonInv'
  BY <1>2, SendReason, LookUpReason, ReportReason, EquivReason, StreamReason, ToldReason,
     ReportOnReason, AnswersReason DEF Handle
<1> QED
  BY <1>1, <1>2, BackfillReason, UpstreamReason, AdminReason, CrashReason DEF Next

\* Both databases have the right shape; and every unihash they hold and every unihash a
\* builder has been given has a reason: a line of reports of equal outputs and declared
\* equivalences leads to it (get_equivalent_for_outhash, update_unified, the requests to
\* the upstream server and its client, the backfill worker).
THEOREM RowsCorrect == Spec => []RowsSound
<1>1. Init => ReasonInv
  <2> SUFFICES ASSUME Init PROVE ReasonInv
    OBVIOUS
  <2>1. SoundDbs
    BY DEF Init, SoundDbs, SoundDb, Mapped, Server, EmptyDb
  <2>2. SoundReqs
    BY LinkRefl DEF Init, SoundReqs, SoundReq, Idle
  <2> QED  BY <2>1, <2>2 DEF Init, ReasonInv, SoundBackfill, SoundAnswered, HistoryTypes, NotAsked
<1>2. HashInv /\ ReasonInv => RowsSound
  <2> SUFFICES ASSUME HashInv, ReasonInv PROVE RowsSound
    OBVIOUS
  <2>1. Justified
    BY LinkedIsLink DEF Justified, ReasonInv, SoundDbs, SoundDb, SoundAnswered
  <2>2. ASSUME NEW s \in Server
        PROVE  /\ Mapped(db[s]) \subseteq Taskhash
               /\ \A h \in Mapped(db[s]) : db[s].unihashes[h] \in [unihash : Taskhash, gc_mark : Mark \cup {NoMark}]
               /\ db[s].outhashes \subseteq [taskhash : Taskhash, outhash : Outhash, created : 0..now]
               /\ db[s].mark \in Mark \cup {NoMark}
    <3>1. Db(db[s]) /\ SoundDb(db[s], reported, declared, now) /\ now \in Nat
      BY DEF HashInv, StateInv, DbInv, ClientInv, ReasonInv, SoundDbs
    <3>2. \A r \in db[s].outhashes : r \in Out /\ r.created <= now
      BY <3>1 DEF Db, SoundDb
    <3>3. \A r \in db[s].outhashes : r \in [taskhash : Taskhash, outhash : Outhash, created : 0..now]
      BY <3>1, <3>2 DEF Out
    <3> QED  BY <3>1, <3>3 DEF Db, Table, Row, Mapped
  <2>3. \A c \in Client : /\ req[c].pc \in {"idle", "sent", "asked", "told", "done"}
                          /\ req[c].op \in Operation /\ req[c].count \in 0..3
    BY DEF HashInv, StateInv, ClientInv, Request
  <2>4. TypeOK
    BY <2>2, <2>3 DEF TypeOK, HashInv, StateInv, QueueInv, ReasonInv, HistoryTypes
  <2> QED  BY <2>1, <2>4 DEF RowsSound
<1> QED  BY <1>1, <1>2, HashInvariant, ReasonNext, PTL DEF Spec

=============================================================================
