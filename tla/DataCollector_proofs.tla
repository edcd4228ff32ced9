------------------------ MODULE DataCollector_proofs ------------------------
(***************************************************************************)
(* Proofs about DataCollector, for any readings, any size of the store,    *)
(* any bounds and any faults: the daemon delivers as PayloadDelivery says, *)
(* so that what is proved of that module holds of it; the payload being    *)
(* delivered stands at the head of the store until the count is reset; no  *)
(* reading goes into two payloads; and the derived metrics are made of     *)
(* readings the listener accepted.                                         *)
(***************************************************************************)
EXTENDS DataCollector, TLAPS, FiniteSetTheorems

\* What is proved of the delivery path by itself.
DeliveryProofs == INSTANCE PayloadDelivery_proofs

-----------------------------------------------------------------------------
(* The entries of the store and of payloads.                               *)

Temps(A) == {r \in A : NameOf[r] = "htu21d_temp"}
Humidities(A) == {r \in A : NameOf[r] = "htu21d_rh"}

\* The entries that can be made of the readings A.
Plain(A) == {Entry(NameOf[r], <<r>>) : r \in A}
Metrics(A) == {Entry(n, <<t, h>>) : n \in DerivedNames, t \in Temps(A), h \in Humidities(A) \ Implausible}
Entries(A) == Plain(A) \cup Metrics(A)
AnyEntry == Entries(Readings)

\* Reading r is among the entries s.
Has(s, r) == \E i \in DOMAIN s : s[i] = Entry(NameOf[r], <<r>>)

IsMetric(e) == e.name \in DerivedNames
NoMetric(s) == \A i \in DOMAIN s : ~IsMetric(s[i])
MetricsOnce(s) == \A i, j \in DOMAIN s : IsMetric(s[i]) /\ s[i].name = s[j].name => i = j
MetricsWhole(s) ==
    (\E i \in DOMAIN s : s[i].name = "dew_point") /\ (\A i \in DOMAIN s : s[i].name # "abs_humidity") =>
        Len(s) = MAX_SENSORS

\* The entries c stand at the head of the entries s.
Heads(c, s) == Len(c) <= Len(s) /\ \A i \in 1 .. Len(c) : c[i] = s[i]

-----------------------------------------------------------------------------
(* The invariant.                                                          *)

\* What the daemon's own state depends on of the delivery path.
DeliveryFacts ==
    /\ created \in Nat /\ cur \in 0 .. created
    /\ phase \in Delivery!Phases
    /\ phase \in Delivery!Holding \cup {"stored"} <=> cur # 0
    /\ cur # 0 => cur = created

WorkInv ==
    /\ proc \in {"up", "down"} /\ running \in BOOLEAN /\ reload \in BOOLEAN
    /\ updater \in {"idle", "truncated", "written"} /\ conf \in Nat /\ url \in 0 .. conf
    /\ lpc \in {"start", "check", "recv", "handle", "done"}
    /\ wpc \in {"check", "load", "clearflag", "sleep", "derive", "build", "deliver", "done"}
    /\ proc = "down" => wpc = "done"
    /\ wpc = "deliver" <=> phase # "idle"

\* A reading on its way to the store is not one the listener has accepted.
FreshInv ==
    /\ nsent \in 0 .. Len(NameOf) /\ accepted \subseteq (1 .. nsent) \ Nonfinite
    /\ sockq \in Seq(1 .. nsent)
    /\ \A i \in DOMAIN sockq : sockq[i] \notin accepted
    /\ \A i, j \in DOMAIN sockq : sockq[i] = sockq[j] => i = j
    /\ buf \in 0 .. nsent
    /\ lpc = "handle" => buf # 0 /\ buf \notin accepted /\ \A i \in DOMAIN sockq : sockq[i] # buf

StoreInv ==
    /\ store \in Seq(AnyEntry) /\ Len(store) <= MAX_SENSORS
    /\ \A i \in DOMAIN store : store[i] \in Entries(accepted)
    /\ cachedTemp \in {0} \cup Temps(accepted) /\ cachedRh \in {0} \cup Humidities(accepted)
    /\ MetricsWhole(store)
    /\ "malloc" \notin CollectorFaults =>
          /\ MetricsOnce(store)
          /\ wpc \notin {"build", "deliver"} => NoMetric(store)

PayloadInv ==
    /\ content \in Seq(Seq(AnyEntry)) /\ Len(content) = created
    /\ \A p \in 1 .. created : \A i \in DOMAIN content[p] : content[p][i] \in Entries(accepted)
    /\ wpc = "deliver" /\ cur # 0 => Heads(content[cur], store)
    /\ \A p \in 1 .. created :
          /\ MetricsWhole(content[p])
          /\ "malloc" \notin CollectorFaults => MetricsOnce(content[p])
    /\ \A p, q \in 1 .. created : \A r \in accepted : Has(content[p], r) /\ Has(content[q], r) => p = q
    /\ \A p \in 1 .. created : \A r \in accepted : Has(content[p], r) /\ Has(store, r) => p = cur
    /\ wpc = "deliver" /\ cur = 0 /\ "malloc" \notin CollectorFaults => NoMetric(store)

CollectorInv == WorkInv /\ FreshInv /\ StoreInv /\ PayloadInv

-----------------------------------------------------------------------------
(* Lemmas about entries.                                                   *)

LEMMA NamesOfReadings ==
    /\ Readings = 1 .. Len(NameOf)
    /\ \A r \in Readings : NameOf[r] \in {"htu21d_temp", "htu21d_rh", "other"} /\ NameOf[r] \notin DerivedNames
BY ReadingsAssumption DEF Readings, DerivedNames

LEMMA PlainIs ==
    ASSUME NEW r \in Readings
    PROVE  /\ Entry(NameOf[r], <<r>>).name = NameOf[r] /\ Entry(NameOf[r], <<r>>).from = <<r>>
           /\ ~IsMetric(Entry(NameOf[r], <<r>>))
BY NamesOfReadings DEF Entry, IsMetric

LEMMA PlainSame ==
    ASSUME NEW q \in Readings, NEW r \in Readings, Entry(NameOf[q], <<q>>) = Entry(NameOf[r], <<r>>)
    PROVE  q = r
<1>1. <<q>> = <<r>>
  BY PlainIs
<1> QED  BY <1>1

LEMMA EntryKinds ==
    ASSUME NEW A, A \subseteq Readings, NEW e \in Entries(A)
    PROVE  /\ ~IsMetric(e) => \E r \in A : e = Entry(NameOf[r], <<r>>)
           /\ IsMetric(e) => /\ \E t \in Temps(A), h \in Humidities(A) \ Implausible : e.from = <<t, h>>
                             /\ e.name \in DerivedNames
<1>1. CASE e \in Plain(A)
  <2>1. PICK r \in A : e = Entry(NameOf[r], <<r>>)
    BY <1>1 DEF Plain
  <2> QED  BY <2>1, PlainIs
<1>2. CASE e \in Metrics(A)
  <2>1. PICK n \in DerivedNames, t \in Temps(A), h \in Humidities(A) \ Implausible : e = Entry(n, <<t, h>>)
    BY <1>2 DEF Metrics
  <2>2. e.name = n /\ e.from = <<t, h>>
    BY <2>1 DEF Entry
  <2> QED  BY <2>1, <2>2 DEF IsMetric
<1> QED  BY <1>1, <1>2 DEF Entries

LEMMA EntriesGrow ==
    ASSUME NEW A, NEW B, A \subseteq B
    PROVE  Entries(A) \subseteq Entries(B)
BY DEF Entries, Plain, Metrics, Temps, Humidities

\* Entries made of readings A hold none but these.
LEMMA HasOnly ==
    ASSUME NEW A, A \subseteq Readings, NEW s, \A i \in DOMAIN s : s[i] \in Entries(A),
           NEW r \in Readings, Has(s, r)
    PROVE  r \in A
<1>1. PICK i \in DOMAIN s : s[i] = Entry(NameOf[r], <<r>>)
  BY DEF Has
<1>2. ~IsMetric(s[i])
  BY <1>1, PlainIs
<1>3. PICK q \in A : s[i] = Entry(NameOf[q], <<q>>)
  BY <1>2, EntryKinds
<1> QED  BY <1>1, <1>3, PlainSame

LEMMA ReadingsInIs ==
    ASSUME NEW A, A \subseteq Readings, NEW s, \A i \in DOMAIN s : s[i] \in Entries(A)
    PROVE  \A r : r \in ReadingsIn({s[i] : i \in DOMAIN s}) <=> r \in A /\ Has(s, r)
<1> TAKE r
<1>1. ASSUME r \in ReadingsIn({s[i] : i \in DOMAIN s}) PROVE r \in A /\ Has(s, r)
  <2>1. PICK i \in DOMAIN s : s[i].name \notin DerivedNames /\ \E j \in DOMAIN s[i].from : r = s[i].from[j]
    BY <1>1 DEF ReadingsIn
  <2>2. PICK q \in A : s[i] = Entry(NameOf[q], <<q>>)
    BY <2>1, EntryKinds DEF IsMetric
  <2>3. s[i].from = <<q>>
    BY <2>2, PlainIs
  <2>4. r = q
    BY <2>1, <2>3
  <2> QED  BY <2>2, <2>4 DEF Has
<1>2. ASSUME r \in A, Has(s, r) PROVE r \in ReadingsIn({s[i] : i \in DOMAIN s})
  <2>1. PICK i \in DOMAIN s : s[i] = Entry(NameOf[r], <<r>>)
    BY <1>2 DEF Has
  <2>2. s[i].name \notin DerivedNames /\ s[i].from = <<r>>
    BY <1>2, <2>1, PlainIs DEF IsMetric
  <2>3. 1 \in DOMAIN s[i].from /\ s[i].from[1] = r
    BY <2>2
  <2> QED  BY <2>2, <2>3 DEF ReadingsIn
<1> QED  BY <1>1, <1>2

\* What the listener does to the store.
WithReading(s, r) == Append(s, Entry(NameOf[r], <<r>>))

LEMMA AppendPlain ==
    ASSUME NEW A, A \subseteq Readings, NEW s \in Seq(AnyEntry), Len(s) < MAX_SENSORS,
           \A i \in DOMAIN s : s[i] \in Entries(A), NEW r \in Readings, MetricsWhole(s),
           NEW u, u = WithReading(s, r)
    PROVE  /\ u \in Seq(AnyEntry) /\ Len(u) = Len(s) + 1 /\ \A i \in 1 .. Len(s) : u[i] = s[i]
           /\ \A i \in DOMAIN u : u[i] \in Entries(A \cup {r})
           /\ \A q \in Readings : Has(u, q) <=> Has(s, q) \/ q = r
           /\ MetricsWhole(u)
           /\ MetricsOnce(s) => MetricsOnce(u)
           /\ NoMetric(s) => NoMetric(u)
<1> DEFINE e == Entry(NameOf[r], <<r>>)
<1>1. e \in Entries({r}) /\ ~IsMetric(e) /\ e.name \in {"htu21d_temp", "htu21d_rh", "other"}
  BY PlainIs, NamesOfReadings DEF Entries, Plain
<1>2. e \in AnyEntry /\ e \in Entries(A \cup {r}) /\ Entries(A) \subseteq Entries(A \cup {r})
  <2>1. Entries({r}) \subseteq Entries(A \cup {r}) /\ Entries(A) \subseteq Entries(A \cup {r})
    BY EntriesGrow
  <2>2. Entries({r}) \subseteq AnyEntry
    BY EntriesGrow DEF AnyEntry
  <2> QED  BY <1>1, <2>1, <2>2
<1>3. \A q \in Readings : e = Entry(NameOf[q], <<q>>) => q = r
  BY PlainSame
<1> HIDE DEF e
<1>4. u = Append(s, e)
  BY DEF e, WithReading
<1>5. /\ u \in Seq(AnyEntry) /\ Len(u) = Len(s) + 1 /\ \A i \in 1 .. Len(s) : u[i] = s[i]
      /\ u[Len(s) + 1] = e /\ DOMAIN u = 1 .. Len(s) + 1 /\ DOMAIN s = 1 .. Len(s) /\ Len(s) \in Nat
  BY <1>2, <1>4
<1>6. \A i \in DOMAIN u : (i \in DOMAIN s /\ u[i] = s[i]) \/ (i = Len(s) + 1 /\ u[i] = e)
  BY <1>5
<1>7. \A i \in DOMAIN u : u[i] \in Entries(A \cup {r})
  BY <1>2, <1>6
<1>8. \A q \in Readings : Has(u, q) <=> Has(s, q) \/ q = r
  <2>1. ASSUME NEW q \in Readings, Has(u, q) PROVE Has(s, q) \/ q = r
    BY <1>3, <1>6, <2>1 DEF Has
  <2>2. ASSUME NEW q \in Readings, Has(s, q) \/ q = r PROVE Has(u, q)
    <3>1. Len(s) + 1 \in DOMAIN u /\ \A i \in DOMAIN s : i \in DOMAIN u /\ u[i] = s[i]
      BY <1>5
    <3> QED  BY <1>5, <2>2, <3>1 DEF Has, e
  <2> QED  BY <2>1, <2>2
<1>9. MetricsWhole(u)
  <2> SUFFICES ASSUME NEW i \in DOMAIN u, u[i].name = "dew_point",
                      \A j \in DOMAIN u : u[j].name # "abs_humidity"
               PROVE  FALSE
    BY DEF MetricsWhole
  <2>1. i \in DOMAIN s /\ s[i].name = "dew_point"
    BY <1>1, <1>6
  <2>2. \A j \in DOMAIN s : s[j].name # "abs_humidity"
    BY <1>5
  <2>3. Len(s) = MAX_SENSORS
    BY <2>1, <2>2 DEF MetricsWhole
  <2> QED  BY <2>3
<1>10. MetricsOnce(s) => MetricsOnce(u)
  BY <1>1, <1>6 DEF MetricsOnce, IsMetric
<1>11. NoMetric(s) => NoMetric(u)
  BY <1>1, <1>6 DEF NoMetric
<1> QED  BY <1>5, <1>7, <1>8, <1>9, <1>10, <1>11

\* A sequence that is cut to M elements.
LEMMA CutAt ==
    ASSUME NEW S, NEW s \in Seq(S), NEW M \in Nat \ {0},
           NEW u, Len(s) > M => u = SubSeq(s, 1, M), Len(s) <= M => u = s
    PROVE  /\ u \in Seq(S) /\ Len(u) <= M /\ Len(u) <= Len(s)
           /\ Len(u) # M => Len(u) = Len(s)
           /\ Len(s) >= M => Len(u) = M
           /\ \A i \in 1 .. Len(u) : u[i] = s[i]
<1>1. CASE Len(s) > M
  <2>1. u = SubSeq(s, 1, M)
    BY <1>1
  <2>2. u \in Seq(S) /\ Len(u) = M /\ \A i \in 1 .. M : u[i] = s[i]
    BY <1>1, <2>1
  <2> QED  BY <1>1, <2>2
<1>2. CASE Len(s) <= M
  BY <1>2
<1> QED  BY <1>1, <1>2

\* A sequence that another is appended to and that is cut then.
Capped(s, t) == IF Len(s \o t) > MAX_SENSORS THEN SubSeq(s \o t, 1, MAX_SENSORS) ELSE s \o t

\* What it is: all of s, and of t what fits.
IsCapped(u, s, t) ==
    /\ u \in Seq(AnyEntry) /\ Len(u) <= MAX_SENSORS
    /\ \A i \in DOMAIN s : i \in DOMAIN u /\ u[i] = s[i]
    /\ \A i \in DOMAIN u : \/ i \in DOMAIN s /\ u[i] = s[i]
                           \/ i \notin DOMAIN s /\ \E j \in 1 .. Len(t) : i = Len(s) + j /\ u[i] = t[j]
    /\ \/ Len(u) = MAX_SENSORS
       \/ \A j \in 1 .. Len(t) : \E i \in DOMAIN u : u[i] = t[j]

LEMMA MoreCut ==
    ASSUME NEW s \in Seq(AnyEntry), NEW t \in Seq(AnyEntry), Len(s) <= MAX_SENSORS,
           NEW u, u = Capped(s, t)
    PROVE  IsCapped(u, s, t)
<1>max. MAX_SENSORS \in Nat \ {0}
  BY SensorsAssumption
<1>more. PICK more : more = s \o t
  OBVIOUS
<1>cut. u = IF Len(more) > MAX_SENSORS THEN SubSeq(more, 1, MAX_SENSORS) ELSE more
  BY <1>more DEF Capped
<1>1. more \in Seq(AnyEntry) /\ Len(more) = Len(s) + Len(t)
  BY <1>more
<1>2. \A i \in 1 .. Len(s) : more[i] = s[i]
  BY <1>more
<1>3. \A j \in 1 .. Len(t) : more[Len(s) + j] = t[j]
  BY <1>more
<1>4. Len(s) \in Nat /\ DOMAIN s = 1 .. Len(s) /\ Len(t) \in Nat
  BY <1>more
<1>5. /\ u \in Seq(AnyEntry) /\ Len(u) <= MAX_SENSORS /\ Len(u) <= Len(more)
      /\ Len(u) # MAX_SENSORS => Len(u) = Len(more)
      /\ Len(more) >= MAX_SENSORS => Len(u) = MAX_SENSORS
      /\ \A i \in 1 .. Len(u) : u[i] = more[i]
  <2>1. ~(Len(more) > MAX_SENSORS /\ Len(more) <= MAX_SENSORS)
    BY <1>max, <1>1
  <2>2. /\ Len(more) > MAX_SENSORS => u = SubSeq(more, 1, MAX_SENSORS)
        /\ Len(more) <= MAX_SENSORS => u = more
    BY <1>cut, <2>1
  <2> QED  BY <1>max, <1>1, <2>2, CutAt
<1>6. DOMAIN u = 1 .. Len(u) /\ Len(u) \in Nat
  BY <1>5
<1>7. PICK n \in Nat, l \in Nat : n = Len(s) /\ l = Len(t)
  BY <1>4
<1>8. PICK k \in Nat : k = Len(u)
  BY <1>6
<1>9. k <= MAX_SENSORS /\ k <= n + l /\ n <= k /\ (k # MAX_SENSORS => k = n + l)
  BY <1>max, <1>1, <1>5, <1>7, <1>8
<1>10. \A i \in DOMAIN s : i \in DOMAIN u /\ u[i] = s[i]
  <2> TAKE i \in DOMAIN s
  <2>1. i \in 1 .. k /\ i \in 1 .. Len(s)
    BY <1>4, <1>7, <1>9
  <2>2. i \in 1 .. Len(u)
    BY <1>8, <2>1
  <2> QED  BY <1>2, <1>5, <1>6, <2>1, <2>2
<1>11. ASSUME NEW i \in DOMAIN u
       PROVE  \/ i \in DOMAIN s /\ u[i] = s[i]
              \/ i \notin DOMAIN s /\ \E j \in 1 .. Len(t) : i = Len(s) + j /\ u[i] = t[j]
  <2>1. i \in 1 .. k /\ u[i] = more[i]
    BY <1>5, <1>6, <1>8
  <2>2. CASE i \in 1 .. n
    BY <1>2, <1>4, <1>7, <2>1, <2>2
  <2>3. CASE i \notin 1 .. n
    <3>1. PICK j \in 1 .. l : i = n + j
      <4>1. i - n \in 1 .. l /\ i = n + (i - n)
        BY <1>9, <2>1, <2>3
      <4> QED  BY <4>1
    <3> QED  BY <1>3, <1>4, <1>7, <2>1, <2>3, <3>1
  <2> QED  BY <2>2, <2>3
<1>12. ASSUME k # MAX_SENSORS, NEW j \in 1 .. Len(t) PROVE \E i \in DOMAIN u : u[i] = t[j]
  <2>1. n + j \in 1 .. k
    BY <1>7, <1>9, <1>12
  <2> QED  BY <1>3, <1>5, <1>6, <1>7, <1>8, <2>1
<1> QED  BY <1>5, <1>8, <1>10, <1>11, <1>12 DEF IsCapped

\* What compute_derived_metrics does to it.
LEMMA AddDerivedDoes ==
    ASSUME NEW A, A \subseteq Readings, NEW s \in Seq(AnyEntry), Len(s) <= MAX_SENSORS,
           \A i \in DOMAIN s : s[i] \in Entries(A), MetricsWhole(s),
           NEW t \in Temps(A), NEW h \in Humidities(A) \ Implausible,
           NEW u, u = AddDerived(s, <<t, h>>)
    PROVE  /\ u \in Seq(AnyEntry) /\ Len(u) <= MAX_SENSORS
           /\ \A i \in DOMAIN u : u[i] \in Entries(A)
           /\ \A q \in Readings : Has(u, q) <=> Has(s, q)
           /\ MetricsWhole(u)
           /\ NoMetric(s) => MetricsOnce(u)
<1>metrics. PICK d1, d2, d3 : /\ d1 = Entry("dew_point", <<t, h>>) /\ d2 = Entry("heat_index", <<t, h>>)
                        /\ d3 = Entry("abs_humidity", <<t, h>>)
  OBVIOUS
<1>1. /\ d1 \in Entries(A) /\ d2 \in Entries(A) /\ d3 \in Entries(A)
      /\ d1.name = "dew_point" /\ d2.name = "heat_index" /\ d3.name = "abs_humidity"
  <2>1. ASSUME NEW n \in DerivedNames PROVE Entry(n, <<t, h>>) \in Metrics(A)
    BY DEF Metrics
  <2>2. d1 \in Metrics(A) /\ d2 \in Metrics(A) /\ d3 \in Metrics(A)
    BY <1>metrics, <2>1 DEF DerivedNames
  <2> QED  BY <1>metrics, <2>2 DEF Entries, Entry
<1>2. Entries(A) \subseteq AnyEntry
  BY EntriesGrow DEF AnyEntry
<1>all. PICK all : all = <<d1, d2, d3>>
  OBVIOUS
<1>3. /\ all \in Seq(AnyEntry) /\ Len(all) = 3
      /\ all[1] = d1 /\ all[2] = d2 /\ all[3] = d3
  BY <1>all, <1>1, <1>2
<1>capped. u = Capped(s, all)
  BY <1>all, <1>metrics DEF AddDerived, Capped
<1>cut. IsCapped(u, s, all)
  <2>1. all \in Seq(AnyEntry)
    BY <1>3
  <2> QED  BY <1>capped, <2>1, MoreCut
<1>4. u \in Seq(AnyEntry) /\ Len(u) <= MAX_SENSORS /\ \A i \in DOMAIN s : i \in DOMAIN u /\ u[i] = s[i]
  BY <1>cut DEF IsCapped
<1>5. /\ \A i \in DOMAIN u : \/ i \in DOMAIN s /\ u[i] = s[i]
                             \/ i \notin DOMAIN s /\ i = Len(s) + 1 /\ u[i] = d1
                             \/ i \notin DOMAIN s /\ i = Len(s) + 2 /\ u[i] = d2
                             \/ i \notin DOMAIN s /\ i = Len(s) + 3 /\ u[i] = d3
      /\ Len(u) = MAX_SENSORS \/ \E i \in DOMAIN u : u[i] = d3
  <2>1. ASSUME NEW i \in DOMAIN u, i \notin DOMAIN s
        PROVE  \/ i = Len(s) + 1 /\ u[i] = d1
               \/ i = Len(s) + 2 /\ u[i] = d2
               \/ i = Len(s) + 3 /\ u[i] = d3
    <3>1. PICK j \in 1 .. Len(all) : i = Len(s) + j /\ u[i] = all[j]
      BY <1>cut, <2>1 DEF IsCapped
    <3>2. j = 1 \/ j = 2 \/ j = 3
      <4>1. Len(all) = 3
        BY <1>3
      <4> QED  BY <4>1
    <3> QED  BY <1>3, <3>1, <3>2
  <2>2. ASSUME Len(u) # MAX_SENSORS PROVE \E i \in DOMAIN u : u[i] = d3
    <3>1. 3 \in 1 .. Len(all) /\ all[3] = d3
      BY <1>3
    <3> QED  BY <1>cut, <2>2, <3>1 DEF IsCapped
  <2>3. \A i \in DOMAIN u : i \in DOMAIN s => u[i] = s[i]
    BY <1>4
  <2> QED  BY <2>1, <2>2, <2>3
<1>6. \A i \in DOMAIN u : (i \in DOMAIN s /\ u[i] = s[i]) \/ u[i] \in {d1, d2, d3}
  BY <1>5
<1>8. IsMetric(d1) /\ IsMetric(d2) /\ IsMetric(d3)
  BY <1>1 DEF IsMetric, DerivedNames
<1>9. \A q \in Readings : Has(u, q) <=> Has(s, q)
  <2>1. ASSUME NEW q \in Readings, Has(u, q) PROVE Has(s, q)
    <3>1. ~IsMetric(Entry(NameOf[q], <<q>>))
      BY PlainIs
    <3>2. PICK i \in DOMAIN u : u[i] = Entry(NameOf[q], <<q>>)
      BY <2>1 DEF Has
    <3> QED  BY <1>6, <1>8, <3>1, <3>2 DEF Has
  <2>2. ASSUME NEW q \in Readings, Has(s, q) PROVE Has(u, q)
    BY <1>4, <2>2 DEF Has
  <2> QED  BY <2>1, <2>2
<1>10. MetricsWhole(u)
  BY <1>1, <1>5 DEF MetricsWhole
<1>11. ASSUME NoMetric(s) PROVE MetricsOnce(u)
  <2> SUFFICES ASSUME NEW i \in DOMAIN u, NEW j \in DOMAIN u, IsMetric(u[i]), u[i].name = u[j].name
               PROVE  i = j
    BY DEF MetricsOnce
  <2>1. IsMetric(u[j])
    BY DEF IsMetric
  <2>2. i \notin DOMAIN s /\ j \notin DOMAIN s
    BY <1>5, <1>11, <2>1 DEF NoMetric
  <2>3. (i = Len(s) + 1 /\ u[i] = d1) \/ (i = Len(s) + 2 /\ u[i] = d2) \/ (i = Len(s) + 3 /\ u[i] = d3)
    BY <1>5, <2>2
  <2>4. (j = Len(s) + 1 /\ u[j] = d1) \/ (j = Len(s) + 2 /\ u[j] = d2) \/ (j = Len(s) + 3 /\ u[j] = d3)
    BY <1>5, <2>2
  <2> QED  BY <1>1, <2>3, <2>4
<1>12. \A i \in DOMAIN u : u[i] \in Entries(A)
  BY <1>1, <1>6
<1> QED  BY <1>4, <1>9, <1>10, <1>11, <1>12

-----------------------------------------------------------------------------
(* The delivery path, as the daemon runs it.                               *)

LEMMA SameStates == DeliveryProofs!FaultKinds = Delivery!FaultKinds
BY DEF DeliveryProofs!FaultKinds, Delivery!FaultKinds

LEMMA FactsOfType == DeliveryProofs!TypeInv => DeliveryFacts
BY DEF DeliveryProofs!TypeInv, DeliveryProofs!TypeOK, DeliveryProofs!Control,
       DeliveryProofs!Phases, DeliveryProofs!Holding, DeliveryProofs!Unsettled,
       Delivery!Phases, Delivery!Holding, Delivery!Unsettled, DeliveryFacts

LEMMA InitCarried == Init => Delivery!Init
BY DEF Init

\* Every step of the daemon is a step of the delivery path or leaves it alone.
LEMMA StepCarried == [Next]_vars => [Delivery!Next]_(Delivery!vars)
<1> SUFFICES ASSUME [Next]_vars PROVE Delivery!Next \/ UNCHANGED Delivery!vars
  OBVIOUS
<1>1. UNCHANGED deliveryVars => UNCHANGED Delivery!vars
  BY DEF deliveryVars, Delivery!vars
<1>2. Delivery!Next <=> Delivery!CreatePayload \/ Delivery!SenderStep \/ Delivery!Killed \/ Delivery!ServerFlips
  BY DEF Delivery!Next
<1>3. Delivery!Release => Delivery!SenderStep
  BY DEF Delivery!SenderStep
<1>4. CASE UNCHANGED vars
  BY <1>1, <1>4 DEF vars
<1>5. CASE Start \/ Terminate \/ Exit \/ TruncateConf \/ WriteConf \/ SendHup \/ StartByUpdater \/ SensorSends
  BY <1>1, <1>5 DEF Start, Launch, Terminate, Exit, TruncateConf, WriteConf, SendHup, StartByUpdater, SensorSends
<1>6. CASE ListenerStep
  BY <1>1, <1>6 DEF ListenerStep, Bind, ListenerCheck, Receive, HandleDatagram
<1>7. CASE Kill \/ ServerChanges
  BY <1>2, <1>7 DEF Kill, ServerChanges
<1>8. CASE WebSenderStep
  <2>1. CASE SenderCheck \/ LoadConfig \/ ClearReload \/ Wake \/ ComputeDerivedMetrics \/ NoMemory
    BY <1>1, <2>1 DEF SenderCheck, LoadConfig, ClearReload, Wake, ComputeDerivedMetrics, NoMemory
  <2>2. CASE BuildPayload \/ DeliverStep
    BY <1>2, <1>3, <2>2 DEF BuildPayload, DeliverStep
  <2> QED  BY <1>8, <2>1, <2>2 DEF WebSenderStep
<1> QED  BY <1>4, <1>5, <1>6, <1>7, <1>8 DEF Next

\* The proofs about PayloadDelivery are about the same delivery path.
LEMMA SameActions ==
    /\ Delivery!CreatePayload => DeliveryProofs!CreatePayload
    /\ Delivery!SendAccepted => DeliveryProofs!SendAccepted
    /\ Delivery!SendFailed => DeliveryProofs!SendFailed
    /\ Delivery!Release => DeliveryProofs!Release
    /\ Delivery!CheckSpace => DeliveryProofs!CheckSpace
    /\ Delivery!TrimLowSpace => DeliveryProofs!TrimLowSpace
    /\ Delivery!RecheckSpace => DeliveryProofs!RecheckSpace
    /\ Delivery!EnsureParentDir => DeliveryProofs!EnsureParentDir
    /\ Delivery!TrimToLimit => DeliveryProofs!TrimToLimit
    /\ Delivery!AppendLine => DeliveryProofs!AppendLine
    /\ Delivery!OpenDrain => DeliveryProofs!OpenDrain
    /\ Delivery!DrainSent => DeliveryProofs!DrainSent
    /\ Delivery!DrainStops => DeliveryProofs!DrainStops
    /\ Delivery!DrainCommit => DeliveryProofs!DrainCommit
    /\ Delivery!Killed => DeliveryProofs!Killed
    /\ Delivery!ServerFlips => DeliveryProofs!ServerFlips
<1>1. Delivery!CreatePayload => DeliveryProofs!CreatePayload
  BY DEF Delivery!CreatePayload, DeliveryProofs!CreatePayload, Delivery!queueVars, DeliveryProofs!queueVars, Delivery!fateVars, DeliveryProofs!fateVars
<1>2. Delivery!SendAccepted => DeliveryProofs!SendAccepted
  BY DEF Delivery!SendAccepted, DeliveryProofs!SendAccepted, Delivery!Accepted, DeliveryProofs!Accepted, Delivery!queueVars, DeliveryProofs!queueVars, Delivery!fateVars, DeliveryProofs!fateVars
<1>3. Delivery!SendFailed => DeliveryProofs!SendFailed
  BY DEF Delivery!SendFailed, DeliveryProofs!SendFailed, Delivery!Failed, DeliveryProofs!Failed, Delivery!queueVars, DeliveryProofs!queueVars, Delivery!fateVars, DeliveryProofs!fateVars
<1>4. Delivery!Release => DeliveryProofs!Release
  BY DEF Delivery!Release, DeliveryProofs!Release, Delivery!queueVars, DeliveryProofs!queueVars, Delivery!fateVars, DeliveryProofs!fateVars
<1>5. Delivery!CheckSpace => DeliveryProofs!CheckSpace
  BY DEF Delivery!CheckSpace, DeliveryProofs!CheckSpace, Delivery!queueVars, DeliveryProofs!queueVars, Delivery!fateVars, DeliveryProofs!fateVars
<1>6. Delivery!TrimLowSpace => DeliveryProofs!TrimLowSpace
  BY DEF Delivery!TrimLowSpace, DeliveryProofs!TrimLowSpace, Delivery!TrimOfflineQueue, DeliveryProofs!TrimOfflineQueue, Delivery!Written, DeliveryProofs!Written, Delivery!queueVars, DeliveryProofs!queueVars, Delivery!fateVars, DeliveryProofs!fateVars
<1>7. Delivery!RecheckSpace => DeliveryProofs!RecheckSpace
  BY DEF Delivery!RecheckSpace, DeliveryProofs!RecheckSpace, Delivery!DropCurrent, DeliveryProofs!DropCurrent, Delivery!queueVars, DeliveryProofs!queueVars, Delivery!fateVars, DeliveryProofs!fateVars
<1>8. Delivery!EnsureParentDir => DeliveryProofs!EnsureParentDir
  BY DEF Delivery!EnsureParentDir, DeliveryProofs!EnsureParentDir, Delivery!DropCurrent, DeliveryProofs!DropCurrent, Delivery!queueVars, DeliveryProofs!queueVars, Delivery!fateVars, DeliveryProofs!fateVars
<1>9. Delivery!TrimToLimit => DeliveryProofs!TrimToLimit
  BY DEF Delivery!TrimToLimit, DeliveryProofs!TrimToLimit, Delivery!TrimOfflineQueue, DeliveryProofs!TrimOfflineQueue, Delivery!Written, DeliveryProofs!Written, Delivery!queueVars, DeliveryProofs!queueVars, Delivery!fateVars, DeliveryProofs!fateVars
<1>10. Delivery!AppendLine => DeliveryProofs!AppendLine
  BY DEF Delivery!AppendLine, DeliveryProofs!AppendLine, Delivery!Written, DeliveryProofs!Written, Delivery!DropCurrent, DeliveryProofs!DropCurrent, Delivery!queueVars, DeliveryProofs!queueVars, Delivery!fateVars, DeliveryProofs!fateVars
<1>11. Delivery!OpenDrain => DeliveryProofs!OpenDrain
  BY DEF Delivery!OpenDrain, DeliveryProofs!OpenDrain, Delivery!queueVars, DeliveryProofs!queueVars, Delivery!fateVars, DeliveryProofs!fateVars
<1>12. Delivery!DrainSent => DeliveryProofs!DrainSent
  BY DEF Delivery!DrainSent, DeliveryProofs!DrainSent, Delivery!Accepted, DeliveryProofs!Accepted, Delivery!queueVars, DeliveryProofs!queueVars, Delivery!fateVars, DeliveryProofs!fateVars
<1>13. Delivery!DrainStops => DeliveryProofs!DrainStops
  BY DEF Delivery!DrainStops, DeliveryProofs!DrainStops, Delivery!Failed, DeliveryProofs!Failed, Delivery!queueVars, DeliveryProofs!queueVars, Delivery!fateVars, DeliveryProofs!fateVars
<1>14. Delivery!DrainCommit => DeliveryProofs!DrainCommit
  BY DEF Delivery!DrainCommit, DeliveryProofs!DrainCommit, Delivery!Written, DeliveryProofs!Written, Delivery!queueVars, DeliveryProofs!queueVars, Delivery!fateVars, DeliveryProofs!fateVars
<1>15. Delivery!Killed => DeliveryProofs!Killed
  BY DEF Delivery!Killed, DeliveryProofs!Killed, Delivery!Unsettled, DeliveryProofs!Unsettled, Delivery!queueVars, DeliveryProofs!queueVars, Delivery!fateVars, DeliveryProofs!fateVars
<1>16. Delivery!ServerFlips => DeliveryProofs!ServerFlips
  BY DEF Delivery!ServerFlips, DeliveryProofs!ServerFlips, Delivery!queueVars, DeliveryProofs!queueVars, Delivery!fateVars, DeliveryProofs!fateVars
<1> QED  BY <1>1, <1>2, <1>3, <1>4, <1>5, <1>6, <1>7, <1>8, <1>9, <1>10, <1>11, <1>12, <1>13, <1>14, <1>15, <1>16

LEMMA SameSteps == [Delivery!Next]_(Delivery!vars) => [DeliveryProofs!Next]_(DeliveryProofs!vars)
<1>1. Delivery!Next => DeliveryProofs!Next
  BY SameActions DEF Delivery!Next, Delivery!SenderStep, DeliveryProofs!Next, DeliveryProofs!SenderStep
<1> QED  BY <1>1 DEF Delivery!vars, DeliveryProofs!vars

LEMMA DeliveryTypes == Spec => []DeliveryProofs!TypeInv
<1>1. DeliveryProofs!Spec => []DeliveryProofs!TypeInv
  BY DeliveryAssumption, SameStates, DeliveryProofs!TypeCorrect
<1>2. Delivery!Init => DeliveryProofs!Init
  BY DEF Delivery!Init, DeliveryProofs!Init
<1> QED  BY <1>1, <1>2, InitCarried, StepCarried, SameSteps, PTL DEF Spec, DeliveryProofs!Spec

-----------------------------------------------------------------------------
(* The daemon's own state.                                                 *)

LEMMA CollectorInit == Init => CollectorInv
<1> SUFFICES ASSUME Init PROVE CollectorInv
  OBVIOUS
<1>1. WorkInv
  <2>1. proc \in {"up", "down"} /\ running \in BOOLEAN /\ reload \in BOOLEAN
    BY DEF Init
  <2>2. updater \in {"idle", "truncated", "written"} /\ conf \in Nat /\ url \in 0 .. conf
    BY DEF Init
  <2> QED  BY <2>1, <2>2 DEF Init, Delivery!Init, WorkInv
<1>2. FreshInv
  BY ReadingsAssumption DEF Init, FreshInv
<1>3. /\ store = <<>> /\ content = <<>> /\ created = 0 /\ wpc = "done" /\ accepted = {}
      /\ cachedTemp = 0 /\ cachedRh = 0
  BY DEF Init, Delivery!Init
<1>4. StoreInv
  BY <1>3, SensorsAssumption DEF StoreInv, MetricsWhole, MetricsOnce, NoMetric
<1>5. PayloadInv
  BY <1>3 DEF PayloadInv
<1> QED  BY <1>1, <1>2, <1>4, <1>5 DEF CollectorInv

\* What the steps of the sender leave of the payload in hand.
LEMMA SenderKeeps ==
    ASSUME DeliveryFacts, Delivery!SenderStep, phase \notin {"sent", "stored"}
    PROVE  created' = created /\ cur' = cur /\ phase # "idle"
BY DEF Delivery!SenderStep, Delivery!SendAccepted, Delivery!SendFailed, Delivery!Release,
       Delivery!CheckSpace, Delivery!TrimLowSpace, Delivery!RecheckSpace, Delivery!EnsureParentDir,
       Delivery!TrimToLimit, Delivery!TrimOfflineQueue, Delivery!DropCurrent, Delivery!AppendLine,
       Delivery!OpenDrain, Delivery!DrainSent, Delivery!DrainStops, Delivery!DrainCommit

LEMMA ReleaseFrees ==
    ASSUME Delivery!Release
    PROVE  created' = created /\ cur' = 0 /\ phase # "idle"
BY DEF Delivery!Release

LEMMA WorkStep ==
    ASSUME DeliveryFacts, DeliveryFacts', WorkInv, [Next]_vars
    PROVE  WorkInv'
<1> USE DEF WorkInv
<1>flags. running' \in BOOLEAN /\ reload' \in BOOLEAN
  BY DEF Next, Start, StartByUpdater, Launch, Terminate, Exit, Kill, TruncateConf, WriteConf, SendHup,
     SensorSends, ListenerStep, Bind, ListenerCheck, Receive, HandleDatagram, WebSenderStep,
     SenderCheck, LoadConfig, ClearReload, Wake, ComputeDerivedMetrics, BuildPayload, NoMemory, DeliverStep,
     ServerChanges, vars, configVars
<1>1. CASE UNCHANGED vars
  BY <1>flags, <1>1 DEF vars, deliveryVars, configVars, sensorVars, listenerVars, senderVars
<1>2. CASE Start \/ StartByUpdater
  <2>1. (updater' = updater \/ updater' = "idle") /\ UNCHANGED <<conf, phase>> /\ proc = "down" /\ proc' = "up"
        /\ lpc' = "start" /\ wpc' = "check"
    BY <1>2 DEF Start, StartByUpdater, Launch, deliveryVars
  <2>2. url' \in 0 .. conf'
    BY <1>2, <2>1 DEF Start, StartByUpdater, Launch, ReadConf
  <2> QED  BY <1>flags, <2>1, <2>2
<1>write. CASE WriteConf
  <2>1. conf' = conf + 1 /\ updater' = "written" /\ UNCHANGED <<proc, lpc, wpc, url, phase>>
    BY <1>write DEF WriteConf, deliveryVars, listenerVars, senderVars
  <2>2. conf' \in Nat /\ url' \in 0 .. conf'
    BY <2>1
  <2> QED  BY <1>flags, <2>1, <2>2
<1>3. CASE Terminate \/ Exit \/ TruncateConf \/ SendHup \/ SensorSends
  BY <1>flags, <1>3 DEF Terminate, Exit, TruncateConf, WriteConf, SendHup, SensorSends,
     deliveryVars, configVars, sensorVars, listenerVars, senderVars
<1>4. CASE Kill
  BY <1>flags, <1>4 DEF Kill, Delivery!Killed, configVars
<1>5. CASE ListenerStep
  BY <1>flags, <1>5 DEF ListenerStep, Bind, ListenerCheck, Receive, HandleDatagram,
     deliveryVars, configVars, sensorVars, listenerVars, senderVars
<1>6. CASE WebSenderStep
  <2>load. CASE LoadConfig
    <3>1. url' \in 0 .. conf' /\ wpc = "load" /\ wpc' = "clearflag" /\ UNCHANGED <<proc, updater, conf, lpc, phase>>
      BY <2>load DEF LoadConfig, ReadConf, deliveryVars, configVars, listenerVars
    <3> QED  BY <1>flags, <3>1
  <2>1. CASE SenderCheck \/ ClearReload \/ Wake \/ ComputeDerivedMetrics \/ NoMemory
    BY <1>flags, <2>1 DEF SenderCheck, ClearReload, Wake, ComputeDerivedMetrics, NoMemory,
       deliveryVars, configVars, sensorVars, listenerVars, senderVars
  <2>2. CASE BuildPayload
    BY <1>flags, <2>2 DEF BuildPayload, Delivery!CreatePayload, configVars, sensorVars, listenerVars
  <2>3. CASE DeliverStep
    BY <1>flags, <2>3 DEF DeliverStep, configVars, sensorVars, listenerVars
  <2> QED  BY <1>6, <2>load, <2>1, <2>2, <2>3 DEF WebSenderStep
<1>7. CASE ServerChanges
  BY <1>flags, <1>7 DEF ServerChanges, Delivery!ServerFlips, Delivery!queueVars, configVars, sensorVars, listenerVars, senderVars
<1> QED  BY <1>1, <1>2, <1>3, <1>write, <1>4, <1>5, <1>6, <1>7 DEF Next

LEMMA FreshStep ==
    ASSUME WorkInv, FreshInv, [Next]_vars
    PROVE  FreshInv'
<1> USE ReadingsAssumption DEF FreshInv
<1>0. Len(NameOf) \in Nat /\ nsent \in Nat /\ 0 \in 0 .. nsent
  BY DEF FreshInv
<1>1. CASE UNCHANGED vars
  BY <1>1 DEF vars, sensorVars, listenerVars
<1>2. CASE Start \/ StartByUpdater
  BY <1>0, <1>2 DEF Start, StartByUpdater, Launch, sensorVars
<1>3. CASE Terminate \/ TruncateConf \/ WriteConf \/ SendHup \/ ServerChanges
  BY <1>3 DEF Terminate, TruncateConf, WriteConf, SendHup, ServerChanges, sensorVars, listenerVars
<1>4. CASE Exit \/ Kill
  <2>1. sockq' = <<>> /\ lpc' # "handle" /\ UNCHANGED <<nsent, accepted, buf>>
    BY <1>4 DEF Exit, Kill, listenerVars
  <2>2. sockq' \in Seq(1 .. nsent') /\ DOMAIN sockq' = {}
    BY <2>1
  <2> QED  BY <2>1, <2>2
<1>5. CASE WebSenderStep
  BY <1>5 DEF WebSenderStep, SenderCheck, LoadConfig, ClearReload, Wake, ComputeDerivedMetrics,
     BuildPayload, NoMemory, DeliverStep, sensorVars, listenerVars
<1>6. CASE Bind \/ ListenerCheck
  BY <1>6 DEF Bind, ListenerCheck, sensorVars
<1>7. CASE SensorSends
  <2>1. /\ nsent' = nsent + 1 /\ nsent < Len(NameOf) /\ sockq' = Append(sockq, nsent')
        /\ UNCHANGED <<lpc, buf, accepted>>
    BY <1>7 DEF SensorSends, listenerVars
  <2>2. nsent' \in 0 .. Len(NameOf) /\ nsent \in Nat /\ 1 .. nsent \subseteq 1 .. nsent' /\ nsent' \in 1 .. nsent'
    BY <2>1
  <2>3. sockq \in Seq(1 .. nsent')
    BY <2>2
  <2>4. /\ sockq' \in Seq(1 .. nsent')
        /\ \A i \in DOMAIN sockq' : (i \in DOMAIN sockq /\ sockq'[i] = sockq[i]) \/ (i = Len(sockq) + 1 /\ sockq'[i] = nsent')
    BY <2>1, <2>2, <2>3
  <2>5. nsent' \notin accepted /\ (\A i \in DOMAIN sockq : sockq[i] # nsent') /\ buf # nsent'
    BY <2>1, <2>2
  <2> QED  BY <2>1, <2>2, <2>4, <2>5
<1>8. CASE Receive
  <2>1. /\ lpc' = "handle" /\ sockq # <<>> /\ buf' = Head(sockq) /\ sockq' = Tail(sockq)
        /\ UNCHANGED <<nsent, accepted>>
    BY <1>8 DEF Receive
  <2>2. /\ Head(sockq) = sockq[1] /\ 1 \in DOMAIN sockq /\ Tail(sockq) \in Seq(1 .. nsent)
        /\ \A i \in DOMAIN Tail(sockq) : i + 1 \in DOMAIN sockq /\ i + 1 # 1 /\ Tail(sockq)[i] = sockq[i + 1]
    BY <2>1
  <2>3. sockq[1] \in 1 .. nsent
    BY <2>2
  <2>4. \A i, j \in DOMAIN Tail(sockq) : Tail(sockq)[i] = Tail(sockq)[j] => i = j
    BY <2>2
  <2> QED  BY <2>1, <2>2, <2>3, <2>4
<1>9. CASE HandleDatagram
  <2>1. /\ lpc = "handle" /\ lpc' = "check" /\ buf' = 0 /\ UNCHANGED <<nsent, sockq>>
        /\ accepted' = accepted \/ (accepted' = accepted \cup {buf} /\ buf \notin Nonfinite)
    BY <1>9 DEF HandleDatagram, sensorVars
  <2>2. buf \in 1 .. nsent
    BY <2>1
  <2>3. accepted' \subseteq (1 .. nsent') \ Nonfinite
    BY <2>1, <2>2
  <2>4. \A i \in DOMAIN sockq' : sockq'[i] \notin accepted'
    BY <2>1
  <2> QED  BY <1>0, <2>1, <2>3, <2>4
<1> QED  BY <1>1, <1>2, <1>3, <1>4, <1>5, <1>6, <1>7, <1>8, <1>9 DEF Next, ListenerStep
\* Every set of natural numbers has a least element: there would be more numbers
\* below a chosen one than there are.
LEMMA LeastNumber ==
    ASSUME NEW S \in SUBSET Nat, S # {}
    PROVE  \E x \in S : \A y \in S : x <= y
<1> SUFFICES ASSUME \A x \in S : \E y \in S : y < x PROVE FALSE
  OBVIOUS
<1>1. PICK n \in S : TRUE
  OBVIOUS
<1> DEFINE below == {k \in 0 .. n : \A j \in 0 .. k : j \notin S}
           shift == [k \in 0 .. n |-> IF k \in below THEN k + 1 ELSE k]
<1>2. 0 \in below
  BY <1>1
<1>3. \A k \in below : k + 1 \in below
  <2> TAKE k \in below
  <2>1. k # n /\ k + 1 \in 0 .. n
    BY <1>1
  <2>2. k + 1 \notin S
    BY <2>1
  <2> QED  BY <2>1, <2>2
<1>4. shift \in [0 .. n -> 1 .. n]
  BY <1>2, <1>3
<1>5. /\ Cardinality(1 .. n) < Cardinality(0 .. n)
      /\ IsFiniteSet(0 .. n) /\ IsFiniteSet(1 .. n)
  BY FS_Interval
<1>6. \E j, k \in 0 .. n : j # k /\ shift[j] = shift[k]
  <2> HIDE DEF shift, below
  <2> QED  BY <1>4, <1>5, FS_PigeonHole
<1> QED  BY <1>3, <1>6


\* find_sensor returns nothing or a reading of the sensor it is asked for.
LEMMA FindSensorFinds ==
    ASSUME NEW A, A \subseteq Readings, store \in Seq(AnyEntry),
           \A i \in DOMAIN store : store[i] \in Entries(A),
           NEW name \in {"htu21d_temp", "htu21d_rh"}
    PROVE  FindSensor(name) \in {0} \cup {r \in A : NameOf[r] = name}
<1> DEFINE hits == {i \in DOMAIN store : store[i].name = name}
           first == CHOOSE i \in hits : \A j \in hits : i <= j
<1>1. CASE hits = {}
  BY <1>1 DEF FindSensor
<1>2. CASE hits # {}
  <2>1. hits \in SUBSET Nat
    OBVIOUS
  <2>2. \E i \in hits : \A j \in hits : i <= j
    <3> HIDE DEF hits
    <3> QED  BY <1>2, <2>1, LeastNumber
  <2>3. first \in hits
    <3> HIDE DEF hits
    <3> QED  BY <2>2
  <2>4. FindSensor(name) = store[first].from[1]
    BY <1>2 DEF FindSensor
  <2> HIDE DEF first
  <2>5. store[first] \in Entries(A) /\ store[first].name = name
    BY <2>3
  <2>6. ~IsMetric(store[first])
    BY <2>5 DEF IsMetric, DerivedNames
  <2>7. PICK r \in A : store[first] = Entry(NameOf[r], <<r>>)
    BY <2>5, <2>6, EntryKinds
  <2>8. store[first].from = <<r>> /\ NameOf[r] = name
    BY <2>5, <2>7, PlainIs
  <2>9. FindSensor(name) = r
    BY <2>4, <2>8
  <2> QED  BY <2>8, <2>9
<1> QED  BY <1>1, <1>2

\* What compute_derived_metrics computes with, and what becomes of the store.
LEMMA DeriveDoes ==
    ASSUME FreshInv, StoreInv, ComputeDerivedMetrics
    PROVE  /\ cachedTemp' \in {0} \cup Temps(accepted) /\ cachedRh' \in {0} \cup Humidities(accepted)
           /\ store' \in Seq(AnyEntry) /\ Len(store') <= MAX_SENSORS
           /\ \A i \in DOMAIN store' : store'[i] \in Entries(accepted)
           /\ \A q \in Readings : Has(store', q) <=> Has(store, q)
           /\ MetricsWhole(store')
           /\ NoMetric(store) => MetricsOnce(store')
<1>1. accepted \subseteq Readings
  BY NamesOfReadings, ReadingsAssumption DEF FreshInv
<1>2. /\ store \in Seq(AnyEntry) /\ Len(store) <= MAX_SENSORS /\ MetricsWhole(store)
      /\ \A i \in DOMAIN store : store[i] \in Entries(accepted)
  BY DEF StoreInv
<1>3. /\ FindSensor("htu21d_temp") \in {0} \cup Temps(accepted)
      /\ FindSensor("htu21d_rh") \in {0} \cup Humidities(accepted)
  BY <1>1, <1>2, FindSensorFinds DEF Temps, Humidities
<1>4. cachedTemp' \in {0} \cup Temps(accepted) /\ cachedRh' \in {0} \cup Humidities(accepted)
  BY <1>3 DEF ComputeDerivedMetrics, StoreInv
<1>5. CASE cachedTemp' = 0 \/ cachedRh' \in Implausible \cup {0}
  <2>1. store' = store
    BY <1>5 DEF ComputeDerivedMetrics
  <2>2. NoMetric(store) => MetricsOnce(store)
    BY DEF NoMetric, MetricsOnce
  <2> QED  BY <1>2, <1>4, <2>1, <2>2
<1>6. CASE cachedTemp' # 0 /\ cachedRh' \notin Implausible \cup {0}
  <2>1. cachedTemp' \in Temps(accepted) /\ cachedRh' \in Humidities(accepted) \ Implausible
    BY <1>4, <1>6
  <2>2. store' = AddDerived(store, <<cachedTemp', cachedRh'>>)
    BY <1>6 DEF ComputeDerivedMetrics
  <2> QED  BY <1>1, <1>2, <1>4, <2>1, <2>2, AddDerivedDoes
<1> QED  BY <1>5, <1>6

\* What a datagram makes of the store.
LEMMA DatagramDoes ==
    ASSUME FreshInv, StoreInv, HandleDatagram, store' # store \/ accepted' # accepted
    PROVE  /\ buf \in Readings /\ buf \notin accepted /\ accepted' = accepted \cup {buf}
           /\ accepted \subseteq Readings
           /\ store' \in Seq(AnyEntry) /\ Len(store') = Len(store) + 1 /\ Len(store') <= MAX_SENSORS
           /\ \A i \in 1 .. Len(store) : store'[i] = store[i]
           /\ \A i \in DOMAIN store' : store'[i] \in Entries(accepted')
           /\ \A q \in Readings : Has(store', q) <=> Has(store, q) \/ q = buf
           /\ MetricsWhole(store')
           /\ MetricsOnce(store) => MetricsOnce(store')
           /\ NoMetric(store) => NoMetric(store')
<1>1. /\ Len(store) < MAX_SENSORS /\ store' = WithReading(store, buf)
      /\ accepted' = accepted \cup {buf} /\ lpc = "handle"
  BY DEF HandleDatagram, WithReading
<1>2. accepted \subseteq Readings /\ buf \in Readings /\ buf \notin accepted
  BY <1>1, NamesOfReadings, ReadingsAssumption DEF FreshInv
<1>3. /\ store \in Seq(AnyEntry) /\ Len(store) <= MAX_SENSORS /\ MetricsWhole(store)
      /\ \A i \in DOMAIN store : store[i] \in Entries(accepted)
      /\ MAX_SENSORS \in Nat /\ Len(store) \in Nat
  BY SensorsAssumption DEF StoreInv
<1>4. /\ store' \in Seq(AnyEntry) /\ Len(store') = Len(store) + 1
      /\ \A i \in 1 .. Len(store) : store'[i] = store[i]
      /\ \A i \in DOMAIN store' : store'[i] \in Entries(accepted \cup {buf})
      /\ \A q \in Readings : Has(store', q) <=> Has(store, q) \/ q = buf
      /\ MetricsWhole(store')
      /\ MetricsOnce(store) => MetricsOnce(store')
      /\ NoMetric(store) => NoMetric(store')
  <2>1. PICK u : u = WithReading(store, buf)
    OBVIOUS
  <2>2. PICK A : A = accepted
    OBVIOUS
  <2>3. PICK s : s = store
    OBVIOUS
  <2>4. PICK r : r = buf
    OBVIOUS
  <2>5. /\ A \subseteq Readings /\ s \in Seq(AnyEntry) /\ Len(s) < MAX_SENSORS
        /\ (\A i \in DOMAIN s : s[i] \in Entries(A)) /\ r \in Readings /\ MetricsWhole(s)
        /\ u = WithReading(s, r)
    BY <1>1, <1>2, <1>3, <2>1, <2>2, <2>3, <2>4
  <2>6. /\ u \in Seq(AnyEntry) /\ Len(u) = Len(s) + 1 /\ \A i \in 1 .. Len(s) : u[i] = s[i]
        /\ \A i \in DOMAIN u : u[i] \in Entries(A \cup {r})
        /\ \A q \in Readings : Has(u, q) <=> Has(s, q) \/ q = r
        /\ MetricsWhole(u)
        /\ MetricsOnce(s) => MetricsOnce(u)
        /\ NoMetric(s) => NoMetric(u)
    BY <2>5, AppendPlain
  <2> QED  BY <1>1, <2>1, <2>2, <2>3, <2>4, <2>6
<1>5. Len(store') <= MAX_SENSORS
  BY <1>1, <1>3, <1>4
<1> QED  BY <1>1, <1>2, <1>4, <1>5

LEMMA StoreStep ==
    ASSUME DeliveryFacts, WorkInv, FreshInv, StoreInv, PayloadInv, [Next]_vars
    PROVE  StoreInv'
<1>1. MAX_SENSORS \in Nat
  BY SensorsAssumption
\* A step that empties the store, or leaves it alone.
<1>empty. ASSUME store' = <<>>, accepted' = accepted,
                 cachedTemp' \in {0, cachedTemp}, cachedRh' \in {0, cachedRh}
          PROVE  StoreInv'
  <2>1. store' \in Seq(AnyEntry) /\ Len(store') = 0 /\ DOMAIN store' = {}
    BY <1>empty
  <2>2. MetricsWhole(store') /\ MetricsOnce(store') /\ NoMetric(store')
    BY <2>1 DEF MetricsWhole, MetricsOnce, NoMetric
  <2> QED  BY <1>1, <1>empty, <2>1, <2>2 DEF StoreInv
<1>keep. ASSUME UNCHANGED <<store, accepted, cachedTemp, cachedRh>>,
                \/ wpc \notin {"build", "deliver"} \/ wpc' \in {"build", "deliver"}
                \/ "malloc" \in CollectorFaults \/ NoMetric(store)
         PROVE  StoreInv'
  BY <1>keep DEF StoreInv
<1>2. CASE UNCHANGED vars
  BY <1>2, <1>keep DEF vars, listenerVars, senderVars
<1>3. CASE Start \/ StartByUpdater \/ Kill
  BY <1>3, <1>empty DEF Start, StartByUpdater, Launch, Kill
<1>4. CASE Terminate \/ Exit \/ TruncateConf \/ WriteConf \/ SendHup \/ SensorSends \/ ServerChanges
  BY <1>4, <1>keep DEF Terminate, Exit, TruncateConf, WriteConf, SendHup, SensorSends, ServerChanges,
     listenerVars, senderVars
<1>5. CASE Bind \/ ListenerCheck \/ Receive
  BY <1>5, <1>keep DEF Bind, ListenerCheck, Receive, senderVars
<1>6. CASE HandleDatagram
  <2>1. UNCHANGED <<wpc, cachedTemp, cachedRh>>
    BY <1>6 DEF HandleDatagram, senderVars
  <2>2. CASE store' = store /\ accepted' = accepted
    BY <1>keep, <2>1, <2>2
  <2>3. CASE store' # store \/ accepted' # accepted
    <3>1. /\ accepted' = accepted \cup {buf}
          /\ store' \in Seq(AnyEntry) /\ Len(store') <= MAX_SENSORS
          /\ \A i \in DOMAIN store' : store'[i] \in Entries(accepted')
          /\ MetricsWhole(store')
          /\ MetricsOnce(store) => MetricsOnce(store')
          /\ NoMetric(store) => NoMetric(store')
      BY <1>6, <2>3, DatagramDoes
    <3>2. Temps(accepted) \subseteq Temps(accepted') /\ Humidities(accepted) \subseteq Humidities(accepted')
      BY <3>1 DEF Temps, Humidities
    <3> QED  BY <2>1, <3>1, <3>2 DEF StoreInv
  <2> QED  BY <2>2, <2>3
<1>7. CASE SenderCheck \/ LoadConfig \/ ClearReload \/ Wake \/ NoMemory
  BY <1>7, <1>keep DEF SenderCheck, LoadConfig, ClearReload, Wake, NoMemory, listenerVars, senderVars
<1>8. CASE ComputeDerivedMetrics
  <2>1. wpc = "derive" /\ wpc' = "build" /\ accepted' = accepted
    BY <1>8 DEF ComputeDerivedMetrics, listenerVars
  <2>2. /\ cachedTemp' \in {0} \cup Temps(accepted) /\ cachedRh' \in {0} \cup Humidities(accepted)
        /\ store' \in Seq(AnyEntry) /\ Len(store') <= MAX_SENSORS
        /\ \A i \in DOMAIN store' : store'[i] \in Entries(accepted)
        /\ MetricsWhole(store')
        /\ NoMetric(store) => MetricsOnce(store')
    BY <1>8, DeriveDoes
  <2>3. "malloc" \notin CollectorFaults => NoMetric(store)
    BY <2>1 DEF StoreInv
  <2> QED  BY <2>1, <2>2, <2>3 DEF StoreInv
<1>9. CASE BuildPayload
  BY <1>9, <1>keep DEF BuildPayload, listenerVars
<1>10. CASE DeliverStep
  <2>1. wpc = "deliver" /\ wpc' = (IF phase' = "idle" THEN "check" ELSE wpc) /\ UNCHANGED <<accepted, cachedTemp, cachedRh>>
    BY <1>10 DEF DeliverStep, listenerVars
  <2>2. CASE Delivery!Release /\ store' = <<>>
    BY <1>empty, <2>1, <2>2
  <2>3. CASE Delivery!SenderStep /\ phase \notin {"sent", "stored"} /\ store' = store
    <3>1. CASE phase' # "idle"
      BY <1>keep, <2>1, <2>3, <3>1
    <3>2. CASE phase' = "idle"
      <4>1. phase \in {"opendrain", "commit"}
        BY <2>3, <3>2 DEF Delivery!SenderStep, Delivery!SendAccepted, Delivery!SendFailed, Delivery!Release,
           Delivery!CheckSpace, Delivery!TrimLowSpace, Delivery!RecheckSpace, Delivery!EnsureParentDir,
           Delivery!TrimToLimit, Delivery!TrimOfflineQueue, Delivery!DropCurrent, Delivery!AppendLine,
           Delivery!OpenDrain, Delivery!DrainSent, Delivery!DrainStops, Delivery!DrainCommit
      <4>2. cur = 0
        BY <4>1 DEF DeliveryFacts, Delivery!Holding, Delivery!Unsettled
      <4>3. "malloc" \in CollectorFaults \/ NoMetric(store)
        BY <2>1, <4>2 DEF PayloadInv
      <4> QED  BY <1>keep, <2>1, <2>3, <4>3
    <3> QED  BY <3>1, <3>2
  <2> QED  BY <1>10, <2>2, <2>3 DEF DeliverStep
<1> QED  BY <1>2, <1>3, <1>4, <1>5, <1>6, <1>7, <1>8, <1>9, <1>10 DEF Next, ListenerStep, WebSenderStep

\* Payloads are made of what the listener had accepted, so no later reading is in one.
LEMMA CarriedIsAccepted ==
    ASSUME FreshInv, PayloadInv, NEW p \in 1 .. created, NEW r \in Readings, Has(content[p], r)
    PROVE  r \in accepted
<1>1. accepted \subseteq Readings
  BY NamesOfReadings, ReadingsAssumption DEF FreshInv
<1>2. \A i \in DOMAIN content[p] : content[p][i] \in Entries(accepted)
  BY DEF PayloadInv
<1> QED  BY <1>1, <1>2, HasOnly

LEMMA PayloadStep ==
    ASSUME DeliveryFacts, DeliveryFacts', WorkInv, FreshInv, StoreInv, PayloadInv, [Next]_vars
    PROVE  PayloadInv'
<1>1. accepted \subseteq Readings
  BY NamesOfReadings, ReadingsAssumption DEF FreshInv
<1>2. created \in Nat /\ cur \in 0 .. created
  BY DEF DeliveryFacts
\* A step that makes no payload and adds nothing to the store.
<1>keep. ASSUME UNCHANGED <<content, created, accepted>>, cur' \in {0, cur},
                \A r \in accepted : Has(store', r) => Has(store, r) /\ cur' = cur,
                wpc' = "deliver" /\ cur' # 0 => wpc = "deliver" /\ store' = store,
                wpc' = "deliver" /\ cur' = 0 /\ "malloc" \notin CollectorFaults => NoMetric(store')
         PROVE  PayloadInv'
  <2>1. \A p \in 1 .. created : \A r \in accepted : Has(content[p], r) /\ Has(store', r) => p = cur'
    BY <1>keep DEF PayloadInv
  <2>2. wpc' = "deliver" /\ cur' # 0 => Heads(content[cur'], store')
    BY <1>keep DEF PayloadInv
  <2>3. /\ content \in Seq(Seq(AnyEntry)) /\ Len(content) = created
        /\ \A p \in 1 .. created : \A i \in DOMAIN content[p] : content[p][i] \in Entries(accepted)
        /\ \A p \in 1 .. created :
              /\ MetricsWhole(content[p])
              /\ "malloc" \notin CollectorFaults => MetricsOnce(content[p])
        /\ \A p, q \in 1 .. created : \A r \in accepted : Has(content[p], r) /\ Has(content[q], r) => p = q
    BY DEF PayloadInv
  <2> QED  BY <1>keep, <2>1, <2>2, <2>3 DEF PayloadInv
<1>same. ASSUME UNCHANGED <<content, created, accepted, cur, store>>,
                wpc' = "deliver" => wpc = "deliver"
         PROVE  PayloadInv'
  BY <1>keep, <1>same DEF PayloadInv
<1>empty. ASSUME UNCHANGED <<content, created, accepted>>, store' = <<>>,
                 cur' = 0 \/ (cur' = cur /\ wpc' # "deliver")
          PROVE  PayloadInv'
  <2>1. NoMetric(store') /\ \A r \in accepted : ~Has(store', r)
    BY <1>empty DEF NoMetric, Has
  <2> QED  BY <1>keep, <1>empty, <2>1
<1>3. CASE UNCHANGED vars
  BY <1>3, <1>same DEF vars, deliveryVars, listenerVars, senderVars
<1>4. CASE Start \/ StartByUpdater
  BY <1>4, <1>empty DEF Start, StartByUpdater, Launch, deliveryVars
<1>5. CASE Kill
  BY <1>5, <1>empty DEF Kill, Delivery!Killed
<1>6. CASE Terminate \/ Exit \/ TruncateConf \/ WriteConf \/ SendHup \/ SensorSends
  BY <1>6, <1>same DEF Terminate, Exit, TruncateConf, WriteConf, SendHup, SensorSends,
     deliveryVars, listenerVars, senderVars
<1>7. CASE Bind \/ ListenerCheck \/ Receive
  BY <1>7, <1>same DEF Bind, ListenerCheck, Receive, deliveryVars, senderVars
<1>8. CASE HandleDatagram
  <2>1. UNCHANGED <<content, created, cur, wpc>>
    BY <1>8 DEF HandleDatagram, deliveryVars, senderVars
  <2>2. CASE store' = store /\ accepted' = accepted
    BY <1>same, <2>1, <2>2
  <2>3. CASE store' # store \/ accepted' # accepted
    <3>1. /\ buf \in Readings /\ buf \notin accepted /\ accepted' = accepted \cup {buf}
          /\ Len(store') = Len(store) + 1
          /\ \A i \in 1 .. Len(store) : store'[i] = store[i]
          /\ \A q \in Readings : Has(store', q) <=> Has(store, q) \/ q = buf
          /\ NoMetric(store) => NoMetric(store')
      BY <1>8, <2>3, DatagramDoes
    <3>2. Entries(accepted) \subseteq Entries(accepted')
      BY <3>1, EntriesGrow
    <3>3. \A p \in 1 .. created : ~Has(content[p], buf)
      BY <3>1, CarriedIsAccepted
    <3>4. \A p \in 1 .. created : \A i \in DOMAIN content[p] : content[p][i] \in Entries(accepted')
      BY <3>2 DEF PayloadInv
    <3>5. ASSUME wpc = "deliver", cur # 0 PROVE Heads(content[cur], store')
      <4>1. Heads(content[cur], store) /\ Len(content[cur]) \in Nat /\ Len(store) \in Nat
        BY <1>2, <3>5 DEF PayloadInv, StoreInv
      <4> QED  BY <3>1, <4>1 DEF Heads
    <3>6. \A p, q \in 1 .. created : \A r \in accepted' : Has(content[p], r) /\ Has(content[q], r) => p = q
      BY <3>1, <3>3 DEF PayloadInv
    <3>7. \A p \in 1 .. created : \A r \in accepted' : Has(content[p], r) /\ Has(store', r) => p = cur
      BY <1>1, <3>1, <3>3 DEF PayloadInv
    <3>8. wpc = "deliver" /\ cur = 0 /\ "malloc" \notin CollectorFaults => NoMetric(store')
      BY <3>1 DEF PayloadInv
    <3> HIDE DEF Has, Heads
    <3> QED  BY <2>1, <3>4, <3>5, <3>6, <3>7, <3>8 DEF PayloadInv
  <2> QED  BY <2>2, <2>3
<1>9. CASE SenderCheck \/ LoadConfig \/ ClearReload \/ Wake \/ NoMemory
  BY <1>9, <1>same DEF SenderCheck, LoadConfig, ClearReload, Wake, NoMemory,
     deliveryVars, listenerVars, senderVars
<1>10. CASE ComputeDerivedMetrics
  <2>1. wpc' = "build" /\ UNCHANGED <<content, created, accepted, cur>>
    BY <1>10 DEF ComputeDerivedMetrics, deliveryVars, listenerVars
  <2>2. \A q \in Readings : Has(store', q) <=> Has(store, q)
    BY <1>10, DeriveDoes
  <2> QED  BY <1>1, <1>keep, <2>1, <2>2
<1>11. CASE BuildPayload
  <2>1. /\ created' = created + 1 /\ cur' = created' /\ wpc' = "deliver" /\ phase = "idle"
        /\ content' = Append(content, store) /\ UNCHANGED <<store, accepted>>
    BY <1>11 DEF BuildPayload, Delivery!CreatePayload, listenerVars
  <2>2. cur = 0
    BY <2>1 DEF DeliveryFacts, Delivery!Holding, Delivery!Unsettled
  <2>3. /\ content \in Seq(Seq(AnyEntry)) /\ Len(content) = created /\ store \in Seq(AnyEntry)
    BY DEF PayloadInv, StoreInv
  <2>4. /\ content' \in Seq(Seq(AnyEntry)) /\ Len(content') = created'
        /\ \A p \in 1 .. created : content'[p] = content[p]
        /\ content'[created'] = store
    BY <2>1, <2>3
  <2>5. \A p \in 1 .. created' : p \in 1 .. created \/ p = created'
    BY <1>2, <2>1
  <2>6. \A p \in 1 .. created' : \A i \in DOMAIN content'[p] : content'[p][i] \in Entries(accepted)
    BY <2>4, <2>5 DEF PayloadInv, StoreInv
  <2>7. Heads(content'[cur'], store)
    BY <2>1, <2>3, <2>4 DEF Heads
  <2>8. \A p \in 1 .. created' : /\ MetricsWhole(content'[p])
                                 /\ "malloc" \notin CollectorFaults => MetricsOnce(content'[p])
    BY <2>4, <2>5 DEF PayloadInv, StoreInv
  <2>9. \A p \in 1 .. created : \A r \in accepted : ~(Has(content'[p], r) /\ Has(store, r))
    BY <1>2, <2>2, <2>4 DEF PayloadInv
  <2>10. \A p, q \in 1 .. created' : \A r \in accepted : Has(content'[p], r) /\ Has(content'[q], r) => p = q
    BY <2>4, <2>5, <2>9 DEF PayloadInv
  <2>11. \A p \in 1 .. created' : \A r \in accepted : Has(content'[p], r) /\ Has(store, r) => p = cur'
    BY <2>1, <2>5, <2>9
  <2>12. cur' # 0
    BY <1>2, <2>1
  <2> QED  BY <2>1, <2>4, <2>6, <2>7, <2>8, <2>10, <2>11, <2>12 DEF PayloadInv
<1>12. CASE DeliverStep
  <2>1. wpc = "deliver" /\ UNCHANGED <<content, accepted>>
    BY <1>12 DEF DeliverStep, listenerVars
  <2>2. CASE Delivery!Release /\ store' = <<>>
    BY <1>empty, <2>1, <2>2, ReleaseFrees
  <2>3. CASE Delivery!SenderStep /\ phase \notin {"sent", "stored"} /\ store' = store
    BY <1>same, <2>1, <2>3, SenderKeeps
  <2> QED  BY <1>12, <2>2, <2>3 DEF DeliverStep
<1>13. CASE ServerChanges
  BY <1>13, <1>same DEF ServerChanges, Delivery!ServerFlips, Delivery!queueVars, listenerVars, senderVars
<1> QED  BY <1>3, <1>4, <1>5, <1>6, <1>7, <1>8, <1>9, <1>10, <1>11, <1>12, <1>13 DEF Next, ListenerStep, WebSenderStep

\* What the daemon's threads rely on holds throughout.
THEOREM CollectorCorrect == Spec => [](DeliveryFacts /\ CollectorInv)
<1>1. CollectorInv /\ DeliveryFacts /\ DeliveryFacts' /\ [Next]_vars => CollectorInv'
  BY WorkStep, FreshStep, StoreStep, PayloadStep DEF CollectorInv
<1> QED  BY <1>1, CollectorInit, DeliveryTypes, FactsOfType, PTL DEF Spec

-----------------------------------------------------------------------------
(* What the runs check of it.                                              *)

LEMMA EntryIs ==
    ASSUME NEW A, A \subseteq Readings, NEW e \in Entries(A)
    PROVE  e.name \in Names /\ e.from \in Seq(A)
<1>1. CASE e \in Plain(A)
  <2>1. PICK r \in A : e = Entry(NameOf[r], <<r>>)
    BY <1>1 DEF Plain
  <2>2. e.name = NameOf[r] /\ e.from = <<r>>
    BY <2>1, PlainIs
  <2> QED  BY <2>2, NamesOfReadings DEF Names
<1>2. CASE e \in Metrics(A)
  <2>1. PICK n \in DerivedNames, t \in Temps(A), h \in Humidities(A) \ Implausible : e = Entry(n, <<t, h>>)
    BY <1>2 DEF Metrics
  <2>2. e.name = n /\ e.from = <<t, h>> /\ t \in A /\ h \in A
    BY <2>1 DEF Entry, Temps, Humidities
  <2> QED  BY <2>2 DEF Names
<1> QED  BY <1>1, <1>2 DEF Entries

LEMMA SeqWider ==
    ASSUME NEW A, NEW B, A \subseteq B, NEW s \in Seq(A)
    PROVE  s \in Seq(B)
<1>1. \A i \in 1 .. Len(s) : s[i] \in B
  OBVIOUS
<1> QED  BY <1>1

LEMMA HeadIs ==
    ASSUME NEW S, NEW s \in Seq(S), NEW c \in Seq(S), Heads(c, s)
    PROVE  Len(c) <= Len(s) /\ c = SubSeq(s, 1, Len(c))
<1>1. Len(c) <= Len(s) /\ \A i \in 1 .. Len(c) : c[i] = s[i]
  BY DEF Heads
<1>2. /\ SubSeq(s, 1, Len(c)) \in Seq(S) /\ Len(SubSeq(s, 1, Len(c))) = Len(c)
      /\ \A i \in 1 .. Len(c) : SubSeq(s, 1, Len(c))[i] = s[i]
  BY <1>1
<1> QED  BY <1>1, <1>2

LEMMA StoreSoundOf ==
    ASSUME DeliveryProofs!TypeInv, DeliveryFacts, CollectorInv
    PROVE  StoreSound
<1> USE DEF CollectorInv
<1>1. accepted \subseteq Readings
  BY NamesOfReadings, ReadingsAssumption DEF FreshInv
<1>2. Delivery!TypeOK
  BY DEF DeliveryProofs!TypeInv, DeliveryProofs!TypeOK, DeliveryProofs!Phases, DeliveryProofs!Holding,
     DeliveryProofs!Unsettled, Delivery!TypeOK, Delivery!Phases, Delivery!Holding, Delivery!Unsettled
<1>3. accepted \subseteq 1 .. nsent /\ nsent \in 0 .. Len(NameOf) /\ sockq \in Seq(1 .. nsent) /\ buf \in 0 .. nsent
  BY DEF FreshInv
<1>4. \A e \in Stored : e.name \in Names /\ e.from \in Seq(1 .. nsent)
  <2> TAKE e \in Stored
  <2>1. e \in Entries(accepted)
    BY DEF Stored, StoreInv
  <2>2. e.name \in Names /\ e.from \in Seq(accepted)
    BY <1>1, <2>1, EntryIs
  <2> QED  BY <1>3, <2>2, SeqWider
<1>5. cachedTemp \in 0 .. nsent /\ cachedRh \in 0 .. nsent
  BY <1>3, ReadingsAssumption DEF StoreInv, Temps, Humidities
<1>6. TypeOK
  BY <1>2, <1>3, <1>4, <1>5 DEF TypeOK, WorkInv, PayloadInv
<1>7. StoreBounded
  BY DEF StoreInv, StoreBounded
<1>8. PayloadHeadsStore
  <2> SUFFICES ASSUME wpc = "deliver", phase \in Delivery!Holding \cup {"stored"}
               PROVE  Len(content[cur]) <= Len(store) /\ content[cur] = SubSeq(store, 1, Len(content[cur]))
    BY DEF PayloadHeadsStore
  <2>1. cur # 0 /\ cur \in 1 .. created
    BY DEF DeliveryFacts
  <2>2. Heads(content[cur], store) /\ content[cur] \in Seq(AnyEntry) /\ store \in Seq(AnyEntry)
    BY <2>1 DEF PayloadInv, StoreInv
  <2> QED  BY <2>2, HeadIs
<1> QED  BY <1>6, <1>7, <1>8 DEF StoreSound

LEMMA CarriedOnceOf ==
    ASSUME DeliveryFacts, CollectorInv
    PROVE  CarriedOnce
<1> USE DEF CollectorInv
<1>1. accepted \subseteq Readings
  BY NamesOfReadings, ReadingsAssumption DEF FreshInv
<1>2. \A r : r \in ReadingsIn(Stored) <=> r \in accepted /\ Has(store, r)
  BY <1>1, ReadingsInIs DEF Stored, StoreInv
<1>3. \A p \in 1 .. created : \A r : r \in ReadingsIn(Carried(p)) <=> r \in accepted /\ Has(content[p], r)
  <2> TAKE p \in 1 .. created
  <2>1. \A i \in DOMAIN content[p] : content[p][i] \in Entries(accepted)
    BY DEF PayloadInv
  <2> QED  BY <1>1, <2>1, ReadingsInIs DEF Carried
<1>4. \A p, q \in 1 .. created : \A r \in accepted : Has(content[p], r) /\ Has(content[q], r) => p = q
  BY DEF PayloadInv
<1>5. \A p \in 1 .. created : \A r \in accepted : Has(content[p], r) /\ Has(store, r) => p = cur
  BY DEF PayloadInv
<1> HIDE DEF CollectorInv
<1> QED  BY <1>2, <1>3, <1>4, <1>5 DEF CarriedOnce

LEMMA DerivedSoundOf ==
    ASSUME DeliveryFacts, CollectorInv
    PROVE  DerivedSound
<1> USE DEF CollectorInv
<1> SUFFICES ASSUME NEW p \in 1 .. created
             PROVE  LET Places(name) == {i \in DOMAIN content[p] : content[p][i].name = name}
                    IN  /\ "malloc" \notin CollectorFaults =>
                              \A name \in DerivedNames : \A i, j \in Places(name) : i = j
                        /\ Places("dew_point") # {} /\ Places("abs_humidity") = {} =>
                              Len(content[p]) = MAX_SENSORS
                        /\ \A name \in DerivedNames : \A i \in Places(name) :
                              LET temp == content[p][i].from[1]
                                  rh   == content[p][i].from[2]
                              IN  /\ {temp, rh} \subseteq accepted \ Nonfinite
                                  /\ NameOf[temp] = "htu21d_temp" /\ NameOf[rh] = "htu21d_rh"
                                  /\ rh \notin Implausible
  BY DEF DerivedSound
<1> DEFINE Places(name) == {i \in DOMAIN content[p] : content[p][i].name = name}
<1>1. accepted \subseteq Readings /\ accepted \cap Nonfinite = {}
  <2>1. accepted \subseteq (1 .. nsent) \ Nonfinite
    BY DEF FreshInv
  <2>2. accepted \subseteq Readings
    BY NamesOfReadings, ReadingsAssumption DEF FreshInv
  <2> QED  BY <2>1, <2>2
<1>2. /\ \A i \in DOMAIN content[p] : content[p][i] \in Entries(accepted)
      /\ MetricsWhole(content[p])
      /\ "malloc" \notin CollectorFaults => MetricsOnce(content[p])
  BY DEF PayloadInv
<1>3. "malloc" \notin CollectorFaults => \A name \in DerivedNames : \A i, j \in Places(name) : i = j
  BY <1>2 DEF MetricsOnce, IsMetric
<1>4. Places("dew_point") # {} /\ Places("abs_humidity") = {} => Len(content[p]) = MAX_SENSORS
  BY <1>2 DEF MetricsWhole
<1>5. ASSUME NEW name \in DerivedNames, NEW i \in Places(name)
      PROVE  /\ {content[p][i].from[1], content[p][i].from[2]} \subseteq accepted \ Nonfinite
             /\ NameOf[content[p][i].from[1]] = "htu21d_temp" /\ NameOf[content[p][i].from[2]] = "htu21d_rh"
             /\ content[p][i].from[2] \notin Implausible
  <2>1. content[p][i] \in Entries(accepted) /\ IsMetric(content[p][i])
    BY <1>2 DEF IsMetric
  <2>2. PICK t \in Temps(accepted), h \in Humidities(accepted) \ Implausible : content[p][i].from = <<t, h>>
    BY <1>1, <2>1, EntryKinds
  <2>3. content[p][i].from[1] = t /\ content[p][i].from[2] = h
    BY <2>2
  <2>4. t \in accepted /\ h \in accepted /\ NameOf[t] = "htu21d_temp" /\ NameOf[h] = "htu21d_rh" /\ h \notin Implausible
    BY DEF Temps, Humidities
  <2> QED  BY <1>1, <2>3, <2>4
<1> QED  BY <1>3, <1>4, <1>5

\* The store is sound whatever its size, the sensors, the listener and the reloads do.
THEOREM StoreCorrect == Spec => []StoreSound
<1>1. DeliveryProofs!TypeInv /\ DeliveryFacts /\ CollectorInv => StoreSound
  BY StoreSoundOf
<1> QED  BY <1>1, DeliveryTypes, CollectorCorrect, PTL

\* No reading is sent twice under two payloads, and no metric is made of readings
\* that were not accepted, whatever the sensors send.
THEOREM PayloadsCorrect == Spec => []PayloadsSound
<1>1. DeliveryFacts /\ CollectorInv => PayloadsSound
  BY CarriedOnceOf, DerivedSoundOf DEF PayloadsSound
<1> QED  BY <1>1, CollectorCorrect, PTL

\* What PayloadDelivery promises, the daemon keeps, with its listener, signals,
\* reloads and restarts: no payload disappears, the queue file stays in order, and
\* nothing acknowledged is sent again unless the process was killed.
THEOREM DaemonKeepsPromises ==
    Spec => [](DeliveryProofs!Accounted /\ DeliveryProofs!SpoolOrdered /\ DeliveryProofs!ResentOnlyAfterKill)
<1>1. Spec => DeliveryProofs!Spec
  <2>1. Delivery!Init => DeliveryProofs!Init
    BY DEF Delivery!Init, DeliveryProofs!Init
  <2> QED  BY <2>1, InitCarried, StepCarried, SameSteps, PTL DEF Spec, DeliveryProofs!Spec
<1>2. DeliveryProofs!Spec => []DeliveryProofs!Accounted
  BY DeliveryAssumption, SameStates, DeliveryProofs!AccountCorrect
<1>3. DeliveryProofs!Spec => []DeliveryProofs!SpoolOrdered
  BY DeliveryAssumption, SameStates, DeliveryProofs!OrderCorrect
<1>4. DeliveryProofs!Spec => []DeliveryProofs!ResentOnlyAfterKill
  BY DeliveryAssumption, SameStates, DeliveryProofs!ResentCorrect
<1> QED  BY <1>1, <1>2, <1>3, <1>4, PTL

=============================================================================
