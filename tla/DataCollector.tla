--------------------------- MODULE DataCollector ---------------------------
(***************************************************************************)
(* The data-collector daemon, data-collector.c: the sensors' datagram      *)
(* socket, the listener thread, the shared store, the web_sender thread    *)
(* (derived metrics, payloads, the delivery path of PayloadDelivery), the  *)
(* SIGHUP reload and the SIGTERM shutdown.                                 *)
(*                                                                         *)
(* A reading is its number in the order sensors send them; NameOf gives    *)
(* the sensor.  A store entry keeps the reading or readings its value was  *)
(* computed from, so that a payload tells which readings reach the server. *)
(***************************************************************************)
EXTENDS Integers, Sequences

CONSTANTS
    RETRY_COUNT, MAX_OFFLINE_LINES, MaxPayloads, MaxCrashes, Rejected, Faults,
    MAX_SENSORS,      \* capacity of the store, data-collector.h:20
    NameOf,           \* the sensor of each reading the sensors will send
    Nonfinite,        \* readings whose value is an infinity or a NaN
    Implausible,      \* humidity readings outside (0, 100]
    QueueLimit,       \* datagrams the kernel holds for the socket
    MaxUrls,          \* bound on the changes of server.conf
    CollectorFaults   \* "malloc": no memory for a payload; "bind": bind fails

ASSUME SensorsAssumption == MAX_SENSORS \in Nat \ {0}
ASSUME ReadingsAssumption == NameOf \in Seq({"htu21d_temp", "htu21d_rh", "other"})
ASSUME CollectorAssumption ==
    /\ QueueLimit \in Nat \ {0}
    /\ MaxUrls \in Nat
    /\ CollectorFaults \subseteq {"malloc", "bind"}

VARIABLES
    created, cur, phase, attempt, spool, pos,
    acked, delivered, dropped, perished, crashes, server,
    proc,        \* "up" or "down"
    running,     \* the flag the signal handler clears
    reload,      \* the flag reload_config
    conf,        \* the URL in server.conf, a number
    updater,     \* where the script that changes server.conf stands
    url,         \* the server_url buffer of the sender, 0 for the built-in default
    nsent,       \* readings the sensors have sent
    sockq,       \* datagrams in the socket
    lpc,         \* where the listener stands
    buf,         \* the reading in the listener's buffer
    store,       \* data_store.data[0..count-1]
    accepted,    \* readings put into the store
    wpc,         \* where web_sender stands
    cachedTemp, cachedRh,  \* the readings cached by compute_derived_metrics, 0 if none
    content      \* the entries of each payload created

deliveryVars == <<created, cur, phase, attempt, spool, pos,
                  acked, delivered, dropped, perished, crashes, server>>
configVars   == <<conf, updater>>
sensorVars   == <<nsent, sockq>>
listenerVars == <<lpc, buf, accepted>>
senderVars   == <<wpc, url, cachedTemp, cachedRh, content>>
vars == <<deliveryVars, proc, running, reload, configVars, sensorVars,
          listenerVars, store, senderVars>>

Delivery == INSTANCE PayloadDelivery

ASSUME DeliveryAssumption ==
    /\ RETRY_COUNT \in Nat \ {0} /\ MAX_OFFLINE_LINES \in Nat \ {0}
    /\ MaxPayloads \in Nat /\ MaxCrashes \in Nat
    /\ Faults \subseteq Delivery!FaultKinds

Readings == DOMAIN NameOf
DerivedNames == {"dew_point", "heat_index", "abs_humidity"}
Names == {"htu21d_temp", "htu21d_rh", "other"} \cup DerivedNames

\* data_store.data[i]: a value is known by the readings it was computed from.
Entry(name, readings) == [name |-> name, from |-> readings]

Init ==
    /\ Delivery!Init
    /\ proc = "down"
    /\ running = FALSE
    /\ reload = FALSE
    /\ conf = 1
    /\ updater = "idle"
    /\ url = 0
    /\ nsent = 0
    /\ sockq = <<>>
    /\ lpc = "done"
    /\ buf = 0
    /\ store = <<>>
    /\ accepted = {}
    /\ wpc = "done"
    /\ cachedTemp = 0
    /\ cachedRh = 0
    /\ content = <<>>

-----------------------------------------------------------------------------
(* Mutants of the definitions below, one for each property: every property *)
(* is seen to fail when its mutant takes the definition's place.           *)

\* web_sender looks at reload_config only when the store is full.
Bug_ReloadWhenStoreFull ==
    /\ wpc = "check"
    /\ wpc' = IF ~running THEN "done"
              ELSE IF reload /\ Len(store) = MAX_SENSORS THEN "load" ELSE "sleep"
    /\ UNCHANGED <<deliveryVars, proc, running, reload, configVars, sensorVars,
                   listenerVars, store, url, cachedTemp, cachedRh, content>>

\* The count is reset before the payload has been dealt with.
Bug_ResetEarly ==
    /\ wpc = "build"
    /\ Delivery!CreatePayload
    /\ content' = Append(content, store)
    /\ store' = <<>>
    /\ wpc' = "deliver"
    /\ UNCHANGED <<proc, running, reload, configVars, sensorVars,
                   listenerVars, url, cachedTemp, cachedRh>>

\* The count is reset only when the payload got through.
Bug_ResetOnSuccess ==
    /\ wpc = "deliver"
    /\ Delivery!SenderStep
    /\ store' = IF phase = "sent" THEN <<>> ELSE store
    /\ wpc' = IF phase' = "idle" THEN "check" ELSE wpc
    /\ UNCHANGED <<proc, running, reload, configVars, sensorVars,
                   listenerVars, url, cachedTemp, cachedRh, content>>

-----------------------------------------------------------------------------
(* The process.                                                            *)

\* What fgets makes of a URL buffer: an empty file leaves it as it is.
ReadConf(old) == IF updater = "truncated" THEN old ELSE conf

\* main, up to the creation of the two threads.
Launch ==
    /\ proc = "down"
    /\ proc' = "up"
    /\ running' = TRUE
    /\ reload' = FALSE
    /\ url' = ReadConf(0)
    /\ lpc' = "start"
    /\ wpc' = "check"
    /\ buf' = 0
    /\ store' = <<>>
    /\ cachedTemp' = 0
    /\ cachedRh' = 0
    /\ UNCHANGED <<deliveryVars, conf, sensorVars, accepted, content>>

Start == Launch /\ updater' = updater

\* SIGTERM or SIGINT.
Terminate ==
    /\ proc = "up"
    /\ running
    /\ running' = FALSE
    /\ UNCHANGED <<deliveryVars, proc, reload, configVars, sensorVars,
                   listenerVars, store, senderVars>>

\* Both threads are joined; cleanup closes and removes the socket.
Exit ==
    /\ proc = "up"
    /\ lpc = "done"
    /\ wpc = "done"
    /\ proc' = "down"
    /\ sockq' = <<>>
    /\ UNCHANGED <<deliveryVars, running, reload, configVars, nsent,
                   listenerVars, store, senderVars>>

\* SIGKILL.  The files keep what was written: a power cut, which may take data
\* that was never synced, is not modelled.
Kill ==
    /\ proc = "up"
    /\ Delivery!Killed
    /\ proc' = "down"
    /\ running' = FALSE
    /\ sockq' = <<>>
    /\ lpc' = "done"
    /\ wpc' = "done"
    /\ store' = <<>>
    /\ UNCHANGED <<reload, configVars, nsent, buf, accepted,
                   url, cachedTemp, cachedRh, content>>

-----------------------------------------------------------------------------
(* Changing the server: url-updater (and update-server-url.sh).            *)

\* The shell opens server.conf for writing, which empties it ...
TruncateConf ==
    /\ updater = "idle"
    /\ conf < MaxUrls
    /\ updater' = "truncated"
    /\ UNCHANGED <<deliveryVars, proc, running, reload, conf, sensorVars,
                   listenerVars, store, senderVars>>

\* ... and echo writes the new URL.
WriteConf ==
    /\ updater = "truncated"
    /\ conf' = conf + 1
    /\ updater' = "written"
    /\ UNCHANGED <<deliveryVars, proc, running, reload, sensorVars,
                   listenerVars, store, senderVars>>

\* reload_or_start: signal the daemon, or start it when it does not run.
SendHup ==
    /\ updater = "written"
    /\ proc = "up"
    /\ updater' = "idle"
    /\ reload' = TRUE
    /\ UNCHANGED <<deliveryVars, proc, running, conf, sensorVars,
                   listenerVars, store, senderVars>>

StartByUpdater == updater = "written" /\ Launch /\ updater' = "idle"

-----------------------------------------------------------------------------
(* The sensors and the listener thread.                                    *)

\* A sensor daemon sends its next reading; sendto blocks on a full socket and
\* fails when nobody has bound it.  A reading nobody will receive, before the
\* listener has bound the socket or after it has ended, is not counted.
SensorSends ==
    /\ nsent < Len(NameOf)
    /\ lpc \in {"check", "recv", "handle"}
    /\ Len(sockq) < QueueLimit
    /\ nsent' = nsent + 1
    /\ sockq' = Append(sockq, nsent')
    /\ UNCHANGED <<deliveryVars, proc, running, reload, configVars,
                   listenerVars, store, senderVars>>

\* socket, unlink, bind, chmod.  The thread returns when bind fails.
Bind ==
    /\ lpc = "start"
    /\ \/ lpc' = "check"
       \/ "bind" \in CollectorFaults /\ lpc' = "done"
    /\ UNCHANGED <<deliveryVars, proc, running, reload, configVars, sensorVars,
                   buf, accepted, store, senderVars>>

ListenerCheck ==
    /\ lpc = "check"
    /\ lpc' = IF running THEN "recv" ELSE "done"
    /\ UNCHANGED <<deliveryVars, proc, running, reload, configVars, sensorVars,
                   buf, accepted, store, senderVars>>

\* recvfrom returns with a datagram only: signal() installs the handlers with
\* SA_RESTART, so a signal does not end the call.
Receive ==
    /\ lpc = "recv"
    /\ sockq # <<>>
    /\ buf' = Head(sockq)
    /\ sockq' = Tail(sockq)
    /\ lpc' = "handle"
    /\ UNCHANGED <<deliveryVars, proc, running, reload, configVars, nsent,
                   accepted, store, senderVars>>

\* One turn of the loop body, under the lock of the store.
HandleDatagram ==
    /\ lpc = "handle"
    /\ IF buf \notin Nonfinite /\ Len(store) < MAX_SENSORS
       THEN /\ store' = Append(store, Entry(NameOf[buf], <<buf>>))
            /\ accepted' = accepted \cup {buf}
       ELSE UNCHANGED <<store, accepted>>
    /\ buf' = 0
    /\ lpc' = "check"
    /\ UNCHANGED <<deliveryVars, proc, running, reload, configVars, sensorVars,
                   senderVars>>

ListenerStep == Bind \/ ListenerCheck \/ Receive \/ HandleDatagram

-----------------------------------------------------------------------------
(* The web_sender thread.                                                  *)

SenderCheck ==
    /\ wpc = "check"
    /\ wpc' = IF ~running THEN "done" ELSE IF reload THEN "load" ELSE "sleep"
    /\ UNCHANGED <<deliveryVars, proc, running, reload, configVars, sensorVars,
                   listenerVars, store, url, cachedTemp, cachedRh, content>>

\* load_config(server_url) ...
LoadConfig ==
    /\ wpc = "load"
    /\ url' = ReadConf(url)
    /\ wpc' = "clearflag"
    /\ UNCHANGED <<deliveryVars, proc, running, reload, configVars, sensorVars,
                   listenerVars, store, cachedTemp, cachedRh, content>>

\* ... and only then reload_config = 0.
ClearReload ==
    /\ wpc = "clearflag"
    /\ reload' = FALSE
    /\ wpc' = "sleep"
    /\ UNCHANGED <<deliveryVars, proc, running, configVars, sensorVars,
                   listenerVars, store, url, cachedTemp, cachedRh, content>>

\* sleep(SEND_INTERVAL) is over; the count is read without the lock.
Wake ==
    /\ wpc = "sleep"
    /\ wpc' = IF store # <<>> THEN "derive" ELSE "check"
    /\ UNCHANGED <<deliveryVars, proc, running, reload, configVars, sensorVars,
                   listenerVars, store, url, cachedTemp, cachedRh, content>>

\* find_sensor: the reading of the first entry of that name, or 0.
FindSensor(name) ==
    LET hits == {i \in DOMAIN store : store[i].name = name}
    IN  IF hits = {} THEN 0
        ELSE store[CHOOSE i \in hits : \A j \in hits : i <= j].from[1]

\* The three calls of add_derived, each of which checks the capacity.
AddDerived(s, readings) ==
    LET all == s \o <<Entry("dew_point", readings), Entry("heat_index", readings),
                      Entry("abs_humidity", readings)>>
    IN  IF Len(all) > MAX_SENSORS THEN SubSeq(all, 1, MAX_SENSORS) ELSE all

ComputeDerivedMetrics ==
    /\ wpc = "derive"
    /\ cachedTemp' = IF FindSensor("htu21d_temp") # 0
                     THEN FindSensor("htu21d_temp") ELSE cachedTemp
    /\ cachedRh' = IF FindSensor("htu21d_rh") # 0
                   THEN FindSensor("htu21d_rh") ELSE cachedRh
    /\ store' = IF cachedTemp' = 0 \/ cachedRh' \in Implausible \cup {0} THEN store
                ELSE AddDerived(store, <<cachedTemp', cachedRh'>>)
    /\ wpc' = "build"
    /\ UNCHANGED <<deliveryVars, proc, running, reload, configVars, sensorVars,
                   listenerVars, url, content>>

\* create_json_payload copies the store, under its lock.
BuildPayload ==
    /\ wpc = "build"
    /\ Delivery!CreatePayload
    /\ content' = Append(content, store)
    /\ wpc' = "deliver"
    /\ UNCHANGED <<proc, running, reload, configVars, sensorVars,
                   listenerVars, store, url, cachedTemp, cachedRh>>

\* malloc fails: the cycle ends and the store stays as it is.
NoMemory ==
    /\ wpc = "build"
    /\ "malloc" \in CollectorFaults
    /\ wpc' = "check"
    /\ UNCHANGED <<deliveryVars, proc, running, reload, configVars, sensorVars,
                   listenerVars, store, url, cachedTemp, cachedRh, content>>

\* send_with_retry_or_store and drain_offline_queue, one step of theirs.
DeliverStep ==
    /\ wpc = "deliver"
    /\ \/ Delivery!SenderStep /\ phase \notin {"sent", "stored"} /\ store' = store
       \/ Delivery!Release /\ store' = <<>>  \* free(json); data_store.count = 0
    /\ wpc' = IF phase' = "idle" THEN "check" ELSE wpc
    /\ UNCHANGED <<proc, running, reload, configVars, sensorVars,
                   listenerVars, url, cachedTemp, cachedRh, content>>

WebSenderStep ==
    \/ SenderCheck \/ LoadConfig \/ ClearReload \/ Wake \/ ComputeDerivedMetrics
    \/ BuildPayload \/ NoMemory \/ DeliverStep

-----------------------------------------------------------------------------
ServerChanges ==
    /\ Delivery!ServerFlips
    /\ UNCHANGED <<proc, running, reload, configVars, sensorVars,
                   listenerVars, store, senderVars>>

Next ==
    \/ Start \/ Terminate \/ Exit \/ Kill
    \/ TruncateConf \/ WriteConf \/ SendHup \/ StartByUpdater
    \/ SensorSends \/ ListenerStep \/ WebSenderStep \/ ServerChanges

Spec == Init /\ [][Next]_vars

\* Threads are scheduled, sleeps end, transfers end at CURLOPT_TIMEOUT, main
\* goes on once the threads are joined and a script goes on to its next
\* command.  Sensors, signals, kills and the server owe nothing.
FairSpec ==
    /\ Spec
    /\ WF_vars(ListenerStep)
    /\ WF_vars(WebSenderStep)
    /\ WF_vars(Exit)
    /\ WF_vars(WriteConf)
    /\ WF_vars(SendHup)

-----------------------------------------------------------------------------
(* Properties                                                              *)

Stored == {store[i] : i \in DOMAIN store}
Carried(p) == {content[p][i] : i \in DOMAIN content[p]}
ReadingsIn(entries) == UNION {{e.from[i] : i \in DOMAIN e.from} :
                                  e \in {f \in entries : f.name \notin DerivedNames}}

TypeOK ==
    /\ Delivery!TypeOK
    /\ proc \in {"up", "down"}
    /\ running \in BOOLEAN
    /\ reload \in BOOLEAN
    /\ updater \in {"idle", "truncated", "written"}
    /\ conf \in Nat
    /\ url \in 0 .. conf
    /\ nsent \in 0 .. Len(NameOf)
    /\ sockq \in Seq(1 .. nsent)
    /\ lpc \in {"start", "check", "recv", "handle", "done"}
    /\ buf \in 0 .. nsent
    /\ \A e \in Stored : e.name \in Names /\ e.from \in Seq(1 .. nsent)
    /\ accepted \subseteq 1 .. nsent
    /\ wpc \in {"check", "load", "clearflag", "sleep", "derive", "build", "deliver", "done"}
    /\ cachedTemp \in 0 .. nsent
    /\ cachedRh \in 0 .. nsent
    /\ Len(content) = created

\* data_store.data is never written past its MAX_SENSORS elements: the listener
\* and add_derived, in two threads, both append to it.
StoreBounded == Len(store) <= MAX_SENSORS

\* While a payload is being delivered the store still begins with exactly what
\* the payload holds, so that the reset of the count afterwards erases the
\* payload's entries and, behind them, only what arrived in the meantime.
PayloadHeadsStore ==
    wpc = "deliver" /\ phase \in Delivery!Holding \cup {"stored"} =>
        /\ Len(content[cur]) <= Len(store)
        /\ content[cur] = SubSeq(store, 1, Len(content[cur]))

\* data_store is sound, whatever the two threads do to it in between:
\* web_sender finds at its head what it has made a payload of.
StoreSound == TypeOK /\ StoreBounded /\ PayloadHeadsStore

\* No reading is sent in two payloads, and none waits in the store that an
\* earlier payload already carried.
CarriedOnce ==
    /\ \A p, q \in 1 .. created :
          p # q => ReadingsIn(Carried(p)) \cap ReadingsIn(Carried(q)) = {}
    /\ \A p \in 1 .. created :
          p # cur => ReadingsIn(Carried(p)) \cap ReadingsIn(Stored) = {}

\* The derived metrics of a payload (compute_derived_metrics): at most one of
\* each, unless a cycle without memory for its payload left its own in the
\* store; all three unless the store was full; computed from a temperature and
\* a plausible, finite humidity that the listener accepted.
DerivedSound ==
    \A p \in 1 .. created :
        LET Places(name) == {i \in DOMAIN content[p] : content[p][i].name = name}
        IN  /\ "malloc" \notin CollectorFaults =>
                  \A name \in DerivedNames : \A i, j \in Places(name) : i = j
            /\ Places("dew_point") # {} /\ Places("abs_humidity") = {} =>
                  Len(content[p]) = MAX_SENSORS
            /\ \A name \in DerivedNames : \A i \in Places(name) :
                  LET temp == content[p][i].from[1]
                      rh   == content[p][i].from[2]
                  IN  /\ {temp, rh} \subseteq accepted \ Nonfinite
                      /\ NameOf[temp] = "htu21d_temp" /\ NameOf[rh] = "htu21d_rh"
                      /\ rh \notin Implausible

\* What is sent is sent once and is what it says it is: readings by name, and
\* metrics derived from readings (create_json_payload, compute_derived_metrics).
PayloadsSound == CarriedOnce /\ DerivedSound

\* The model has no more payloads to make of what it has not sent.
OutOfPayloads(r) ==
    wpc = "build" /\ created = MaxPayloads /\ \A p \in 1 .. created : r \notin ReadingsIn(Carried(p))

\* No reading stays in the store of a daemon that runs, however long the server
\* is away: attempts, the queue file and the drain may fail, but each cycle of
\* web_sender comes to its reset of the count, unless there is no memory for a
\* payload again and again.  Until then a full store refuses what the sensors
\* send (socket_listener).
StoreFrees ==
    <>[][NoMemory => created = MaxPayloads]_vars =>
        \A r \in Readings :
            r \in ReadingsIn(Stored) ~>
                (r \notin ReadingsIn(Stored) \/ ~running \/ OutOfPayloads(r))

\* After SIGTERM the sender thread ends, in the middle of an outage too: the
\* retry loop and the drain are bounded and the loop tests running.
SenderStops == proc = "up" /\ ~running ~> wpc = "done"

\* After SIGTERM one datagram is enough for the listener to leave recvfrom, and
\* then the process ends.
StopsGivenDatagram ==
    proc = "up" /\ ~running /\ lpc = "recv" /\ sockq # <<>> ~> proc = "down"

\* SIGTERM is heeded by both threads, as far as the code lets them (web_sender
\* by itself, socket_listener once recvfrom returns).
TermHeeded == SenderStops /\ StopsGivenDatagram

\* A SIGHUP that does not fall between load_config and the reset of the flag
\* makes a daemon that keeps running use the URL in server.conf, unless a
\* script is changing the file again (signal_handler, load_config, web_sender).
HupHeeded ==
    reload /\ wpc # "clearflag" /\ updater = "idle" ~>
        (url = conf \/ ~running \/ updater # "idle")

\* What signal_handler sets is acted upon by the threads.
SignalsHeeded == TermHeeded /\ HupHeeded

=============================================================================
