-------------------------- MODULE PayloadDelivery --------------------------
(***************************************************************************)
(* The delivery path of the data-collector daemon, file data-collector.c:  *)
(* send_to_server, send_with_retry_or_store, store_locally,                *)
(* trim_offline_queue and drain_offline_queue, run by the one web_sender   *)
(* thread.                                                                 *)
(*                                                                         *)
(* A payload is its number.  The queue file unsent.jsonl is the sequence   *)
(* of the payloads its lines hold.  It is rewritten through a temporary    *)
(* file and rename(2), so a process killed at any point leaves the old     *)
(* file or the new one.  phase is where web_sender stands between two      *)
(* system calls whose effects others can see.                              *)
(***************************************************************************)
EXTENDS Integers, Sequences

CONSTANTS
    RETRY_COUNT,        \* attempts per payload, data-collector.h:23
    MAX_OFFLINE_LINES,  \* limit trim_offline_queue cuts to, data-collector.h:25
    MaxPayloads,        \* bound on the payloads created
    MaxCrashes,         \* bound on the times the process is killed
    Rejected,           \* payloads the server answers with neither 200 nor 201
    Faults              \* the failures the environment may inject

FaultKinds ==
    { "lowspace",   \* statvfs reports less than OFFLINE_MIN_FREE_BYTES
      "nodir",      \* the spool directory cannot be created
      "open",       \* fopen fails
      "short",      \* a write is cut short by a full disk, which nobody checks
      "lostreply" } \* the server stores the payload, the client times out

ASSUME RetryAssumption == RETRY_COUNT \in Nat \ {0}
ASSUME LinesAssumption == MAX_OFFLINE_LINES \in Nat \ {0}
ASSUME BoundsAssumption == MaxPayloads \in Nat /\ MaxCrashes \in Nat
ASSUME FaultsAssumption == Faults \subseteq FaultKinds

VARIABLES
    created,    \* payloads are numbered 1..created
    cur,        \* the payload web_sender holds (the json pointer), 0 if none
    phase,      \* where the sender stands
    attempt,    \* the loop counter of send_with_retry_or_store
    spool,      \* the lines of unsent.jsonl, oldest first
    pos,        \* lines drain_offline_queue has sent so far
    acked,      \* payloads a 200 or 201 was received for
    delivered,  \* payloads the server has received
    dropped,    \* payloads given up with a log line
    perished,   \* payloads that were in memory when the process was killed
    crashes,    \* times the process was killed
    server      \* "up": exchanges complete; "down": they fail

queueVars == <<created, cur, phase, attempt, spool, pos>>
fateVars  == <<acked, delivered, dropped, perished>>
vars      == <<created, cur, phase, attempt, spool, pos,
               acked, delivered, dropped, perished, crashes, server>>

Lines(s) == {s[i] : i \in DOMAIN s}

\* Phases in which the payload in cur is still the sender's to settle; the
\* last of them is the return of send_with_retry_or_store with 1.
Unsettled == {"sending", "space", "trimlow", "recheck", "makedir", "trim", "append"}
Holding   == Unsettled \cup {"sent"}
Phases    == Holding \cup {"idle", "stored", "opendrain", "drain", "commit"}

InHand == IF phase \in Holding THEN {cur} ELSE {}

Init ==
    /\ created = 0
    /\ cur = 0
    /\ phase = "idle"
    /\ attempt = 0
    /\ spool = <<>>
    /\ pos = 0
    /\ acked = {}
    /\ delivered = {}
    /\ dropped = {}
    /\ perished = {}
    /\ crashes = 0
    /\ server = "up"

\* What a sequence of lines written to a file becomes on disk.  No write of the
\* queue code is checked, so a full disk may cut off any number of lines.
Written(s) ==
    {s} \cup IF "short" \in Faults THEN {SubSeq(s, 1, k) : k \in 0 .. Len(s)} ELSE {}

-----------------------------------------------------------------------------
(* Mutants of the actions below, one for each property: every property is  *)
(* seen to fail when its mutant takes the action's place.                  *)

\* A drain that did not get through leaves the file as it was.
Bug_KeepWholeFile ==
    /\ phase = "commit"
    /\ spool' = IF pos < Len(spool) THEN spool ELSE <<>>
    /\ pos' = 0
    /\ phase' = "idle"
    /\ UNCHANGED <<created, cur, attempt, fateVars, crashes, server>>

\* The trim skips one line too many.
Bug_TrimOneMore(next) ==
    /\ phase' = next
    /\ \/ Len(spool) <= MAX_OFFLINE_LINES /\ UNCHANGED <<spool, dropped>>
       \/ /\ Len(spool) > MAX_OFFLINE_LINES
          /\ LET to_skip == Len(spool) - MAX_OFFLINE_LINES + 1
             IN  /\ spool' = SubSeq(spool, to_skip + 1, Len(spool))
                 /\ dropped' = dropped \cup {spool[i] : i \in 1 .. to_skip}
    /\ UNCHANGED <<created, cur, attempt, pos, acked, delivered, perished, crashes, server>>

\* The line is appended without the trim before it.
Bug_AppendUntrimmed ==
    /\ phase = "makedir"
    /\ phase' = "append"
    /\ UNCHANGED <<created, cur, attempt, spool, pos, fateVars, crashes, server>>

\* The drain sends one line per cycle.
Bug_DrainOneLine ==
    /\ phase = "drain"
    /\ pos < Len(spool)
    /\ server = "up"
    /\ acked' = acked \cup {spool[pos + 1]}
    /\ delivered' = delivered \cup {spool[pos + 1]}
    /\ pos' = pos + 1
    /\ phase' = "commit"
    /\ UNCHANGED <<created, cur, attempt, spool, dropped, perished, crashes, server>>

-----------------------------------------------------------------------------
(* send_to_server: 1 for a 200 or 201, 0 for anything else.                *)

Accepted(p) ==
    /\ server = "up"
    /\ p \notin Rejected
    /\ acked' = acked \cup {p}
    /\ delivered' = delivered \cup {p}

Failed(p) ==
    /\ \/ server = "up" /\ p \in Rejected /\ delivered' = delivered
       \/ server = "down" /\ delivered' = delivered
       \/ /\ server = "down" /\ "lostreply" \in Faults /\ p \notin Rejected
          /\ delivered' = delivered \cup {p}
    /\ acked' = acked

ServerFlips ==
    /\ server' = IF server = "up" THEN "down" ELSE "up"
    /\ UNCHANGED <<queueVars, fateVars, crashes>>

-----------------------------------------------------------------------------
(* send_with_retry_or_store.                                               *)

\* create_json_payload hands web_sender a new payload.
CreatePayload ==
    /\ phase = "idle"
    /\ created < MaxPayloads
    /\ created' = created + 1
    /\ cur' = created'
    /\ attempt' = 1
    /\ phase' = "sending"
    /\ UNCHANGED <<spool, pos, fateVars, crashes, server>>

SendAccepted ==
    /\ phase = "sending"
    /\ Accepted(cur)
    /\ phase' = "sent"
    /\ UNCHANGED <<created, cur, attempt, spool, pos, dropped, perished, crashes, server>>

SendFailed ==
    /\ phase = "sending"
    /\ Failed(cur)
    /\ IF attempt < RETRY_COUNT
       THEN attempt' = attempt + 1 /\ phase' = phase
       ELSE attempt' = attempt /\ phase' = "space"
    /\ UNCHANGED <<created, cur, spool, pos, dropped, perished, crashes, server>>

\* free(json), and the return to web_sender: a drain follows a success only.
Release ==
    /\ phase \in {"sent", "stored"}
    /\ phase' = IF phase = "sent" THEN "opendrain" ELSE "idle"
    /\ cur' = 0
    /\ attempt' = 0
    /\ UNCHANGED <<created, spool, pos, fateVars, crashes, server>>

-----------------------------------------------------------------------------
(* store_locally and trim_offline_queue.                                   *)

DropCurrent ==
    /\ dropped' = dropped \cup {cur}
    /\ phase' = "stored"

CheckSpace ==
    /\ phase = "space"
    /\ \/ phase' = "makedir"
       \/ "lowspace" \in Faults /\ phase' = "trimlow"
    /\ UNCHANGED <<created, cur, attempt, spool, pos, fateVars, crashes, server>>

RecheckSpace ==
    /\ phase = "recheck"
    /\ \/ phase' = "makedir" /\ dropped' = dropped
       \/ DropCurrent
    /\ UNCHANGED <<created, cur, attempt, spool, pos,
                   acked, delivered, perished, crashes, server>>

EnsureParentDir ==
    /\ phase = "makedir"
    /\ \/ phase' = "trim" /\ dropped' = dropped
       \/ "nodir" \in Faults /\ DropCurrent
    /\ UNCHANGED <<created, cur, attempt, spool, pos,
                   acked, delivered, perished, crashes, server>>

\* trim_offline_queue, and the phase its caller goes on with.
TrimOfflineQueue(next) ==
    /\ phase' = next
    /\ \/ /\ Len(spool) <= MAX_OFFLINE_LINES \/ "open" \in Faults
          /\ UNCHANGED <<spool, dropped>>
       \/ /\ Len(spool) > MAX_OFFLINE_LINES
          /\ LET to_skip == Len(spool) - MAX_OFFLINE_LINES
             IN  /\ spool' \in Written(SubSeq(spool, to_skip + 1, Len(spool)))
                 /\ dropped' = dropped \cup {spool[i] : i \in 1 .. to_skip}
    /\ UNCHANGED <<created, cur, attempt, pos, acked, delivered, perished, crashes, server>>

TrimLowSpace == phase = "trimlow" /\ TrimOfflineQueue("recheck")
TrimToLimit  == phase = "trim" /\ TrimOfflineQueue("append")

\* fopen(path, "a") and fprintf: the line is appended and not looked at again.
AppendLine ==
    /\ phase = "append"
    /\ \/ /\ \E w \in Written(<<cur>>) : spool' = spool \o w
          /\ phase' = "stored"
          /\ dropped' = dropped
       \/ "open" \in Faults /\ DropCurrent /\ spool' = spool
    /\ UNCHANGED <<created, cur, attempt, pos, acked, delivered, perished, crashes, server>>

-----------------------------------------------------------------------------
(* drain_offline_queue.                                                    *)

OpenDrain ==
    /\ phase = "opendrain"
    /\ \/ spool # <<>> /\ phase' = "drain"
       \/ (spool = <<>> \/ "open" \in Faults) /\ phase' = "idle"
    /\ UNCHANGED <<created, cur, attempt, spool, pos, fateVars, crashes, server>>

DrainSent ==
    /\ phase = "drain"
    /\ pos < Len(spool)
    /\ Accepted(spool[pos + 1])
    /\ pos' = pos + 1
    /\ UNCHANGED <<created, cur, phase, attempt, spool, dropped, perished, crashes, server>>

DrainStops ==
    /\ phase = "drain"
    /\ \/ pos < Len(spool) /\ Failed(spool[pos + 1])
       \/ pos = Len(spool) /\ UNCHANGED <<acked, delivered>>
    /\ phase' = "commit"
    /\ UNCHANGED <<created, cur, attempt, spool, pos, dropped, perished, crashes, server>>

\* The file is unlinked, or the copy of the lines that were not sent is
\* renamed over it.
DrainCommit ==
    /\ phase = "commit"
    /\ spool' \in Written(SubSeq(spool, pos + 1, Len(spool)))
    /\ pos' = 0
    /\ phase' = "idle"
    /\ UNCHANGED <<created, cur, attempt, fateVars, crashes, server>>

-----------------------------------------------------------------------------
\* The process is killed and started again: what it held in memory is gone.
Killed ==
    /\ crashes < MaxCrashes
    /\ crashes' = crashes + 1
    /\ perished' = perished \cup IF phase \in Unsettled THEN {cur} ELSE {}
    /\ cur' = 0
    /\ phase' = "idle"
    /\ attempt' = 0
    /\ pos' = 0
    /\ UNCHANGED <<created, spool, acked, delivered, dropped, server>>

SenderStep ==
    \/ SendAccepted \/ SendFailed \/ Release
    \/ CheckSpace \/ TrimLowSpace \/ RecheckSpace \/ EnsureParentDir
    \/ TrimToLimit \/ AppendLine
    \/ OpenDrain \/ DrainSent \/ DrainStops \/ DrainCommit

Next == CreatePayload \/ SenderStep \/ Killed \/ ServerFlips

Spec == Init /\ [][Next]_vars

\* The thread is scheduled and every transfer ends, by CURLOPT_TIMEOUT at the
\* latest; nothing is assumed of sensors, server or kills.
FairSpec == Spec /\ WF_vars(SenderStep)

-----------------------------------------------------------------------------
(* Properties                                                              *)

TypeOK ==
    /\ created \in 0 .. MaxPayloads
    /\ cur \in 0 .. created
    /\ phase \in Phases
    /\ attempt \in 0 .. RETRY_COUNT
    /\ spool \in Seq(1 .. created)
    /\ pos \in 0 .. Len(spool)
    /\ acked \subseteq 1 .. created
    /\ delivered \subseteq 1 .. created
    /\ dropped \subseteq 1 .. created
    /\ perished \subseteq 1 .. created
    /\ crashes \in 0 .. MaxCrashes
    /\ server \in {"up", "down"}

\* No payload disappears: as long as no write is cut short, each one ever
\* created is in hand, in the queue file, at the server, dropped with a log
\* line, or was in memory when the process was killed
\* (send_with_retry_or_store, store_locally, the trim and drain rewrites).
Accounted ==
    "short" \notin Faults =>
        1 .. created \subseteq InHand \cup Lines(spool) \cup delivered \cup dropped \cup perished

\* The queue file keeps distinct payloads in the order of their creation, all
\* older than the one in hand, through any mix of appends, trims, drains and
\* kills, so that "oldest first" is what the trim and the drain really do.
SpoolOrdered ==
    /\ \A i, j \in DOMAIN spool : i < j => spool[i] < spool[j]
    /\ \A i \in DOMAIN spool : \A p \in InHand : spool[i] < p

\* The queue file never grows past one line above the limit: the trim comes
\* before the append, and every append is preceded by one.
SpoolBounded ==
    "open" \notin Faults => Len(spool) <= MAX_OFFLINE_LINES + 1

\* Every variable keeps its type, the retries their limit (RETRY_COUNT) and the queue
\* file its own (MAX_OFFLINE_LINES).
SpoolSound == TypeOK /\ SpoolBounded

\* A payload the server has acknowledged is not sent again unless the process
\* was killed between the acknowledgement and the rewrite of the queue file:
\* the line the drain sends next, and the payload the retry loop sends, are
\* not acknowledged.
ResentOnlyAfterKill ==
    crashes = 0 =>
        /\ phase = "sending" => cur \notin acked
        /\ \A i \in DOMAIN spool : spool[i] \in acked => phase \in {"drain", "commit"} /\ i <= pos

\* "Connection is up -- drain any previously stored offline payloads"
\* (web_sender): once a live payload has got through, the whole backlog
\* follows, unless the connection is lost or the process killed.
BacklogFollows == (phase = "sent" /\ crashes = MaxCrashes) ~> (spool = <<>> \/ server = "down")

\* The queue code keeps its promise.
Promise == INSTANCE StoreAndForward WITH
    Limit <- MAX_OFFLINE_LINES,
    made <- created, held <- InHand, queue <- spool,
    arrived <- delivered, gone <- dropped \cup perished

Delivers == Promise!AbstractSpec

=============================================================================
