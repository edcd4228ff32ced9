----------------------- MODULE BitbakeServer_proofs -----------------------
(***************************************************************************)
(* Proofs about BitbakeServer, for any number of commands and servers: the *)
(* place where a process stands tells whether it has bitbake.lock, so one  *)
(* server works at a time, and nobody else touches its socket; every       *)
(* connection is in one place of one server, where it is not forgotten;    *)
(* and an attempt fails only by a server that has ended, which takes a     *)
(* command that ends servers, so whoever has attempts for them is served.  *)
(***************************************************************************)
EXTENDS BitbakeServer, TLAPS, FiniteSetTheorems

-----------------------------------------------------------------------------
(* The invariant.                                                          *)

Has(p) == hold[BitbakeLock][p] = "EX"

\* What the records of processes need to be like for at to be updated.
Shape ==
    /\ DOMAIN srv = Server /\ \A s \in Server : "at" \in DOMAIN srv[s]
    /\ DOMAIN cl = Client /\ \A c \in Client : "at" \in DOMAIN cl[c]
    /\ hold \in [{BitbakeLock} -> [Client \cup Server -> {"none", "EX"}]]

Lockless == {"none", "again"}

\* A server has the lock from the fork to release, and again in unlock.
ServersHold == \A s \in Server : srv[s].at \notin Lockless => Has(s)

\* A command has it when it got it, and until it has started a server.
ClientsHold == \A c \in Client : cl[c].at \in {"got", "unlock"} => Has(c)

OneHolds == \A p, q \in Client \cup Server : Has(p) /\ Has(q) => p = q

HoldInv == Shape /\ ServersHold /\ ClientsHold /\ OneHolds

\* Places in which a server has bound its socket and not removed it.
SocketPlaces == {"bound", "cooker", "stat", "unlink"} \cup LoopPlaces

SocketInv == \A s \in Server : srv[s].at \in SocketPlaces => sockname = s

ServerInv == HoldInv /\ SocketInv

LEMMA OneWorks ==
    ASSUME HoldInv, NEW s \in Server, NEW t \in Server,
           srv[s].at \notin Lockless, srv[t].at \notin Lockless
    PROVE  s = t
BY DEF HoldInv, ServersHold, OneHolds

LEMMA SocketLocked == SocketPlaces \cap Lockless = {}
BY DEF SocketPlaces, Lockless, LoopPlaces

-----------------------------------------------------------------------------
(* What the operations on the lock do.                                     *)

LEMMA AcquireGives ==
    ASSUME HoldInv, NEW p \in Client \cup Server, TryLock(p)
    PROVE  /\ hold' \in [{BitbakeLock} -> [Client \cup Server -> {"none", "EX"}]]
           /\ OneHolds' /\ Has(p)' /\ \A q \in Client \cup Server : Has(q) => Has(q)'
BY DEF HoldInv, Shape, OneHolds, Has, TryLock, Lock!Acquire, Lock!Free

LEMMA ReleaseTakes ==
    ASSUME HoldInv, NEW p \in Client \cup Server,
           Lock!Release(BitbakeLock, p) \/ Lock!Gone(p)
    PROVE  /\ hold' \in [{BitbakeLock} -> [Client \cup Server -> {"none", "EX"}]]
           /\ OneHolds' /\ \A q \in (Client \cup Server) \ {p} : Has(q) => Has(q)'
BY DEF HoldInv, Shape, OneHolds, Has, Lock!Release, Lock!Gone

LEMMA HandOverMoves ==
    ASSUME HoldInv, NEW p \in Client \cup Server, NEW q \in Client \cup Server,
           Lock!HandOver(BitbakeLock, p, q)
    PROVE  /\ hold' \in [{BitbakeLock} -> [Client \cup Server -> {"none", "EX"}]]
           /\ OneHolds' /\ Has(q)'
           /\ \A r \in (Client \cup Server) \ {p} : Has(r) => Has(r)'
BY DEF HoldInv, Shape, OneHolds, Has, Lock!HandOver

-----------------------------------------------------------------------------
(* Servers that do not touch the lock.                                     *)

Quiet(s) ==
    \/ Listen(s) \/ SendReady(s) \/ Select(s) \/ Accept(s) \/ RecvFds(s) \/ ControlClosed(s)
    \/ NoCommand(s) \/ RunCommand(s) \/ TerminateServer(s) \/ CommandClosed(s)
    \/ IdleTimesOut(s) \/ TimesOut(s) \/ LeaveLoop(s) \/ Stat(s) \/ CloseSocket(s)

LEMMA DisconnectedShape ==
    ASSUME NEW s \in Server, NEW after \in Disconnected(s), "at" \in DOMAIN srv[s]
    PROVE  "at" \in DOMAIN after
BY DEF Disconnected

\* A server on its way stays on its way and comes to no socket it did not have.
LEMMA QuietSteps ==
    ASSUME HoldInv, NEW s \in Server, Quiet(s)
    PROVE  /\ hold' = hold /\ cl' = cl /\ sockname' = sockname
           /\ DOMAIN srv' = Server
           /\ \A t \in Server : "at" \in DOMAIN srv'[t] /\ (t # s => srv'[t] = srv[t])
           /\ srv[s].at \notin Lockless
           /\ srv'[s].at \in SocketPlaces => srv[s].at \in SocketPlaces
<1> USE DEF HoldInv, Shape, Lockless, SocketPlaces, LoopPlaces, ServerAt
<1>1. CASE Listen(s) \/ SendReady(s) \/ Select(s) \/ NoCommand(s) \/ RunCommand(s) \/ TerminateServer(s)
  BY <1>1 DEF Listen, SendReady, Select, NoCommand, RunCommand, TerminateServer
<1>2. CASE Accept(s)
  <2> DEFINE new == IF "sock" \in srv[s].ready THEN srv[s].backlog ELSE <<>>
             free == srv[s].control = None /\ new # <<>>
             waiting == IF new = <<>> THEN srv[s].backlog ELSE <<>>
             control == IF free THEN Head(new) ELSE srv[s].control
             others == srv[s].newconnections \o IF free THEN Tail(new) ELSE new
             place == IF "control" \in srv[s].ready THEN "control" ELSE "command"
  <2>1. srv' = [srv EXCEPT ![s].backlog = waiting, ![s].control = control,
                           ![s].newconnections = others, ![s].at = place]
    BY <1>2 DEF Accept
  <2>3. place \in {"control", "command"}
    OBVIOUS
  <2> HIDE DEF waiting, control, others, place
  <2>2. srv[s].at = "accept" /\ hold' = hold /\ cl' = cl /\ sockname' = sockname
    BY <1>2 DEF Accept
  <2> QED  BY <2>1, <2>2, <2>3
<1>6. CASE RecvFds(s)
  BY <1>6 DEF RecvFds
<1>3. CASE ControlClosed(s) \/ CommandClosed(s)
  <2>1. PICK after \in Disconnected(s) : \E place \in {"command", "select"} :
          srv' = [srv EXCEPT ![s] = [after EXCEPT !.at = place]]
    BY <1>3 DEF ControlClosed, CommandClosed
  <2>2. "at" \in DOMAIN after
    BY DisconnectedShape
  <2>3. srv[s].at \in {"control", "command"} /\ hold' = hold /\ cl' = cl /\ sockname' = sockname
    BY <1>3 DEF ControlClosed, CommandClosed
  <2> QED  BY <2>1, <2>2, <2>3
<1>4. CASE IdleTimesOut(s) \/ TimesOut(s)
  BY <1>4 DEF IdleTimesOut, TimesOut
<1>5. CASE LeaveLoop(s) \/ Stat(s) \/ CloseSocket(s)
  BY <1>5 DEF LeaveLoop, Stat, CloseSocket
<1> QED  BY <1>1, <1>2, <1>3, <1>4, <1>5, <1>6 DEF Quiet

LEMMA QuietKeeps ==
    ASSUME ServerInv, NEW s \in Server, Quiet(s)
    PROVE  ServerInv'
<1>1. HoldInv'
  BY QuietSteps DEF ServerInv, HoldInv, Shape, ServersHold, ClientsHold, OneHolds, Has
<1>2. SocketInv'
  BY QuietSteps DEF ServerInv, SocketInv
<1> QED  BY <1>1, <1>2 DEF ServerInv

-----------------------------------------------------------------------------
(* Servers that bind or remove a socket, and their way out.                *)

LEMMA BindKeeps ==
    ASSUME ServerInv, NEW s \in Server, Bind(s)
    PROVE  ServerInv'
<1> USE DEF Bind, ServerAt
<1>1. HoldInv'
  BY DEF ServerInv, HoldInv, Shape, ServersHold, ClientsHold, OneHolds, Has, Lockless
<1>2. SocketInv'
  <2>1. \A t \in Server : srv[t].at \in SocketPlaces => t = s
    BY OneWorks, SocketLocked DEF ServerInv, Lockless
  <2> QED  BY <2>1 DEF ServerInv, HoldInv, Shape, SocketInv
<1> QED  BY <1>1, <1>2 DEF ServerInv

LEMMA UnlinkKeeps ==
    ASSUME ServerInv, NEW s \in Server, UnlinkSocket(s)
    PROVE  ServerInv'
<1> USE DEF UnlinkSocket, ServerAt
<1>1. HoldInv'
  BY DEF ServerInv, HoldInv, Shape, ServersHold, ClientsHold, OneHolds, Has, Lockless
<1>2. SocketInv'
  <2>1. \A t \in Server : srv[t].at \in SocketPlaces => t = s
    BY OneWorks, SocketLocked DEF ServerInv, Lockless
  <2> QED  BY <2>1 DEF ServerInv, HoldInv, Shape, SocketInv, SocketPlaces, LoopPlaces
<1> QED  BY <1>1, <1>2 DEF ServerInv

\* A server that gives the lock up or dies, and leaves the socket or not.
LEMMA LeavingKeeps ==
    ASSUME ServerInv, NEW s \in Server,
           Lock!Release(BitbakeLock, s) \/ Lock!Gone(s),
           DOMAIN srv' = Server, \A t \in Server \ {s} : srv'[t] = srv[t],
           "at" \in DOMAIN srv'[s], srv'[s].at \in Lockless,
           cl' = cl,
           sockname' = sockname \/ sockname = s \/ srv[s].at \in SocketPlaces
    PROVE  ServerInv'
<1>1. Shape' /\ OneHolds'
  BY ReleaseTakes DEF ServerInv, HoldInv, Shape
<1>2. ServersHold'
  BY ReleaseTakes DEF ServerInv, HoldInv, ServersHold
<1>3. ClientsHold'
  BY ReleaseTakes, ServerAssumption DEF ServerInv, HoldInv, ClientsHold
<1>4. SocketInv'
  <2> SUFFICES ASSUME NEW t \in Server, srv'[t].at \in SocketPlaces PROVE sockname' = t
    BY DEF SocketInv
  <2>1. t # s /\ srv'[t] = srv[t]
    BY SocketLocked
  <2>2. sockname = t
    BY <2>1 DEF ServerInv, SocketInv
  <2>3. srv[s].at \notin SocketPlaces
    BY <2>1, OneWorks, SocketLocked DEF ServerInv
  <2> QED  BY <2>1, <2>2, <2>3
<1> QED  BY <1>1, <1>2, <1>3, <1>4 DEF ServerInv, HoldInv

LEMMA WayOutKeeps ==
    ASSUME ServerInv, NEW s \in Server,
           ReleaseLock(s) \/ LockAgain(s) \/ UnlockAndExit(s) \/ NobodyAwaits(s) \/ ServerKilled(s)
    PROVE  ServerInv'
<1> USE DEF Lockless, SocketPlaces, ServerAt
<1>0. Shape
  BY DEF ServerInv, HoldInv
<1>1. CASE ReleaseLock(s)
  BY <1>0, <1>1, LeavingKeeps DEF ReleaseLock, Shape
<1>2. CASE UnlockAndExit(s)
  BY <1>0, <1>2, LeavingKeeps DEF UnlockAndExit, Gone, NoServer, Shape
<1>3. CASE NobodyAwaits(s)
  BY <1>0, <1>3, LeavingKeeps DEF NobodyAwaits, Gone, NoServer, Shape
<1>4. CASE ServerKilled(s)
  BY <1>0, <1>4, LeavingKeeps DEF ServerKilled, Gone, NoServer, Shape
<1>5. CASE LockAgain(s)
  <2>1. CASE TryLock(s) /\ ServerAt(s, "unlock")
    <3>1. HoldInv'
      BY <1>5, <2>1, AcquireGives
      DEF LockAgain, ServerInv, HoldInv, Shape, ServersHold, ClientsHold
    <3>2. SocketInv'
      BY <1>0, <1>5, <2>1 DEF LockAgain, ServerInv, SocketInv, Shape, LoopPlaces
    <3> QED  BY <3>1, <3>2 DEF ServerInv
  <2>2. CASE Gone(s) /\ hold' = hold
    <3>1. HoldInv'
      BY <1>5, <2>2 DEF LockAgain, Gone, NoServer, ServerInv, HoldInv, Shape, ServersHold,
                        ClientsHold, OneHolds, Has
    <3>2. SocketInv'
      BY <1>0, <1>5, <2>2 DEF LockAgain, Gone, NoServer, ServerInv, SocketInv, Shape, LoopPlaces
    <3> QED  BY <3>1, <3>2 DEF ServerInv
  <2> QED  BY <1>5, <2>1, <2>2 DEF LockAgain
<1> QED  BY <1>1, <1>2, <1>3, <1>4, <1>5

-----------------------------------------------------------------------------
(* The commands.                                                           *)

Holding == {"got", "unlock"}

LEMMA RetryMoves ==
    ASSUME Shape, NEW c \in Client, Retry(c)
    PROVE  /\ DOMAIN cl' = Client /\ "at" \in DOMAIN cl'[c] /\ cl'[c].at \in {"fatal", "try"}
           /\ \A d \in Client \ {c} : cl'[d] = cl[d]
BY DEF Shape, Retry

LEMMA ClientAtMoves ==
    ASSUME Shape, NEW c \in Client, NEW place, ClientAt(c, place)
    PROVE  /\ DOMAIN cl' = Client /\ "at" \in DOMAIN cl'[c] /\ cl'[c].at = place
           /\ \A d \in Client \ {c} : cl'[d] = cl[d]
BY DEF Shape, ClientAt

\* A command that moves, and gets the lock or is then where it needs none.
LEMMA MoveKeeps ==
    ASSUME ServerInv, NEW c \in Client,
           srv' = srv, sockname' = sockname,
           DOMAIN cl' = Client, "at" \in DOMAIN cl'[c], \A d \in Client \ {c} : cl'[d] = cl[d],
           \/ TryLock(c)
           \/ /\ cl'[c].at \notin Holding
              /\ hold' = hold \/ Lock!Release(BitbakeLock, c) \/ Lock!Gone(c)
    PROVE  ServerInv'
<1>1. /\ hold' \in [{BitbakeLock} -> [Client \cup Server -> {"none", "EX"}]]
      /\ OneHolds' /\ \A q \in (Client \cup Server) \ {c} : Has(q) => Has(q)'
  BY AcquireGives, ReleaseTakes DEF ServerInv, HoldInv, Shape, OneHolds, Has
<1>2. Shape'
  BY <1>1 DEF ServerInv, HoldInv, Shape
<1>3. ServersHold'
  BY <1>1, ServerAssumption DEF ServerInv, HoldInv, ServersHold
<1>4. ClientsHold'
  BY <1>1, AcquireGives DEF ServerInv, HoldInv, ClientsHold, Holding
<1>5. SocketInv'
  BY DEF ServerInv, SocketInv
<1> QED  BY <1>1, <1>2, <1>3, <1>4, <1>5 DEF ServerInv, HoldInv

LEMMA StartKeeps ==
    ASSUME ServerInv, NEW c \in Client, StartServer(c)
    PROVE  ServerInv'
<1>1. PICK s \in Server :
        /\ srv[s].at = "none"
        /\ Lock!HandOver(BitbakeLock, c, s)
        /\ srv' = [srv EXCEPT ![s] = [NoServer EXCEPT !.at = "boot"]]
        /\ cl' = [cl EXCEPT ![c].at = "wait", ![c].server = s]
  BY DEF StartServer
<1>2. /\ hold' \in [{BitbakeLock} -> [Client \cup Server -> {"none", "EX"}]]
      /\ OneHolds' /\ Has(s)' /\ \A r \in (Client \cup Server) \ {c} : Has(r) => Has(r)'
  BY <1>1, HandOverMoves DEF ServerInv
<1>3. /\ DOMAIN srv' = Server /\ "at" \in DOMAIN srv'[s] /\ srv'[s].at = "boot"
      /\ \A t \in Server \ {s} : srv'[t] = srv[t]
  BY <1>1 DEF ServerInv, HoldInv, Shape, NoServer
<1>4. /\ DOMAIN cl' = Client /\ "at" \in DOMAIN cl'[c] /\ cl'[c].at = "wait"
      /\ \A d \in Client \ {c} : cl'[d] = cl[d]
  BY <1>1 DEF ServerInv, HoldInv, Shape
<1>5. Shape'
  BY <1>2, <1>3, <1>4 DEF ServerInv, HoldInv, Shape
<1>6. ServersHold'
  BY <1>2, <1>3, ServerAssumption DEF ServerInv, HoldInv, ServersHold
<1>7. ClientsHold'
  BY <1>2, <1>4 DEF ServerInv, HoldInv, ClientsHold
<1>8. SocketInv'
  BY <1>3 DEF StartServer, ServerInv, SocketInv, SocketPlaces, LoopPlaces
<1> QED  BY <1>2, <1>5, <1>6, <1>7, <1>8 DEF ServerInv, HoldInv

LEMMA ConnectKeeps ==
    ASSUME ServerInv, NEW c \in Client, Connect(c)
    PROVE  ServerInv'
<1>1. /\ DOMAIN srv' = Server
      /\ \A t \in Server : "at" \in DOMAIN srv'[t] /\ srv'[t].at = srv[t].at
  BY DEF Connect, ServerInv, HoldInv, Shape
<1>2. /\ DOMAIN cl' = Client /\ "at" \in DOMAIN cl'[c] /\ cl'[c].at = "send"
      /\ \A d \in Client \ {c} : cl'[d] = cl[d]
  BY ClientAtMoves DEF Connect, ServerInv, HoldInv
<1>3. hold' = hold /\ sockname' = sockname
  BY DEF Connect
<1>4. HoldInv'
  BY <1>1, <1>2, <1>3 DEF ServerInv, HoldInv, Shape, ServersHold, ClientsHold, OneHolds, Has
<1>5. SocketInv'
  BY <1>1, <1>3 DEF ServerInv, SocketInv
<1> QED  BY <1>4, <1>5 DEF ServerInv

LEMMA ClientKeeps ==
    ASSUME ServerInv, NEW c \in Client, ClientStep(c) \/ ClientKilled(c)
    PROVE  ServerInv'
<1> USE DEF Holding
<1>0. Shape
  BY DEF ServerInv, HoldInv
<1>1. CASE LockBitbake(c) \/ PollGetsLock(c)
  BY <1>0, <1>1, ClientAtMoves, MoveKeeps DEF LockBitbake, PollGetsLock
<1>2. CASE NotRunning(c) \/ ClientKilled(c)
  BY <1>0, <1>2, ClientAtMoves, MoveKeeps DEF NotRunning, ClientKilled
<1>3. CASE UnlockPolled(c)
  BY <1>0, <1>3, RetryMoves, MoveKeeps DEF UnlockPolled
<1>4. CASE NotStarted(c) \/ PollGivesUp(c) \/ ConnectFails(c) \/ NotAnswered(c)
  BY <1>0, <1>4, RetryMoves, MoveKeeps DEF NotStarted, PollGivesUp, ConnectFails, NotAnswered
<1>5. CASE Started(c) \/ SendFds(c) \/ Answered(c) \/ Terminate(c)
  BY <1>0, <1>5, ClientAtMoves, MoveKeeps DEF Started, SendFds, Answered, Terminate
<1>6. CASE LookForSocket(c)
  <2>1. PICK place \in {"poll", "done", "connect"} : ClientAt(c, place)
    BY <1>6 DEF LookForSocket
  <2> QED  BY <1>0, <1>6, <2>1, ClientAtMoves, MoveKeeps DEF LookForSocket
<1> QED
  BY <1>1, <1>2, <1>3, <1>4, <1>5, <1>6, StartKeeps, ConnectKeeps DEF ClientStep

-----------------------------------------------------------------------------
(* The theorems.                                                           *)

LEMMA ServerInit == Init => ServerInv
<1> SUFFICES ASSUME Init PROVE ServerInv
  OBVIOUS
<1>1. HoldInv
  BY DEF Init, Lock!Init, NoServer, HoldInv, Shape, ServersHold, ClientsHold, OneHolds, Has,
         Lockless
<1>2. SocketInv
  BY DEF Init, NoServer, SocketInv, SocketPlaces, LoopPlaces
<1> QED  BY <1>1, <1>2 DEF ServerInv

LEMMA ServerNext == ServerInv /\ [Next]_vars => ServerInv'
<1> SUFFICES ASSUME ServerInv, [Next]_vars PROVE ServerInv'
  OBVIOUS
<1>1. CASE UNCHANGED vars
  BY <1>1 DEF vars, ServerInv, HoldInv, Shape, ServersHold, ClientsHold, OneHolds, Has, SocketInv
<1>2. ASSUME NEW c \in Client, ClientStep(c) \/ ClientKilled(c) PROVE ServerInv'
  BY <1>2, ClientKeeps
<1>3. ASSUME NEW s \in Server, ServerStep(s) \/ TimesOut(s) \/ ServerKilled(s)
      PROVE  ServerInv'
  BY <1>3, QuietKeeps, BindKeeps, UnlinkKeeps, WayOutKeeps DEF ServerStep, Quiet
<1> QED  BY <1>1, <1>2, <1>3 DEF Next

LEMMA ServerInvariant == Spec => []ServerInv
<1>1. Init => ServerInv
  BY ServerInit
<1>2. ServerInv /\ [Next]_vars => ServerInv'
  BY ServerNext
<1> QED  BY <1>1, <1>2, PTL DEF Spec

\* However many commands are started at once, and whoever is killed, one
\* server at most works in the build directory (setup_bitbake, execServer,
\* ProcessServer.main): a server works only while it has bitbake.lock.
THEOREM OneServerCorrect == Spec => []OneServer
<1>1. ServerInv => OneServer
  <2> SUFFICES ASSUME ServerInv, NEW s \in Server, NEW t \in Server,
                      srv[s].at \notin {"none", "again", "unlock"},
                      srv[t].at \notin {"none", "again", "unlock"}
               PROVE  s = t
    BY DEF OneServer
  <2> QED  BY OneWorks DEF ServerInv, Lockless
<1> QED  BY <1>1, ServerInvariant, PTL

\* The socket of a server that takes commands is its own: no server that ends,
\* is killed or starts has removed or replaced it (the bind of execServer and
\* the unlink of ProcessServer.main), for both are done with the lock.
THEOREM SocketCorrect == Spec => []SocketIsLive
<1>1. ServerInv => SocketIsLive
  BY DEF ServerInv, SocketInv, SocketIsLive, SocketPlaces
<1> QED  BY <1>1, ServerInvariant, PTL

-----------------------------------------------------------------------------
(* Queues without repetitions.                                             *)

LEMMA QueueHead ==
    ASSUME NEW S, NEW q \in Seq(S), q # <<>>
    PROVE  /\ Head(q) \in S /\ Tail(q) \in Seq(S)
           /\ Range(q) = {Head(q)} \cup Range(Tail(q))
           /\ IsInjective(q) => IsInjective(Tail(q)) /\ Head(q) \notin Range(Tail(q))
<1> DEFINE n == Len(q)
           t == Tail(q)
<1>1. DOMAIN q = 1 .. n /\ n \in Nat \ {0} /\ Head(q) = q[1] /\ Head(q) \in S /\ t \in Seq(S)
  OBVIOUS
<1>2. DOMAIN t = 1 .. n - 1 /\ \A i \in 1 .. n - 1 : t[i] = q[i + 1]
  BY <1>1
<1> HIDE DEF n, t
<1>3. \A i \in 1 .. n : i = 1 \/ (i - 1 \in 1 .. n - 1 /\ q[i] = t[i - 1])
  BY <1>1, <1>2
<1>4. \A i \in 1 .. n - 1 : i + 1 \in 1 .. n /\ i + 1 # 1
  BY <1>1
<1>5. 1 \in 1 .. n
  BY <1>1
<1>6. Range(q) \subseteq {Head(q)} \cup Range(t)
  <2>1. ASSUME NEW i \in 1 .. n PROVE q[i] \in {Head(q)} \cup Range(t)
    <3>1. CASE i = 1
      BY <1>1, <3>1
    <3>2. CASE i - 1 \in 1 .. n - 1 /\ q[i] = t[i - 1]
      BY <1>2, <3>2 DEF Range
    <3> QED  BY <1>3, <3>1, <3>2
  <2> QED  BY <1>1, <2>1 DEF Range
<1>7. Range(t) \subseteq Range(q) /\ Head(q) \in Range(q)
  BY <1>1, <1>2, <1>4, <1>5 DEF Range
<1>8. ASSUME IsInjective(q) PROVE IsInjective(t) /\ Head(q) \notin Range(t)
  <2>0. \A i, j \in 1 .. n : q[i] = q[j] => i = j
    BY <1>1, <1>8 DEF IsInjective
  <2>1. Head(q) \notin Range(t)
    <3>1. ASSUME NEW i \in 1 .. n - 1 PROVE t[i] # Head(q)
      <4>1. i + 1 \in 1 .. n /\ i + 1 # 1 /\ t[i] = q[i + 1]
        BY <1>2, <1>4
      <4> QED  BY <1>1, <1>5, <2>0, <4>1
    <3> QED  BY <1>2, <3>1 DEF Range
  <2>2. ASSUME NEW i \in 1 .. n - 1, NEW j \in 1 .. n - 1, t[i] = t[j] PROVE i = j
    <3>1. i + 1 \in 1 .. n /\ j + 1 \in 1 .. n /\ q[i + 1] = q[j + 1]
      BY <1>2, <1>4, <2>2
    <3>2. i + 1 = j + 1
      BY <2>0, <3>1
    <3> QED  BY <3>2, <1>1
  <2> QED  BY <1>2, <2>1, <2>2 DEF IsInjective
<1> QED  BY <1>1, <1>6, <1>7, <1>8 DEF t

LEMMA QueueLast ==
    ASSUME NEW S, NEW q \in Seq(S), q # <<>>
    PROVE  /\ Last(q) \in S /\ Front(q) \in Seq(S)
           /\ Range(q) = {Last(q)} \cup Range(Front(q))
           /\ IsInjective(q) => IsInjective(Front(q)) /\ Last(q) \notin Range(Front(q))
<1> DEFINE n == Len(q)
           t == Front(q)
<1>1. DOMAIN q = 1 .. n /\ n \in Nat \ {0} /\ Last(q) = q[n] /\ q[n] \in S /\ t \in Seq(S)
  BY DEF Last, Front
<1>2. DOMAIN t = 1 .. n - 1 /\ \A i \in 1 .. n - 1 : t[i] = q[i]
  BY <1>1 DEF Front
<1>3. 1 .. n = (1 .. n - 1) \cup {n} /\ n \notin 1 .. n - 1
  BY <1>1
<1> HIDE DEF n, t
<1>4. Range(q) = {Last(q)} \cup Range(t)
  BY <1>1, <1>2, <1>3 DEF Range
<1>5. ASSUME IsInjective(q) PROVE IsInjective(t) /\ Last(q) \notin Range(t)
  BY <1>1, <1>2, <1>3, <1>5 DEF Range, IsInjective
<1> QED  BY <1>1, <1>4, <1>5 DEF t

LEMMA QueueAppend ==
    ASSUME NEW S, NEW q \in Seq(S), NEW e \in S
    PROVE  /\ Append(q, e) \in Seq(S)
           /\ Range(Append(q, e)) = Range(q) \cup {e}
           /\ IsInjective(q) /\ e \notin Range(q) => IsInjective(Append(q, e))
<1> DEFINE n == Len(q)
           t == Append(q, e)
<1>1. DOMAIN q = 1 .. n /\ n \in Nat /\ t \in Seq(S)
  OBVIOUS
<1>2. DOMAIN t = 1 .. n + 1 /\ t[n + 1] = e /\ \A i \in 1 .. n : t[i] = q[i]
  BY <1>1
<1>3. 1 .. n + 1 = (1 .. n) \cup {n + 1}
  BY <1>1
<1> HIDE DEF n, t
<1>4. Range(t) = Range(q) \cup {e}
  BY <1>1, <1>2, <1>3 DEF Range
<1>5. ASSUME IsInjective(q), e \notin Range(q) PROVE IsInjective(t)
  BY <1>1, <1>2, <1>3, <1>5 DEF Range, IsInjective
<1> QED  BY <1>1, <1>4, <1>5 DEF t

LEMMA QueueJoin ==
    ASSUME NEW S, NEW q \in Seq(S), NEW r \in Seq(S)
    PROVE  /\ q \o r \in Seq(S)
           /\ Range(q \o r) = Range(q) \cup Range(r)
           /\ IsInjective(q) /\ IsInjective(r) /\ Range(q) \cap Range(r) = {} => IsInjective(q \o r)
<1> DEFINE m == Len(q)
           n == Len(r)
           t == q \o r
<1>1. DOMAIN q = 1 .. m /\ m \in Nat /\ DOMAIN r = 1 .. n /\ n \in Nat /\ t \in Seq(S)
  OBVIOUS
<1>2. DOMAIN t = 1 .. m + n /\ (\A i \in 1 .. m : t[i] = q[i]) /\ (\A i \in m + 1 .. m + n : t[i] = r[i - m])
  BY <1>1
<1> HIDE DEF m, n, t
<1>3. /\ 1 .. m + n = (1 .. m) \cup (m + 1 .. m + n)
      /\ \A i \in m + 1 .. m + n : i - m \in 1 .. n
      /\ \A i \in 1 .. n : i + m \in m + 1 .. m + n /\ (i + m) - m = i
  BY <1>1
<1>4. Range(t) = Range(q) \cup Range(r)
  <2>0. ASSUME NEW i \in 1 .. m + n PROVE t[i] \in Range(q) \cup Range(r)
    <3>1. CASE i \in 1 .. m
      BY <1>1, <1>2, <3>1 DEF Range
    <3>2. CASE i \in m + 1 .. m + n
      <4>1. t[i] = r[i - m] /\ i - m \in DOMAIN r
        BY <1>1, <1>2, <1>3, <3>2
      <4> QED  BY <4>1 DEF Range
    <3> QED  BY <1>3, <3>1, <3>2
  <2>1. Range(t) \subseteq Range(q) \cup Range(r)
    BY <1>2, <2>0 DEF Range
  <2>2. Range(q) \subseteq Range(t)
    BY <1>1, <1>2, <1>3 DEF Range
  <2>3. ASSUME NEW i \in 1 .. n PROVE r[i] \in Range(t)
    <3>1. t[i + m] = r[i] /\ i + m \in DOMAIN t
      BY <1>2, <1>3
    <3> QED  BY <3>1 DEF Range
  <2> QED  BY <1>1, <2>1, <2>2, <2>3 DEF Range
<1>5. ASSUME IsInjective(q), IsInjective(r), Range(q) \cap Range(r) = {}, NEW i \in 1 .. m + n,
             NEW j \in 1 .. m + n, t[i] = t[j]
      PROVE  i = j
  <2>1. CASE i \in 1 .. m /\ j \in 1 .. m
    BY <1>1, <1>2, <1>5, <2>1 DEF IsInjective
  <2>2. CASE i \in m + 1 .. m + n /\ j \in m + 1 .. m + n
    <3>1. i - m = j - m
      BY <1>1, <1>2, <1>3, <1>5, <2>2 DEF IsInjective
    <3> QED  BY <1>1, <3>1
  <2>3. CASE (i \in 1 .. m /\ j \in m + 1 .. m + n) \/ (j \in 1 .. m /\ i \in m + 1 .. m + n)
    <3>1. (\A k \in 1 .. m : t[k] \in Range(q)) /\ \A k \in m + 1 .. m + n : t[k] \in Range(r)
      <4>1. ASSUME NEW k \in m + 1 .. m + n PROVE t[k] \in Range(r)
        <5>1. t[k] = r[k - m] /\ k - m \in DOMAIN r
          BY <1>1, <1>2, <1>3
        <5> QED  BY <5>1 DEF Range
      <4> QED  BY <1>1, <1>2, <4>1 DEF Range
    <3> QED  BY <1>5, <2>3, <3>1
  <2> QED  BY <1>3, <2>1, <2>2, <2>3
<1>6. IsInjective(q) /\ IsInjective(r) /\ Range(q) \cap Range(r) = {} => IsInjective(t)
  BY <1>2, <1>5 DEF IsInjective
<1> QED  BY <1>1, <1>4, <1>6 DEF t

-----------------------------------------------------------------------------
(* The connections of a server.                                            *)

Messages == {"fds", "setFeatures", "terminateServer"}

ServerRecs ==
    [at : ServerPlaces, hello : BOOLEAN, backlog : Seq(Connection), newconnections : Seq(Connection),
     control : Connection \cup {None}, ui : Connection \cup {None},
     ready : SUBSET {"sock", "control", "command"}, quit : BOOLEAN, hadanyui : BOOLEAN]

ClientRecs == [at : ClientPlaces, tries : 0 .. Retries, server : Server \cup {None}]

Queues(r)  == Range(r.backlog) \cup Range(r.newconnections)
KnownOf(r) == Queues(r) \cup {r.control, r.ui}

\* Every connection of the server is in one place, and if some wait one is served.
Placed(r) ==
    /\ r \in ServerRecs /\ r.ui \in {None, r.control}
    /\ IsInjective(r.backlog) /\ IsInjective(r.newconnections)
    /\ Range(r.backlog) \cap Range(r.newconnections) = {}
    /\ r.control \notin Queues(r)
    /\ r.newconnections # <<>> => r.control # None \/ r.quit

ServersPlaced == srv \in [Server -> ServerRecs] /\ \A s \in Server : Placed(srv[s])

OneKnows ==
    \A s, t \in Server : \A k \in Connection : k \in KnownOf(srv[s]) /\ k \in KnownOf(srv[t]) => s = t

\* The connection of this attempt is not made yet.
NotYet == {"try", "got", "wait", "look", "poll", "unlock", "connect"}

\* What servers know are connections of earlier attempts, or of this one if it
\* has been made.
NoneAhead ==
    \A s \in Server : \A k \in KnownOf(srv[s]) \cap Connection :
        k[2] <= cl[k[1]].tries /\ (cl[k[1]].at \in NotYet => k[2] < cl[k[1]].tries)

ClientsTry == cl \in [Client -> ClientRecs] /\ \A c \in Client : cl[c].at # "fatal" => cl[c].tries < Retries

RestTypes ==
    /\ sockname \in Server \cup {NoSocket, Stale}
    /\ unread \subseteq Connection \X Messages /\ answered \subseteq Connection

ConnInv == ServersPlaced /\ OneKnows /\ NoneAhead /\ ClientsTry /\ RestTypes

LEMMA NoneApart == None \notin Connection
BY ServerAssumption DEF Connection

LEMMA KnowsIs == ASSUME NEW s \in Server, NEW k PROVE Knows(s, k) <=> k \in KnownOf(srv[s])
BY DEF Knows, KnownOf, Queues

LEMMA EmptyQueue == <<>> \in Seq(Connection) /\ Range(<<>>) = {} /\ IsInjective(<<>>)
BY DEF Range, IsInjective

LEMMA PlacedNone == ASSUME NEW hello \in BOOLEAN PROVE Placed([NoServer EXCEPT !.hello = hello])
<1> DEFINE r == [NoServer EXCEPT !.hello = hello]
<1>1. NoServer \in ServerRecs
  BY EmptyQueue DEF NoServer, ServerRecs, ServerPlaces
<1>2. r \in ServerRecs
  BY <1>1 DEF ServerRecs
<1>3. /\ r.backlog = <<>> /\ r.newconnections = <<>> /\ r.control = None /\ r.ui = None
  BY DEF NoServer
<1> HIDE DEF r
<1>4. Placed(r)
  BY <1>2, <1>3, EmptyQueue DEF Placed, Queues
<1> QED  BY <1>4 DEF r

\* A server that leaves its connections where they are.
LEMMA PlacedStill ==
    ASSUME NEW q, Placed(q), NEW r \in ServerRecs,
           r.backlog = q.backlog, r.newconnections = q.newconnections, r.control = q.control,
           r.ui \in {None, r.control}, q.quit => r.quit
    PROVE  Placed(r) /\ KnownOf(r) \cap Connection \subseteq KnownOf(q)
BY NoneApart DEF Placed, Queues, KnownOf

LEMMA ServerChanges ==
    ASSUME ConnInv, NEW s \in Server, NEW r, Placed(r),
           KnownOf(r) \cap Connection \subseteq KnownOf(srv[s]),
           srv' = [srv EXCEPT ![s] = r]
    PROVE  /\ ServersPlaced' /\ OneKnows'
           /\ \A t \in Server : KnownOf(srv'[t]) \cap Connection \subseteq KnownOf(srv[t])
<1>1. srv' \in [Server -> ServerRecs] /\ srv'[s] = r /\ \A t \in Server \ {s} : srv'[t] = srv[t]
  BY DEF ConnInv, ServersPlaced, Placed
<1>2. ServersPlaced'
  BY <1>1 DEF ConnInv, ServersPlaced
<1>3. \A t \in Server : KnownOf(srv'[t]) \cap Connection \subseteq KnownOf(srv[t])
  BY <1>1
<1>4. OneKnows'
  BY <1>3 DEF ConnInv, OneKnows
<1> QED  BY <1>2, <1>3, <1>4

LEMMA ClientChanges ==
    ASSUME ConnInv, NEW c \in Client, NEW r \in ClientRecs, r.at # "fatal" => r.tries < Retries,
           r.tries >= cl[c].tries, r.at \in NotYet => r.tries > cl[c].tries \/ cl[c].at \in NotYet,
           cl' = [cl EXCEPT ![c] = r],
           \A s \in Server : KnownOf(srv'[s]) \cap Connection \subseteq KnownOf(srv[s])
    PROVE  NoneAhead' /\ ClientsTry'
<1>1. cl' \in [Client -> ClientRecs] /\ cl'[c] = r /\ \A d \in Client \ {c} : cl'[d] = cl[d]
  BY DEF ConnInv, ClientsTry
<1>3. ClientsTry'
  BY <1>1 DEF ConnInv, ClientsTry
<1>4. NoneAhead'
  <2> SUFFICES ASSUME NEW s \in Server, NEW k \in KnownOf(srv'[s]) \cap Connection
               PROVE  k[2] <= cl'[k[1]].tries /\ (cl'[k[1]].at \in NotYet => k[2] < cl'[k[1]].tries)
    BY DEF NoneAhead
  <2>1. k[2] <= cl[k[1]].tries /\ (cl[k[1]].at \in NotYet => k[2] < cl[k[1]].tries)
    BY DEF ConnInv, NoneAhead
  <2>2. k[1] \in Client /\ k[2] \in Nat
    BY DEF Connection
  <2>3. CASE k[1] # c
    BY <1>1, <2>1, <2>2, <2>3
  <2>4. CASE k[1] = c
    <3>1. cl[c].tries \in Nat /\ r.tries \in Nat
      BY DEF ConnInv, ClientsTry, ClientRecs
    <3> QED  BY <1>1, <2>1, <2>2, <2>4, <3>1
  <2> QED  BY <2>3, <2>4
<1> QED  BY <1>3, <1>4

\* A server changes to r; what is unread or answered is of connections it knows.
LEMMA ServerToRec ==
    ASSUME ConnInv, NEW s \in Server, NEW r, Placed(r),
           KnownOf(r) \cap Connection \subseteq KnownOf(srv[s]),
           srv' = [srv EXCEPT ![s] = r], cl' = cl,
           unread' \subseteq unread,
           answered' = answered \/ (answered' = answered \cup {srv[s].ui} /\ srv[s].ui # None),
           sockname' \in {sockname, s, NoSocket, Stale}
    PROVE  ConnInv'
<1>1. srv[s].ui \in Connection \cup {None}
  BY DEF ConnInv, ServersPlaced, ServerRecs
<1>2. RestTypes'
  BY <1>1 DEF ConnInv, RestTypes
<1>3. ServersPlaced' /\ OneKnows' /\ \A t \in Server : KnownOf(srv'[t]) \cap Connection \subseteq KnownOf(srv[t])
  BY ServerChanges
<1>4. NoneAhead'
  BY <1>3 DEF ConnInv, NoneAhead
<1> QED  BY <1>2, <1>3, <1>4 DEF ConnInv, ClientsTry

-----------------------------------------------------------------------------
(* The steps of servers.                                                   *)

StillStep(s) ==
    \/ Bind(s) \/ Listen(s) \/ SendReady(s) \/ Select(s) \/ RecvFds(s)
    \/ NoCommand(s) \/ RunCommand(s) \/ TerminateServer(s) \/ IdleTimesOut(s) \/ TimesOut(s)
    \/ LeaveLoop(s) \/ Stat(s) \/ UnlinkSocket(s) \/ ReleaseLock(s)
    \/ (LockAgain(s) /\ ServerAt(s, "unlock") /\ UNCHANGED unread)

LEMMA StillRec ==
    ASSUME ConnInv, NEW s \in Server, StillStep(s)
    PROVE  /\ srv' = [srv EXCEPT ![s] = srv'[s]] /\ srv'[s] \in ServerRecs
           /\ srv'[s].backlog = srv[s].backlog /\ srv'[s].newconnections = srv[s].newconnections
           /\ srv'[s].control = srv[s].control /\ srv'[s].ui \in {None, srv[s].control}
           /\ srv[s].quit => srv'[s].quit
<1>0. srv \in [Server -> ServerRecs] /\ srv[s].ui \in {None, srv[s].control}
  BY DEF ConnInv, ServersPlaced, Placed
<1>at. ASSUME NEW place \in ServerPlaces, ServerAt(s, place)
       PROVE  /\ srv' = [srv EXCEPT ![s] = srv'[s]] /\ srv'[s] \in ServerRecs
              /\ srv'[s].backlog = srv[s].backlog /\ srv'[s].newconnections = srv[s].newconnections
              /\ srv'[s].control = srv[s].control /\ srv'[s].ui = srv[s].ui
              /\ srv'[s].quit = srv[s].quit
  <2> DEFINE q == srv[s]
             rec == [q EXCEPT !.at = place]
  <2>1. srv' = [srv EXCEPT ![s] = rec] /\ q \in ServerRecs
    BY <1>0, <1>at DEF ServerAt
  <2> HIDE DEF q
  <2>2. /\ rec \in ServerRecs /\ rec.backlog = q.backlog /\ rec.newconnections = q.newconnections
        /\ rec.control = q.control /\ rec.ui = q.ui /\ rec.quit = q.quit
    BY <2>1 DEF ServerRecs
  <2> HIDE DEF rec
  <2>3. srv'[s] = rec
    BY <1>0, <2>1
  <2> QED  BY <2>1, <2>2, <2>3 DEF q
<1>quit. ASSUME srv' = [srv EXCEPT ![s].quit = TRUE]
         PROVE  /\ srv' = [srv EXCEPT ![s] = srv'[s]] /\ srv'[s] \in ServerRecs
                /\ srv'[s].backlog = srv[s].backlog /\ srv'[s].newconnections = srv[s].newconnections
                /\ srv'[s].control = srv[s].control /\ srv'[s].ui = srv[s].ui
                /\ srv'[s].quit
  <2> DEFINE q == srv[s]
             rec == [q EXCEPT !.quit = TRUE]
  <2>1. srv' = [srv EXCEPT ![s] = rec] /\ q \in ServerRecs
    BY <1>0, <1>quit
  <2> HIDE DEF q
  <2>2. /\ rec \in ServerRecs /\ rec.backlog = q.backlog /\ rec.newconnections = q.newconnections
        /\ rec.control = q.control /\ rec.ui = q.ui /\ rec.quit
    BY <2>1 DEF ServerRecs
  <2> HIDE DEF rec
  <2>3. srv'[s] = rec
    BY <1>0, <2>1
  <2> QED  BY <2>1, <2>2, <2>3 DEF q
<1> USE DEF ServerRecs, ServerPlaces, LoopPlaces
<1>1. CASE Bind(s) \/ Listen(s) \/ LeaveLoop(s) \/ UnlinkSocket(s) \/ ReleaseLock(s) \/ NoCommand(s)
             \/ RunCommand(s)
  <2>1. \E place \in ServerPlaces : ServerAt(s, place)
    BY <1>1 DEF Bind, Listen, LeaveLoop, UnlinkSocket, ReleaseLock, NoCommand, RunCommand,
       ServerAt
  <2> QED  BY <1>0, <1>at, <2>1
<1>2. CASE SendReady(s)
  BY <1>0, <1>2 DEF SendReady
<1>3. CASE Select(s)
  <2>1. PICK ready \in Selected(s) : srv' = [srv EXCEPT ![s].ready = ready, ![s].at = "accept"]
    BY <1>3 DEF Select
  <2>2. ready \in SUBSET {"sock", "control", "command"}
    BY DEF Selected
  <2> HIDE DEF ServerPlaces, LoopPlaces
  <2> DEFINE q == srv[s]
             rec == [q EXCEPT !.ready = ready, !.at = "accept"]
  <2>3. srv' = [srv EXCEPT ![s] = rec] /\ q \in ServerRecs /\ "accept" \in ServerPlaces
    BY <1>0, <2>1 DEF ServerPlaces, LoopPlaces
  <2> HIDE DEF q
  <2>4. /\ rec \in ServerRecs /\ rec.backlog = q.backlog /\ rec.newconnections = q.newconnections
        /\ rec.control = q.control /\ rec.ui = q.ui /\ rec.quit = q.quit
    BY <2>2, <2>3
  <2> HIDE DEF rec
  <2>5. srv'[s] = rec
    BY <1>0, <2>3
  <2> QED  BY <1>0, <2>3, <2>4, <2>5 DEF q
<1>4. CASE RecvFds(s)
  BY <1>0, <1>4 DEF RecvFds
<1>5. CASE TerminateServer(s)
  BY <1>0, <1>5 DEF TerminateServer
<1>6. CASE IdleTimesOut(s) \/ TimesOut(s)
  BY <1>0, <1>6, <1>quit DEF IdleTimesOut, TimesOut
<1>7. CASE Stat(s)
  <2>1. ServerAt(s, "unlink") \/ ServerAt(s, "close")
    BY <1>7 DEF Stat
  <2> QED  BY <1>0, <1>at, <2>1
<1>8. CASE ServerAt(s, "unlock")
  BY <1>0, <1>8, <1>at
<1> QED  BY <1>1, <1>2, <1>3, <1>4, <1>5, <1>6, <1>7, <1>8 DEF StillStep

LEMMA StillKeeps ==
    ASSUME ConnInv, NEW s \in Server, StillStep(s)
    PROVE  ConnInv'
<1>1. Placed(srv[s])
  BY DEF ConnInv, ServersPlaced
<1>2. Placed(srv'[s]) /\ KnownOf(srv'[s]) \cap Connection \subseteq KnownOf(srv[s])
  BY <1>1, StillRec, PlacedStill
<1>3. /\ cl' = cl /\ unread' \subseteq unread
      /\ sockname' \in {sockname, s, NoSocket, Stale}
  BY DEF StillStep, Bind, Listen, SendReady, Select, RecvFds, NoCommand, RunCommand,
     TerminateServer,
         IdleTimesOut, TimesOut, LeaveLoop, Stat, UnlinkSocket, ReleaseLock, LockAgain, Dropped
<1>4. answered' = answered \/ (answered' = answered \cup {srv[s].ui} /\ srv[s].ui # None)
  <2>1. CASE RunCommand(s)
    <3>1. <<srv[s].ui, "setFeatures">> \in Connection \X Messages
      BY <2>1 DEF RunCommand, ConnInv, RestTypes
    <3> QED  BY <2>1, <3>1, NoneApart DEF RunCommand
  <2>2. CASE ~RunCommand(s)
    BY <2>2 DEF StillStep, Bind, Listen, SendReady, Select, RecvFds, NoCommand, TerminateServer,
         IdleTimesOut, TimesOut, LeaveLoop, Stat, UnlinkSocket, ReleaseLock, LockAgain
  <2> QED  BY <2>1, <2>2
<1>5. srv' = [srv EXCEPT ![s] = srv'[s]]
  BY StillRec
<1> QED  BY <1>2, <1>3, <1>4, <1>5, ServerToRec

\* The connections that wait are accepted; the first is served if none is.
LEMMA AcceptKeeps ==
    ASSUME ConnInv, NEW s \in Server, Accept(s)
    PROVE  /\ ConnInv'
           /\ KnownOf(srv'[s]) \cap Connection = KnownOf(srv[s]) \cap Connection
           /\ srv' = [srv EXCEPT ![s] = srv'[s]]
           /\ srv[s].control # None => srv'[s].control = srv[s].control
           /\ srv'[s].ui = srv[s].ui /\ srv'[s].quit = srv[s].quit
           /\ srv'[s].hello = srv[s].hello /\ srv'[s].ready = srv[s].ready
           /\ srv'[s].at = IF "control" \in srv[s].ready THEN "control" ELSE "command"
<1> DEFINE q == srv[s]
           new == IF "sock" \in q.ready THEN q.backlog ELSE <<>>
           free == q.control = None /\ new # <<>>
           backlog == IF new = <<>> THEN q.backlog ELSE <<>>
           control == IF free THEN Head(new) ELSE q.control
           rest == IF free THEN Tail(new) ELSE new
           waiting == q.newconnections \o rest
           place == IF "control" \in q.ready THEN "control" ELSE "command"
           r == [q EXCEPT !.backlog = backlog, !.control = control, !.newconnections = waiting, !.at = place]
<1>0. Placed(q) /\ q \in ServerRecs
  BY DEF ConnInv, ServersPlaced, Placed
<1>1. srv' = [srv EXCEPT ![s].backlog = backlog, ![s].control = control,
                         ![s].newconnections = waiting, ![s].at = place]
  BY DEF Accept
<1>2. place \in ServerPlaces
  BY DEF ServerPlaces, LoopPlaces
<1>3. /\ q.backlog \in Seq(Connection) /\ q.newconnections \in Seq(Connection)
      /\ q.control \in Connection \cup {None} /\ q.ui \in {None, q.control}
      /\ IsInjective(q.backlog) /\ IsInjective(q.newconnections)
      /\ Range(q.backlog) \cap Range(q.newconnections) = {}
      /\ q.control \notin Range(q.backlog) \cup Range(q.newconnections)
      /\ q.newconnections # <<>> => q.control # None \/ q.quit
  BY <1>0 DEF Placed, Queues, ServerRecs
<1> HIDE DEF q
<1>4. new \in Seq(Connection) /\ IsInjective(new) /\ Range(new) \subseteq Range(q.backlog)
  BY <1>3, EmptyQueue
<1>5. backlog \in Seq(Connection) /\ IsInjective(backlog) /\ Range(backlog) \subseteq Range(q.backlog)
      /\ Range(backlog) \cap Range(new) = {}
  BY <1>3, EmptyQueue
<1>6. /\ rest \in Seq(Connection) /\ IsInjective(rest) /\ Range(rest) \subseteq Range(new)
      /\ control \in Connection \cup {None} /\ control \notin Range(rest)
      /\ control = q.control \/ (q.control = None /\ control \in Range(new))
      /\ q.control # None => control = q.control
      /\ Range(new) \subseteq Range(rest) \cup {control}
  <2>1. CASE free
    BY <1>4, <2>1, QueueHead
  <2>2. CASE ~free
    BY <1>3, <1>4, <2>2
  <2> HIDE DEF new, rest, control
  <2> QED  BY <2>1, <2>2
<1>7. /\ waiting \in Seq(Connection) /\ IsInjective(waiting)
      /\ Range(waiting) = Range(q.newconnections) \cup Range(rest)
  <2> HIDE DEF rest
  <2>1. Range(q.newconnections) \cap Range(rest) = {}
    BY <1>3, <1>4, <1>6
  <2> QED  BY <1>3, <1>6, <2>1, QueueJoin
<1>8. waiting # <<>> => control # None \/ q.quit
  <2>1. CASE free
    BY <1>4, <2>1, QueueHead, NoneApart
  <2>2. CASE ~free /\ q.control = None
    <3>1. rest = <<>> /\ control = None
      BY <2>2
    <3>2. \A x \in Seq(Connection) : x \o <<>> = x
      OBVIOUS
    <3>3. waiting = q.newconnections
      BY <1>3, <3>1, <3>2
    <3> QED  BY <1>3, <2>2, <3>3
  <2>3. CASE ~free /\ q.control # None
    BY <2>3
  <2> QED  BY <2>1, <2>2, <2>3
<1> HIDE DEF new, free, backlog, control, rest, waiting, place
<1>9. /\ r \in ServerRecs /\ r.backlog = backlog /\ r.newconnections = waiting /\ r.control = control
      /\ r.ui = q.ui /\ r.quit = q.quit
  BY <1>0, <1>2, <1>5, <1>6, <1>7 DEF ServerRecs
<1>9a. r.at = place /\ r.hello = q.hello /\ r.ready = q.ready
  BY <1>0 DEF ServerRecs
<1>9b. Range(q.backlog) \subseteq Range(backlog) \cup Range(new)
  BY DEF new, backlog
<1>10. srv' = [srv EXCEPT ![s] = r]
  BY <1>1 DEF q
<1> HIDE DEF r
<1>11. r.ui \in {None, r.control}
  BY <1>3, <1>6, <1>9
<1>12. control \notin Range(backlog) \cup Range(waiting)
  <2>1. CASE control = q.control
    BY <1>3, <1>5, <1>6, <1>7, <2>1
  <2>2. CASE q.control = None /\ control \in Range(new)
    BY <1>3, <1>4, <1>5, <1>6, <1>7, <2>2
  <2> QED  BY <1>6, <2>1, <2>2
<1>13. Range(backlog) \cap Range(waiting) = {}
  BY <1>3, <1>5, <1>6, <1>7
<1>14. Placed(r)
  BY <1>5, <1>7, <1>8, <1>9, <1>11, <1>12, <1>13 DEF Placed, Queues
<1>15. KnownOf(r) \cap Connection \subseteq KnownOf(srv[s])
  BY <1>3, <1>4, <1>5, <1>6, <1>7, <1>9 DEF KnownOf, Queues, q
<1>16. cl' = cl /\ unread' = unread /\ answered' = answered /\ sockname' = sockname
  BY DEF Accept
<1>17. srv'[s] = r
  BY <1>10 DEF ConnInv, ServersPlaced
<1>18. KnownOf(q) \cap Connection \subseteq KnownOf(r)
  BY <1>3, <1>6, <1>7, <1>9, <1>9b, NoneApart DEF KnownOf, Queues
<1>19. place = IF "control" \in q.ready THEN "control" ELSE "command"
  BY DEF place
<1>20. ConnInv'
  BY <1>10, <1>14, <1>15, <1>16, ServerToRec
<1> QED  BY <1>6, <1>9, <1>9a, <1>10, <1>15, <1>17, <1>18, <1>19, <1>20 DEF q

\* The connection that is served is closed; the last that waits is next.
LEMMA DisconnectedPlaced ==
    ASSUME ConnInv, NEW s \in Server, NEW after \in Disconnected(s), NEW place \in ServerPlaces,
           NEW r, r = [after EXCEPT !.at = place]
    PROVE  /\ Placed(r) /\ KnownOf(r) \cap Connection = (KnownOf(srv[s]) \cap Connection) \ {srv[s].control}
           /\ r.at = place /\ r.ui = None /\ r.hello = srv[s].hello /\ r.ready = srv[s].ready
           /\ srv[s].quit => r.quit
           /\ r.quit => srv[s].quit \/ (srv[s].ui # None /\ scene.stuck) \/ scene.timeout = "none"
<1> DEFINE q == srv[s]
<1>0. Placed(q) /\ q \in ServerRecs
  BY DEF ConnInv, ServersPlaced, Placed
<1>1. /\ q.backlog \in Seq(Connection) /\ q.newconnections \in Seq(Connection)
      /\ q.control \in Connection \cup {None} /\ q.quit \in BOOLEAN
      /\ IsInjective(q.backlog) /\ IsInjective(q.newconnections)
      /\ Range(q.backlog) \cap Range(q.newconnections) = {}
      /\ q.control \notin Range(q.backlog) \cup Range(q.newconnections)
      /\ q.ui \in {None, q.control}
  BY <1>0 DEF Placed, Queues, ServerRecs
<1> DEFINE next(quits) == [q EXCEPT !.control = Last(q.newconnections), !.ui = None,
                                    !.newconnections = Front(q.newconnections)]
           none(quit) == [q EXCEPT !.control = None, !.ui = None, !.quit = quit]
<1>2. PICK quits \in {q.quit} \cup IF HaveUI(s) /\ scene.stuck THEN {TRUE} ELSE {} :
        after = IF q.newconnections # <<>> /\ ~quits THEN next(quits)
                ELSE none(quits \/ (scene.timeout = "none" /\ q.backlog = <<>>))
  BY DEF Disconnected
<1>3. CASE q.newconnections # <<>> /\ ~quits
  <2> DEFINE last == Last(q.newconnections)
             front == Front(q.newconnections)
  <2>1. /\ last \in Connection /\ front \in Seq(Connection) /\ IsInjective(front)
        /\ Range(q.newconnections) = {last} \cup Range(front) /\ last \notin Range(front)
    BY <1>1, <1>3, QueueLast
  <2>2. after = [q EXCEPT !.control = last, !.ui = None, !.newconnections = front]
    BY <1>2, <1>3
  <2> HIDE DEF last, front
  <2>3. /\ r \in ServerRecs /\ r.backlog = q.backlog /\ r.newconnections = front /\ r.control = last
        /\ r.ui = None /\ r.at = place /\ r.quit = q.quit /\ r.hello = q.hello /\ r.ready = q.ready
    BY <1>0, <2>1, <2>2 DEF ServerRecs
  <2> HIDE DEF q
  <2>4. last # None /\ last \notin Range(q.backlog) /\ Range(q.backlog) \cap Range(front) = {}
    BY <1>1, <2>1, NoneApart
  <2>5. Placed(r)
    BY <1>1, <2>1, <2>3, <2>4 DEF Placed, Queues
  <2>6. KnownOf(r) \cap Connection = (KnownOf(q) \cap Connection) \ {q.control}
    BY <1>1, <2>1, <2>3, NoneApart DEF KnownOf, Queues
  <2> QED  BY <2>3, <2>5, <2>6 DEF q
<1>4. CASE q.newconnections = <<>> \/ quits
  <2> DEFINE quit == quits \/ (scene.timeout = "none" /\ q.backlog = <<>>)
  <2>1. /\ quit \in BOOLEAN /\ (q.quit => quit) /\ (quits => quit)
        /\ quit => q.quit \/ (q.ui # None /\ scene.stuck) \/ scene.timeout = "none"
    BY <1>1, <1>2 DEF HaveUI
  <2>2. after = [q EXCEPT !.control = None, !.ui = None, !.quit = quit]
    BY <1>2, <1>4
  <2> HIDE DEF quit
  <2>3. /\ r \in ServerRecs /\ r.backlog = q.backlog /\ r.newconnections = q.newconnections
        /\ r.control = None /\ r.ui = None /\ r.quit = quit
        /\ r.at = place /\ r.hello = q.hello /\ r.ready = q.ready
    BY <1>0, <2>1, <2>2 DEF ServerRecs
  <2> HIDE DEF q
  <2>4. None \notin Range(q.backlog) \cup Range(q.newconnections)
    <3>1. \A S : \A x \in Seq(S) : Range(x) \subseteq S
      BY DEF Range
    <3> QED  BY <1>1, <3>1, NoneApart
  <2>5. Placed(r)
    BY <1>1, <1>4, <2>1, <2>3, <2>4 DEF Placed, Queues
  <2>6. KnownOf(r) \cap Connection = (KnownOf(q) \cap Connection) \ {q.control}
    BY <1>1, <2>3, NoneApart DEF KnownOf, Queues
  <2> QED  BY <2>1, <2>3, <2>5, <2>6 DEF q
<1> QED  BY <1>3, <1>4

LEMMA DisconnectMoves ==
    ASSUME ConnInv, NEW s \in Server, ControlClosed(s) \/ CommandClosed(s)
    PROVE  /\ srv' = [srv EXCEPT ![s] = srv'[s]] /\ Placed(srv'[s])
           /\ KnownOf(srv'[s]) \cap Connection = (KnownOf(srv[s]) \cap Connection) \ {srv[s].control}
           /\ srv'[s].at \in {"command", "select"}
           /\ srv'[s].ui = None /\ srv'[s].hello = srv[s].hello /\ srv'[s].ready = srv[s].ready
           /\ srv[s].quit => srv'[s].quit
           /\ srv'[s].quit => srv[s].quit \/ (srv[s].ui # None /\ scene.stuck) \/ scene.timeout = "none"
<1>1. PICK after \in Disconnected(s), place \in {"command", "select"} :
        srv' = [srv EXCEPT ![s] = [after EXCEPT !.at = place]]
  BY DEF ControlClosed, CommandClosed
<1> DEFINE r == [after EXCEPT !.at = place]
<1>2. /\ Placed(r) /\ KnownOf(r) \cap Connection = (KnownOf(srv[s]) \cap Connection) \ {srv[s].control}
      /\ r.at = place /\ r.ui = None /\ r.hello = srv[s].hello /\ r.ready = srv[s].ready
      /\ srv[s].quit => r.quit
      /\ r.quit => srv[s].quit \/ (srv[s].ui # None /\ scene.stuck) \/ scene.timeout = "none"
  <2>1. place \in ServerPlaces
    BY DEF ServerPlaces, LoopPlaces
  <2> QED  BY <2>1, DisconnectedPlaced
<1> HIDE DEF r
<1>3. srv' = [srv EXCEPT ![s] = r] /\ srv'[s] = r
  BY <1>1 DEF r, ConnInv, ServersPlaced
<1> QED  BY <1>2, <1>3

LEMMA DisconnectKeeps ==
    ASSUME ConnInv, NEW s \in Server, ControlClosed(s) \/ CommandClosed(s)
    PROVE  ConnInv'
<1>1. cl' = cl /\ unread' \subseteq unread /\ answered' = answered /\ sockname' = sockname
  BY DEF ControlClosed, CommandClosed, Dropped
<1>2. KnownOf(srv'[s]) \cap Connection \subseteq KnownOf(srv[s])
  BY DisconnectMoves
<1> QED  BY <1>1, <1>2, DisconnectMoves, ServerToRec

\* Connections that were not accepted are reset.
LEMMA CloseKeeps ==
    ASSUME ConnInv, NEW s \in Server, CloseSocket(s)
    PROVE  ConnInv'
<1> DEFINE q == srv[s]
           r == [q EXCEPT !.backlog = <<>>, !.at = "release"]
<1>0. Placed(q) /\ q \in ServerRecs
  BY DEF ConnInv, ServersPlaced, Placed
<1>1. srv' = [srv EXCEPT ![s] = r]
  BY DEF CloseSocket
<1>2. /\ r \in ServerRecs /\ r.backlog = <<>> /\ r.newconnections = q.newconnections
      /\ r.control = q.control /\ r.ui = q.ui /\ r.quit = q.quit
  BY <1>0, EmptyQueue DEF ServerRecs, ServerPlaces
<1> HIDE DEF q, r
<1>3. Placed(r) /\ KnownOf(r) \subseteq KnownOf(srv[s])
  BY <1>0, <1>2, EmptyQueue DEF Placed, KnownOf, Queues, q
<1>4. cl' = cl /\ unread' \subseteq unread /\ answered' = answered /\ sockname' = sockname
  BY DEF CloseSocket
<1> QED  BY <1>1, <1>3, <1>4, ServerToRec

LEMMA GoneKeeps ==
    ASSUME ConnInv, NEW s \in Server, Gone(s), cl' = cl, answered' = answered,
           sockname' \in {sockname, Stale}
    PROVE  ConnInv'
<1> DEFINE r == [NoServer EXCEPT !.hello = srv[s].hello]
<1>1. srv' = [srv EXCEPT ![s] = r] /\ unread' \subseteq unread
  BY DEF Gone
<1>2. srv[s].hello \in BOOLEAN
  BY DEF ConnInv, ServersPlaced, ServerRecs
<1>3. Placed(r)
  BY <1>2, PlacedNone
<1>4. KnownOf(r) \cap Connection = {}
  <2>1. r.backlog = <<>> /\ r.newconnections = <<>> /\ r.control = None /\ r.ui = None
    BY DEF NoServer
  <2> HIDE DEF r
  <2> QED  BY <2>1, EmptyQueue, NoneApart DEF KnownOf, Queues
<1> HIDE DEF r
<1> QED  BY <1>1, <1>3, <1>4, ServerToRec

LEMMA ServerStepKeeps ==
    ASSUME ConnInv, NEW s \in Server, ServerStep(s) \/ TimesOut(s) \/ ServerKilled(s)
    PROVE  ConnInv'
<1>1. CASE NobodyAwaits(s) \/ UnlockAndExit(s) \/ ServerKilled(s)
  BY <1>1, GoneKeeps DEF NobodyAwaits, UnlockAndExit, ServerKilled
<1>2. CASE LockAgain(s)
  BY <1>2, GoneKeeps, StillKeeps DEF LockAgain, StillStep
<1> QED  BY <1>1, <1>2, StillKeeps, AcceptKeeps, DisconnectKeeps, CloseKeeps
   DEF ServerStep, StillStep

-----------------------------------------------------------------------------
(* The steps of commands.                                                  *)

\* A command goes on to a place at which it has a connection only if it connects.
LEMMA ClientGoes ==
    ASSUME ConnInv, NEW c \in Client, NEW place \in ClientPlaces \ {"fatal"}, ClientAt(c, place),
           cl[c].at # "fatal", place \in NotYet => cl[c].at \in NotYet, srv' = srv
    PROVE  ServersPlaced' /\ OneKnows' /\ NoneAhead' /\ ClientsTry'
<1> DEFINE q == cl[c]
           r == [q EXCEPT !.at = place]
<1>1. q \in ClientRecs /\ q.tries < Retries /\ q.tries \in Nat
  BY DEF ConnInv, ClientsTry, ClientRecs
<1>2. cl' = [cl EXCEPT ![c] = r]
  BY DEF ClientAt
<1> HIDE DEF q
<1>3. r \in ClientRecs /\ r.at = place /\ r.tries = q.tries
  BY <1>1 DEF ClientRecs
<1> HIDE DEF r
<1>4. /\ r.at # "fatal" => r.tries < Retries
      /\ r.tries >= cl[c].tries /\ (r.at \in NotYet => r.tries > cl[c].tries \/ cl[c].at \in NotYet)
  BY <1>1, <1>3 DEF q
<1>5. \A s \in Server : KnownOf(srv'[s]) \cap Connection \subseteq KnownOf(srv[s])
  OBVIOUS
<1>6. NoneAhead' /\ ClientsTry'
  BY <1>2, <1>3, <1>4, <1>5, ClientChanges
<1> QED  BY <1>6 DEF ConnInv, ServersPlaced, OneKnows

LEMMA RetryCounts ==
    ASSUME ConnInv, NEW c \in Client, Retry(c), cl[c].at # "fatal", srv' = srv
    PROVE  ServersPlaced' /\ OneKnows' /\ NoneAhead' /\ ClientsTry'
<1> DEFINE n == cl[c].tries
           r == [at |-> IF n + 1 = Retries THEN "fatal" ELSE "try", tries |-> n + 1, server |-> None]
<1>1. n \in Nat /\ n < Retries
  BY DEF ConnInv, ClientsTry, ClientRecs
<1>2. cl' = [cl EXCEPT ![c] = r]
  BY DEF Retry
<1> HIDE DEF n
<1>3. n + 1 \in 0 .. Retries /\ n + 1 > n /\ (n + 1 # Retries => n + 1 < Retries)
  BY <1>1, ServerAssumption
<1>4. r \in ClientRecs /\ r.tries = n + 1 /\ (r.at # "fatal" => r.tries < Retries)
  BY <1>3 DEF ClientRecs, ClientPlaces
<1>5. r.tries >= n /\ r.tries > n
  BY <1>1, <1>3, <1>4
<1> HIDE DEF r
<1>6. \A s \in Server : KnownOf(srv'[s]) \cap Connection \subseteq KnownOf(srv[s])
  OBVIOUS
<1>7. NoneAhead' /\ ClientsTry'
  BY <1>2, <1>4, <1>5, <1>6, ClientChanges DEF n
<1> QED  BY <1>7 DEF ConnInv, ServersPlaced, OneKnows

LEMMA StartConnects ==
    ASSUME ConnInv, NEW c \in Client, StartServer(c)
    PROVE  ConnInv'
<1>1. PICK s \in Server :
        /\ srv' = [srv EXCEPT ![s] = [NoServer EXCEPT !.at = "boot"]]
        /\ cl' = [cl EXCEPT ![c].at = "wait", ![c].server = s]
  BY DEF StartServer
<1> DEFINE q == cl[c]
           r == [q EXCEPT !.at = "wait", !.server = s]
           new == [NoServer EXCEPT !.at = "boot"]
<1>2. Placed(new) /\ KnownOf(new) \cap Connection = {}
  <2>1. NoServer \in ServerRecs
    BY EmptyQueue DEF NoServer, ServerRecs, ServerPlaces
  <2>2. new \in ServerRecs
    BY <2>1 DEF ServerRecs, ServerPlaces
  <2>3. new.backlog = <<>> /\ new.newconnections = <<>> /\ new.control = None /\ new.ui = None
    BY DEF NoServer
  <2> HIDE DEF new
  <2> QED  BY <2>2, <2>3, EmptyQueue, NoneApart DEF Placed, KnownOf, Queues
<1>3. srv' = [srv EXCEPT ![s] = new]
  BY <1>1
<1> HIDE DEF new
<1>4. ServersPlaced' /\ OneKnows' /\ \A t \in Server : KnownOf(srv'[t]) \cap Connection \subseteq KnownOf(srv[t])
  BY <1>2, <1>3, ServerChanges
<1>5. q \in ClientRecs /\ q.at = "got" /\ q.tries < Retries /\ q.tries \in Nat
  BY DEF StartServer, ConnInv, ClientsTry, ClientRecs
<1>6. cl' = [cl EXCEPT ![c] = r]
  BY <1>1
<1> HIDE DEF q
<1>7. r \in ClientRecs /\ r.at = "wait" /\ r.tries = q.tries
  BY <1>5 DEF ClientRecs, ClientPlaces
<1> HIDE DEF r
<1>8. /\ r.at # "fatal" => r.tries < Retries
      /\ r.tries >= cl[c].tries /\ (r.at \in NotYet => r.tries > cl[c].tries \/ cl[c].at \in NotYet)
  BY <1>5, <1>7 DEF q, NotYet
<1>9. NoneAhead' /\ ClientsTry'
  BY <1>4, <1>6, <1>7, <1>8, ClientChanges
<1> QED  BY <1>4, <1>9 DEF StartServer, ConnInv, RestTypes

\* No server knows the connection of this attempt before it is made.
LEMMA ConnectPlaces ==
    ASSUME ConnInv, NEW c \in Client, Connect(c)
    PROVE  ConnInv'
<1> DEFINE k == Current(c)
<1>1. PICK s \in Server : srv' = [srv EXCEPT ![s].backlog = Append(@, k)]
  BY DEF Connect
<1> DEFINE q == srv[s]
           longer == Append(q.backlog, k)
           r == [q EXCEPT !.backlog = longer]
           d == [cl[c] EXCEPT !.at = "send"]
<1>2. /\ cl[c] \in ClientRecs /\ cl[c].at = "connect" /\ cl[c].tries \in 0 .. Retries /\ cl[c].tries < Retries
      /\ cl \in [Client -> ClientRecs] /\ cl' = [cl EXCEPT ![c].at = "send"]
  BY DEF Connect, ClientAt, ConnInv, ClientsTry, ClientRecs
<1>3. k \in Connection /\ k[1] = c /\ k[2] = cl[c].tries
  BY <1>2 DEF Connection, Current
<1>4. \A t \in Server : k \notin KnownOf(srv[t])
  <2> SUFFICES ASSUME NEW t \in Server, k \in KnownOf(srv[t]) PROVE FALSE
    OBVIOUS
  <2>1. cl[c].tries < cl[c].tries
    BY <1>2, <1>3 DEF ConnInv, NoneAhead, NotYet
  <2> QED  BY <1>2, <2>1
<1>5. Placed(q) /\ q \in ServerRecs /\ q.backlog \in Seq(Connection)
  BY DEF ConnInv, ServersPlaced, Placed, ServerRecs
<1>6. srv' = [srv EXCEPT ![s] = r]
  BY <1>1
<1>7. k \notin KnownOf(q)
  BY <1>4
<1>8. cl'[c].at = "send" /\ cl'[c].tries = cl[c].tries /\ cl'[c] \in ClientRecs /\ cl' \in [Client -> ClientRecs]
      /\ \A e \in Client \ {c} : cl'[e] = cl[e]
  <2>1. d \in ClientRecs /\ d.at = "send" /\ d.tries = cl[c].tries
    BY <1>2 DEF ClientRecs, ClientPlaces, OpenPlaces
  <2>2. cl' = [cl EXCEPT ![c] = d]
    BY <1>2
  <2> HIDE DEF d
  <2> QED  BY <1>2, <2>1, <2>2
<1> HIDE DEF k, q, d
<1>9. /\ longer \in Seq(Connection) /\ Range(longer) = Range(q.backlog) \cup {k}
      /\ IsInjective(q.backlog) /\ k \notin Range(q.backlog) => IsInjective(longer)
  BY <1>3, <1>5, QueueAppend
<1> HIDE DEF longer
<1>10. /\ r \in ServerRecs /\ r.backlog = longer /\ r.newconnections = q.newconnections
       /\ r.control = q.control /\ r.ui = q.ui /\ r.quit = q.quit
  BY <1>5, <1>9 DEF ServerRecs
<1> HIDE DEF r
<1>11. Placed(r) /\ KnownOf(r) = KnownOf(q) \cup {k}
  BY <1>5, <1>7, <1>9, <1>10 DEF Placed, KnownOf, Queues
<1>12. srv' \in [Server -> ServerRecs] /\ srv'[s] = r /\ \A t \in Server \ {s} : srv'[t] = srv[t]
  BY <1>6, <1>10 DEF ConnInv, ServersPlaced
<1>13. ServersPlaced'
  BY <1>11, <1>12 DEF ConnInv, ServersPlaced
<1>14. \A t \in Server : KnownOf(srv'[t]) = IF t = s THEN KnownOf(srv[t]) \cup {k} ELSE KnownOf(srv[t])
  BY <1>11, <1>12 DEF q
<1>15. OneKnows'
  <2> SUFFICES ASSUME NEW t \in Server, NEW u \in Server, NEW x \in Connection,
                      x \in KnownOf(srv'[t]), x \in KnownOf(srv'[u])
               PROVE  t = u
    BY DEF OneKnows
  <2>1. CASE x = k
    BY <1>4, <1>14, <2>1
  <2>2. CASE x # k
    <3>1. x \in KnownOf(srv[t]) /\ x \in KnownOf(srv[u])
      <4>1. \A v \in Server : KnownOf(srv'[v]) \subseteq KnownOf(srv[v]) \cup {k}
        BY <1>14
      <4> QED  BY <2>2, <4>1
    <3> QED  BY <3>1 DEF ConnInv, OneKnows
  <2> QED  BY <2>1, <2>2
<1>16. NoneAhead'
  <2> SUFFICES ASSUME NEW t \in Server, NEW x \in KnownOf(srv'[t]) \cap Connection
               PROVE  x[2] <= cl'[x[1]].tries /\ (cl'[x[1]].at \in NotYet => x[2] < cl'[x[1]].tries)
    BY DEF NoneAhead
  <2>1. CASE x = k
    BY <1>2, <1>3, <1>8, <2>1 DEF NotYet
  <2>2. CASE x # k
    <3>0. x \in KnownOf(srv'[t]) /\ x \in Connection
      OBVIOUS
    <3>1. x \in KnownOf(srv[t])
      <4>1. KnownOf(srv'[t]) \subseteq KnownOf(srv[t]) \cup {k}
        BY <1>14
      <4> QED  BY <2>2, <3>0, <4>1
    <3>2. x[2] <= cl[x[1]].tries /\ (cl[x[1]].at \in NotYet => x[2] < cl[x[1]].tries)
      BY <3>0, <3>1 DEF ConnInv, NoneAhead
    <3>3. x[1] \in Client
      BY DEF Connection
    <3>4. CASE x[1] = c
      BY <1>8, <3>2, <3>4 DEF NotYet
    <3>5. CASE x[1] # c
      BY <1>8, <3>2, <3>3, <3>5
    <3> QED  BY <3>4, <3>5
  <2> QED  BY <2>1, <2>2
<1>17. ClientsTry'
  BY <1>2, <1>8 DEF ConnInv, ClientsTry
<1> QED  BY <1>13, <1>15, <1>16, <1>17 DEF Connect, ConnInv, RestTypes

LEMMA ClientStepKeeps ==
    ASSUME ConnInv, NEW c \in Client, ClientStep(c) \/ ClientKilled(c)
    PROVE  ConnInv'
<1> USE DEF NotYet, ClientPlaces, OpenPlaces
<1>1. CASE NotStarted(c) \/ PollGivesUp(c) \/ UnlockPolled(c) \/ ConnectFails(c) \/ NotAnswered(c)
  <2>1. /\ Retry(c) /\ cl[c].at # "fatal" /\ srv' = srv
        /\ sockname' = sockname /\ unread' = unread /\ answered' = answered
    BY <1>1 DEF NotStarted, PollGivesUp, UnlockPolled, ConnectFails, NotAnswered
  <2> QED  BY <2>1, RetryCounts DEF ConnInv, RestTypes
<1>2. CASE LockBitbake(c) \/ NotRunning(c) \/ Started(c) \/ LookForSocket(c) \/ PollGetsLock(c)
             \/ Answered(c) \/ ClientKilled(c)
  <2>1. \E place \in ClientPlaces \ {"fatal"} :
          ClientAt(c, place) /\ cl[c].at # "fatal" /\ (place \in NotYet => cl[c].at \in NotYet)
    <3>1. CASE LockBitbake(c) \/ NotRunning(c) \/ PollGetsLock(c) \/ Answered(c)
      BY <3>1 DEF LockBitbake, NotRunning, PollGetsLock, Answered
    <3>2. CASE Started(c)
      BY <3>2 DEF Started
    <3>3. CASE LookForSocket(c)
      BY <3>3 DEF LookForSocket
    <3>4. CASE ClientKilled(c)
      BY <3>4 DEF ClientKilled, Ended
    <3> QED  BY <1>2, <3>1, <3>2, <3>3, <3>4
  <2>2. srv' = srv /\ sockname' = sockname /\ unread' = unread /\ answered' = answered
    BY <1>2 DEF LockBitbake, NotRunning, Started, LookForSocket, PollGetsLock, Answered,
       ClientKilled
  <2> QED  BY <2>1, <2>2, ClientGoes DEF ConnInv, RestTypes
<1>3. CASE SendFds(c) \/ Terminate(c)
  <2>1. \E place \in {"reply", "done"} : ClientAt(c, place) /\ cl[c].at \in {"send", "use"}
    BY <1>3 DEF SendFds, Terminate
  <2>2. ServersPlaced' /\ OneKnows' /\ NoneAhead' /\ ClientsTry'
    BY <1>3, <2>1, ClientGoes DEF SendFds, Terminate
  <2>3. Current(c) \in Connection
    BY DEF Current, Connection, ConnInv, ClientsTry, ClientRecs
  <2>4. RestTypes'
    BY <1>3, <2>3 DEF SendFds, Terminate, ConnInv, RestTypes, Messages
  <2> QED  BY <2>2, <2>4 DEF ConnInv
<1> QED  BY <1>1, <1>2, <1>3, StartConnects, ConnectPlaces DEF ClientStep

-----------------------------------------------------------------------------
(* Nobody is forgotten.                                                    *)

LEMMA ConnInit == Init => ConnInv
<1> SUFFICES ASSUME Init PROVE ConnInv
  OBVIOUS
<1>1. Placed(NoServer) /\ KnownOf(NoServer) \cap Connection = {}
  <2>1. NoServer \in ServerRecs
    BY EmptyQueue DEF NoServer, ServerRecs, ServerPlaces
  <2>2. NoServer.backlog = <<>> /\ NoServer.newconnections = <<>> /\ NoServer.control = None /\ NoServer.ui = None
    BY DEF NoServer
  <2> QED  BY <2>1, <2>2, EmptyQueue, NoneApart DEF Placed, KnownOf, Queues
<1>2. ServersPlaced /\ OneKnows /\ NoneAhead
  BY <1>1 DEF Init, ServersPlaced, OneKnows, NoneAhead, Placed
<1>3. ClientsTry
  <2>1. scene.failed \in 0 .. Retries - 1
    BY ServerAssumption DEF Init, SceneType
  <2>2. scene.failed \in 0 .. Retries /\ scene.failed < Retries
    BY <2>1, ServerAssumption
  <2> QED  BY <2>2 DEF Init, ClientsTry, ClientRecs, ClientPlaces
<1> QED  BY <1>2, <1>3 DEF Init, ConnInv, RestTypes

LEMMA ConnNext == ConnInv /\ [Next]_vars => ConnInv'
<1> SUFFICES ASSUME ConnInv, [Next]_vars PROVE ConnInv'
  OBVIOUS
<1>1. CASE UNCHANGED vars
  BY <1>1 DEF vars, ConnInv, ServersPlaced, OneKnows, NoneAhead, ClientsTry, RestTypes
<1> QED  BY <1>1, ClientStepKeeps, ServerStepKeeps DEF Next

LEMMA ConnAlways == Spec => []ConnInv
BY ConnInit, ConnNext, PTL DEF Spec

-----------------------------------------------------------------------------
(* A scene in which nobody is killed and nobody gives up.                   *)

\* Nobody is killed, and everybody waits long enough.
Calm == scene.patient /\ scene.kills = 0

ScenePlayed == scene \in Scenes /\ killed \in Nat

Coming == {"boot", "bound", "cooker"}

\* The server takes connections, and will answer them.
Lives(s) == srv[s].at = "cooker" \/ (srv[s].at \in LoopPlaces /\ ~srv[s].quit)

\* Whoever has the lock is where the lock is had.
OnlyHolders ==
    /\ \A c \in Client : Has(c) => cl[c].at \in {"got", "unlock"}
    /\ \A s \in Server : Has(s) => srv[s].at \notin Lockless

\* A server that has not sent its "r" is awaited, and whoever awaits one gets it.
ParentsWait ==
    /\ \A s \in Server : srv[s].at \in Coming => ~srv[s].hello /\ ~srv[s].quit /\ AwaitedBy(s) # {}
    /\ \A c \in Client : cl[c].at = "wait" =>
          cl[c].server \in Server /\ (srv[cl[c].server].hello \/ srv[cl[c].server].at \in Coming)

Users == {"ui", "kill", "status"}

\* Of connections servers know the client has them open or is done with them: it gives
\* up none.
KnownUsed ==
    /\ \A s \in Server : \A k \in KnownOf(srv[s]) \cap Connection :
          k = Current(k[1]) /\ cl[k[1]].at \in OpenPlaces \cup {"done"} /\ scene.does[k[1]] \in Users
    /\ \A c \in Client : cl[c].at \in {"connect"} \cup OpenPlaces => scene.does[c] \in Users
    /\ \A c \in Client : cl[c].at # "done" => scene.does[c] # "nothing"

\* A process that has ended knows none.
GoneKnows == \A s \in Server : srv[s].at = "none" => KnownOf(srv[s]) \cap Connection = {}

\* What is unread was said in this connection, which a server knows.
UnreadKnown ==
    \A u \in unread :
        /\ \E s \in Server : u[1] \in KnownOf(srv[s])
        /\ cl[u[1][1]].at # "send"
        /\ u[2] = "terminateServer" => scene.does[u[1][1]] = "kill" /\ cl[u[1][1]].at = "done"

\* A UI has passed its files, which are read once.
UIsRead ==
    \A s \in Server : HaveUI(s) => <<srv[s].ui, "fds">> \notin unread /\ cl[srv[s].ui[1]].at # "send"

\* What the select found is still so when its turn comes.
ReadyRight ==
    \A s \in Server :
        /\ srv[s].at = "control" \/ (srv[s].at = "accept" /\ "control" \in srv[s].ready) => ControlReadable(s)
        /\ srv[s].at \in {"accept", "control"} /\ "command" \in srv[s].ready => CommandReadable(s)
        /\ srv[s].at = "command" /\ "command" \in srv[s].ready /\ HaveUI(s) => CommandReadable(s)

CalmInv == ParentsWait /\ KnownUsed /\ GoneKnows /\ UnreadKnown /\ UIsRead /\ ReadyRight

\* The commands that no server will end for any more.
Spent ==
    {d \in Enders(scene) :
        cl[d].at = "done" /\ \A s \in Server : Current(d) \in KnownOf(srv[s]) => srv[s].quit}

\* The attempt does not fail unless a server ends.
GoesWell(c) ==
    \/ cl[c].at \in {"try", "got", "use"}
    \/ cl[c].at = "wait" /\ (srv[cl[c].server].at \in Coming \/ Lives(cl[c].server))
    \/ cl[c].at \in {"look", "connect"} /\ \E s \in Server : Lives(s)
    \/ cl[c].at \in {"send", "reply"} /\ \E s \in Server : Lives(s) /\ Current(c) \in KnownOf(srv[s])

\* The attempts that have failed already, or follow each other at once.
Rushed == IF scene.failed > Hurried THEN scene.failed ELSE Hurried

\* Attempts that fail, or are about to, are paid for by commands that are spent.
Paid(c) ==
    \/ cl[c].tries < Rushed + Cardinality(Spent)
    \/ cl[c].tries = Rushed + Cardinality(Spent) /\ GoesWell(c)

AttemptsPaid == \A c \in Client : cl[c].at \notin Ended => Paid(c)

-----------------------------------------------------------------------------
(* Who has the lock.                                                       *)

\* Nobody gets the lock but who asks for it, or is given it.
LEMMA LockMoves ==
    ASSUME HoldInv, NEW p \in Client \cup Server
    PROVE  /\ TryLock(p) => \A q \in Client \cup Server : Has(q)' => Has(q) \/ q = p
           /\ Lock!Release(BitbakeLock, p) \/ Lock!Gone(p)
                  => \A q \in Client \cup Server : Has(q)' => Has(q) /\ q # p
           /\ \A r \in Client \cup Server : Lock!HandOver(BitbakeLock, p, r)
                  => \A q \in Client \cup Server : Has(q)' => (Has(q) /\ q # p) \/ q = r
BY DEF HoldInv, Shape, Has, TryLock, Lock!Acquire, Lock!Release, Lock!Gone, Lock!HandOver

LEMMA HoldersInit == Init => OnlyHolders
BY DEF Init, Lock!Init, OnlyHolders, Has

LEMMA HoldersNext == ServerInv /\ ConnInv /\ OnlyHolders /\ [Next]_vars => OnlyHolders'
<1> SUFFICES ASSUME ServerInv, ConnInv, OnlyHolders, [Next]_vars PROVE OnlyHolders'
  OBVIOUS
<1> USE DEF Lockless
<1>0. HoldInv /\ Shape
  BY DEF ServerInv, HoldInv
<1>1. CASE UNCHANGED vars
  BY <1>1 DEF vars, OnlyHolders, Has
<1>2. ASSUME NEW c \in Client, ClientStep(c) \/ ClientKilled(c) PROVE OnlyHolders'
  <2>1. CASE StartServer(c)
    <3>1. PICK s \in Server :
            /\ Lock!HandOver(BitbakeLock, c, s)
            /\ srv' = [srv EXCEPT ![s] = [NoServer EXCEPT !.at = "boot"]]
            /\ cl' = [cl EXCEPT ![c].at = "wait", ![c].server = s]
      BY <2>1 DEF StartServer
    <3>2. srv'[s].at = "boot" /\ \A t \in Server \ {s} : srv'[t] = srv[t]
      BY <1>0, <3>1 DEF Shape, NoServer
    <3>3. \A d \in Client \ {c} : cl'[d] = cl[d]
      BY <1>0, <3>1 DEF Shape
    <3>4. \A q \in Client \cup Server : Has(q)' => (Has(q) /\ q # c) \/ q = s
      BY <1>0, <3>1, LockMoves
    <3> QED  BY <3>2, <3>3, <3>4, ServerAssumption DEF OnlyHolders
  <2>2. CASE Connect(c)
    <3>1. hold' = hold /\ \A t \in Server : srv'[t].at = srv[t].at
      BY <2>2, <1>0 DEF Connect, Shape
    <3>2. cl[c].at = "connect" /\ \A d \in Client \ {c} : cl'[d] = cl[d]
      BY <1>0, <2>2, ClientAtMoves DEF Connect
    <3> QED  BY <3>1, <3>2 DEF OnlyHolders, Has
  <2>3. CASE LockBitbake(c) \/ PollGetsLock(c)
    <3>1. srv' = srv /\ cl[c].at \in {"try", "poll"}
      BY <2>3 DEF LockBitbake, PollGetsLock
    <3>2. \A d \in Client \ {c} : cl'[d] = cl[d]
      BY <1>0, <2>3, ClientAtMoves DEF LockBitbake, PollGetsLock
    <3>3. hold' = hold \/ (TryLock(c) /\ cl'[c].at \in {"got", "unlock"})
      BY <1>0, <2>3, ClientAtMoves DEF LockBitbake, PollGetsLock
    <3>4. \A q \in Client \cup Server : Has(q)' => Has(q) \/ (q = c /\ cl'[c].at \in {"got", "unlock"})
      BY <1>0, <3>3, LockMoves DEF Has
    <3> QED  BY <3>1, <3>2, <3>4, ServerAssumption DEF OnlyHolders
  <2>4. CASE NotRunning(c) \/ UnlockPolled(c) \/ ClientKilled(c)
    <3>1. srv' = srv /\ (Lock!Release(BitbakeLock, c) \/ Lock!Gone(c))
      BY <2>4 DEF NotRunning, UnlockPolled, ClientKilled
    <3>2. \A d \in Client \ {c} : cl'[d] = cl[d]
      BY <1>0, <2>4, ClientAtMoves, RetryMoves DEF NotRunning, UnlockPolled, ClientKilled
    <3>3. \A q \in Client \cup Server : Has(q)' => Has(q) /\ q # c
      BY <1>0, <3>1, LockMoves
    <3> QED  BY <3>1, <3>2, <3>3 DEF OnlyHolders
  <2>5. CASE Started(c) \/ NotStarted(c) \/ LookForSocket(c) \/ PollGivesUp(c) \/ ConnectFails(c)
               \/ SendFds(c) \/ Answered(c) \/ NotAnswered(c) \/ Terminate(c)
    <3>1. srv' = srv /\ hold' = hold /\ cl[c].at \notin {"got", "unlock"}
      BY <2>5 DEF Started, NotStarted, LookForSocket, PollGivesUp, ConnectFails, SendFds, Answered,
         NotAnswered, Terminate
    <3>2. \A d \in Client \ {c} : cl'[d] = cl[d]
      BY <1>0, <2>5, ClientAtMoves, RetryMoves DEF Started, NotStarted, LookForSocket, PollGivesUp,
         ConnectFails, SendFds, Answered, NotAnswered, Terminate
    <3> QED  BY <3>1, <3>2 DEF OnlyHolders, Has
  <2> QED  BY <1>2, <2>1, <2>2, <2>3, <2>4, <2>5 DEF ClientStep
<1>3. ASSUME NEW s \in Server, ServerStep(s) \/ TimesOut(s) \/ ServerKilled(s) PROVE OnlyHolders'
  <2>1. CASE Bind(s) \/ UnlinkSocket(s)
    <3>1. /\ hold' = hold /\ cl' = cl /\ \A t \in Server \ {s} : srv'[t] = srv[t]
          /\ srv'[s].at \notin Lockless
      BY <1>0, <2>1 DEF Bind, UnlinkSocket, ServerAt, Shape
    <3> QED  BY <3>1 DEF OnlyHolders, Has
  <2>2. CASE Quiet(s)
    <3>1. /\ hold' = hold /\ cl' = cl /\ \A t \in Server \ {s} : srv'[t] = srv[t]
      BY <1>0, <2>2, QuietSteps
    <3>2. srv'[s].at \notin Lockless
      <4>1. CASE Accept(s)
        BY <4>1, AcceptKeeps
      <4>2. CASE ControlClosed(s) \/ CommandClosed(s)
        <5>1. PICK after \in Disconnected(s), place \in {"command", "select"} :
                srv' = [srv EXCEPT ![s] = [after EXCEPT !.at = place]]
          BY <4>2 DEF ControlClosed, CommandClosed
        <5>2. "at" \in DOMAIN after
          BY <1>0, DisconnectedShape DEF Shape
        <5> QED  BY <1>0, <5>1, <5>2 DEF Shape
      <4>3. CASE Listen(s) \/ SendReady(s) \/ NoCommand(s) \/ RunCommand(s)
        BY <1>0, <4>3 DEF Listen, SendReady, NoCommand, RunCommand, ServerAt, Shape
      <4>5. CASE Select(s)
        <5>1. PICK ready \in Selected(s) : srv' = [srv EXCEPT ![s].ready = ready, ![s].at = "accept"]
          BY <4>5 DEF Select
        <5> QED  BY <1>0, <5>1 DEF Shape
      <4>6. CASE RecvFds(s)
        BY <1>0, <4>6 DEF RecvFds, Shape
      <4>4. CASE TerminateServer(s) \/ IdleTimesOut(s) \/ TimesOut(s) \/ LeaveLoop(s) \/ Stat(s) \/ CloseSocket(s)
        BY <1>0, <4>4 DEF TerminateServer, IdleTimesOut, TimesOut, LeaveLoop, Stat, CloseSocket, ServerAt, Shape
      <4> QED  BY <2>2, <4>1, <4>2, <4>3, <4>4, <4>5, <4>6 DEF Quiet
    <3> QED  BY <3>1, <3>2 DEF OnlyHolders, Has
  <2>3. CASE ReleaseLock(s) \/ UnlockAndExit(s) \/ NobodyAwaits(s) \/ ServerKilled(s)
    <3>1. cl' = cl /\ (Lock!Release(BitbakeLock, s) \/ Lock!Gone(s))
      BY <2>3 DEF ReleaseLock, UnlockAndExit, NobodyAwaits, ServerKilled
    <3>2. \A t \in Server \ {s} : srv'[t] = srv[t]
      BY <1>0, <2>3 DEF ReleaseLock, UnlockAndExit, NobodyAwaits, ServerKilled, Gone, ServerAt, Shape
    <3>3. \A q \in Client \cup Server : Has(q)' => Has(q) /\ q # s
      BY <1>0, <3>1, LockMoves
    <3> QED  BY <3>1, <3>2, <3>3 DEF OnlyHolders
  <2>4. CASE LockAgain(s)
    <3>1. cl' = cl /\ srv[s].at = "again" /\ \A t \in Server \ {s} : srv'[t] = srv[t]
      BY <1>0, <2>4 DEF LockAgain, Gone, ServerAt, Shape
    <3>2. CASE TryLock(s) /\ ServerAt(s, "unlock")
      <4>1. srv'[s].at = "unlock"
        BY <1>0, <3>2 DEF ServerAt, Shape
      <4>2. \A q \in Client \cup Server : Has(q)' => Has(q) \/ q = s
        BY <1>0, <3>2, LockMoves
      <4> QED  BY <3>1, <4>1, <4>2, ServerAssumption DEF OnlyHolders
    <3>3. CASE hold' = hold
      BY <3>1, <3>3 DEF OnlyHolders, Has
    <3> QED  BY <2>4, <3>2, <3>3 DEF LockAgain
  <2> QED  BY <1>3, <2>1, <2>2, <2>3, <2>4 DEF ServerStep, Quiet
<1> QED  BY <1>1, <1>2, <1>3 DEF Next

-----------------------------------------------------------------------------
(* The steps of servers in a calm scene.                                   *)

\* What all steps of a server have in common, but for one whose parent is gone.
LEMMA ServerTurns ==
    ASSUME ConnInv, NEW s \in Server, ServerStep(s) \/ TimesOut(s), ~NobodyAwaits(s)
    PROVE  /\ cl' = cl /\ scene' = scene /\ killed' = killed
           /\ \A t \in Server \ {s} : srv'[t] = srv[t]
           /\ KnownOf(srv'[s]) \cap Connection \subseteq KnownOf(srv[s])
           /\ unread' \subseteq unread /\ \A u \in unread \ unread' : u[1] \in KnownOf(srv[s])
           /\ srv'[s].at \in Coming =>
                  srv[s].at \in Coming /\ srv'[s].hello = srv[s].hello /\ srv'[s].quit = srv[s].quit
           /\ srv[s].hello => srv'[s].hello
           /\ srv[s].at \in Coming =>
                  \/ srv'[s].at \in Coming
                  \/ srv'[s].hello /\ srv'[s].at = "select" /\ srv'[s].quit = srv[s].quit
<1> USE DEF Coming
<1>0. srv \in [Server -> ServerRecs] /\ Placed(srv[s])
  BY DEF ConnInv, ServersPlaced
<1>1. CASE StillStep(s)
  <2>1. /\ cl' = cl /\ scene' = scene /\ killed' = killed /\ unread' \subseteq unread
    BY <1>1 DEF StillStep, Bind, Listen, SendReady, Select, RecvFds, NoCommand, RunCommand,
       TerminateServer, IdleTimesOut, TimesOut, LeaveLoop, Stat, UnlinkSocket, ReleaseLock, LockAgain, Dropped
  <2>2. \A u \in unread \ unread' : u[1] \in {srv[s].control, srv[s].ui}
    BY <1>1 DEF StillStep, Bind, Listen, SendReady, Select, RecvFds, NoCommand, RunCommand,
       TerminateServer, IdleTimesOut, TimesOut, LeaveLoop, Stat, UnlinkSocket, ReleaseLock, LockAgain, Dropped
  <2>3. \A t \in Server \ {s} : srv'[t] = srv[t]
    BY <1>0, <1>1, StillRec
  <2>4. KnownOf(srv'[s]) \cap Connection \subseteq KnownOf(srv[s])
    BY <1>0, <1>1, StillRec, PlacedStill
  <2>5. /\ srv'[s].at \in Coming =>
               srv[s].at \in Coming /\ srv'[s].hello = srv[s].hello /\ srv'[s].quit = srv[s].quit
        /\ srv[s].hello => srv'[s].hello
        /\ srv[s].at \in Coming =>
               \/ srv'[s].at \in Coming
               \/ srv'[s].hello /\ srv'[s].at = "select" /\ srv'[s].quit = srv[s].quit
    <3>1. CASE Bind(s) \/ Listen(s)
      BY <1>0, <3>1 DEF Bind, Listen, ServerAt, ServerRecs
    <3>5. CASE SendReady(s)
      BY <1>0, <3>5 DEF SendReady, ServerRecs
    <3>6. CASE Select(s)
      <4>1. PICK ready \in Selected(s) : srv' = [srv EXCEPT ![s].ready = ready, ![s].at = "accept"] /\ srv[s].at = "select"
        BY <3>6 DEF Select
      <4> QED  BY <1>0, <4>1 DEF ServerRecs
    <3>8. CASE RecvFds(s)
      BY <1>0, <3>8 DEF RecvFds, ServerRecs
    <3>2. CASE NoCommand(s) \/ RunCommand(s) \/ TerminateServer(s) \/ IdleTimesOut(s) \/ TimesOut(s)
      BY <1>0, <3>2 DEF NoCommand, RunCommand, TerminateServer, IdleTimesOut, TimesOut, ServerAt, ServerRecs
    <3>3. CASE LeaveLoop(s)
      BY <1>0, <3>3 DEF LeaveLoop, ServerAt, ServerRecs
    <3>9. CASE UnlinkSocket(s)
      BY <1>0, <3>9 DEF UnlinkSocket, ServerAt, ServerRecs
    <3>10. CASE ReleaseLock(s)
      BY <1>0, <3>10 DEF ReleaseLock, ServerAt, ServerRecs
    <3>7. CASE Stat(s)
      <4>1. PICK place \in {"unlink", "close"} : ServerAt(s, place) /\ srv[s].at = "stat"
        BY <3>7 DEF Stat
      <4> QED  BY <1>0, <4>1 DEF ServerAt, ServerRecs
    <3>4. CASE LockAgain(s) /\ ServerAt(s, "unlock")
      BY <1>0, <3>4 DEF LockAgain, ServerAt, ServerRecs
    <3> QED  BY <1>1, <3>1, <3>2, <3>3, <3>4, <3>5, <3>6, <3>7, <3>8, <3>9, <3>10 DEF StillStep
  <2> QED  BY <2>1, <2>2, <2>3, <2>4, <2>5 DEF KnownOf
<1>2. CASE Accept(s)
  <2>1. cl' = cl /\ scene' = scene /\ killed' = killed /\ unread' = unread /\ srv[s].at = "accept"
    BY <1>2 DEF Accept
  <2> QED  BY <1>0, <1>2, <2>1, AcceptKeeps
<1>3. CASE ControlClosed(s) \/ CommandClosed(s)
  <2>1. /\ cl' = cl /\ scene' = scene /\ killed' = killed /\ unread' \subseteq unread
        /\ \A u \in unread \ unread' : u[1] \in {srv[s].control, srv[s].ui}
        /\ srv[s].at \in {"control", "command"}
    BY <1>3 DEF ControlClosed, CommandClosed, Dropped
  <2>2. KnownOf(srv'[s]) \cap Connection \subseteq KnownOf(srv[s])
    BY <1>3, DisconnectMoves
  <2>3. srv'[s].hello = srv[s].hello /\ srv'[s].at \in {"command", "select"}
    BY <1>3, DisconnectMoves
  <2>4. \A t \in Server \ {s} : srv'[t] = srv[t]
    BY <1>0, <1>3, DisconnectMoves
  <2> QED  BY <2>1, <2>2, <2>3, <2>4 DEF KnownOf
<1>4. CASE CloseSocket(s)
  <2> DEFINE q == srv[s]
             r == [q EXCEPT !.backlog = <<>>, !.at = "release"]
  <2>1. srv' = [srv EXCEPT ![s] = r]
    BY <1>4 DEF CloseSocket
  <2>2. /\ r.backlog = <<>> /\ r.newconnections = q.newconnections /\ r.at = "release"
        /\ r.control = q.control /\ r.ui = q.ui /\ r.hello = q.hello /\ r.quit = q.quit
    BY <1>0 DEF ServerRecs
  <2> HIDE DEF r
  <2>3. srv'[s] = r /\ \A t \in Server \ {s} : srv'[t] = srv[t]
    BY <1>0, <2>1
  <2>4. /\ cl' = cl /\ scene' = scene /\ killed' = killed /\ unread' \subseteq unread /\ q.at = "close"
        /\ \A u \in unread \ unread' : u[1] \in Range(q.backlog)
    BY <1>4 DEF CloseSocket
  <2> QED  BY <2>2, <2>3, <2>4, EmptyQueue DEF KnownOf, Queues
<1>5. CASE UnlockAndExit(s) \/ (LockAgain(s) /\ Gone(s))
  <2> DEFINE r == [NoServer EXCEPT !.hello = srv[s].hello]
  <2>1. srv' = [srv EXCEPT ![s] = r] /\ unread' = {u \in unread : ~Knows(s, u[1])}
    BY <1>5 DEF UnlockAndExit, Gone
  <2>2. /\ r.at = "none" /\ r.hello = srv[s].hello /\ r.backlog = <<>> /\ r.newconnections = <<>>
        /\ r.control = None /\ r.ui = None
    BY DEF NoServer
  <2> HIDE DEF r
  <2>3. srv'[s] = r /\ \A t \in Server \ {s} : srv'[t] = srv[t]
    BY <1>0, <2>1
  <2>4. cl' = cl /\ scene' = scene /\ killed' = killed /\ srv[s].at \in {"unlock", "again"}
    BY <1>5 DEF UnlockAndExit, LockAgain
  <2>5. KnownOf(r) \cap Connection = {}
    BY <2>2, EmptyQueue, NoneApart DEF KnownOf, Queues
  <2> QED  BY <2>1, <2>2, <2>3, <2>4, <2>5, KnowsIs
<1>6. LockAgain(s) => (LockAgain(s) /\ ServerAt(s, "unlock") /\ UNCHANGED unread) \/ (LockAgain(s) /\ Gone(s))
  BY DEF LockAgain
<1> QED  BY <1>1, <1>2, <1>3, <1>4, <1>5, <1>6 DEF ServerStep, StillStep

\* Somebody awaits a server that has not sent its "r", so it does not end early.
LEMMA ServerAwaited ==
    ASSUME ConnInv, ParentsWait, NEW s \in Server, ServerStep(s) \/ TimesOut(s)
    PROVE  ~NobodyAwaits(s) /\ ParentsWait'
<1>0. srv \in [Server -> ServerRecs]
  BY DEF ConnInv, ServersPlaced
<1>1. ~NobodyAwaits(s)
  BY DEF NobodyAwaits, ParentsWait, Coming
<1>2. \A t \in Server : AwaitedBy(t)' = AwaitedBy(t)
  BY <1>1, ServerTurns DEF AwaitedBy
<1> QED  BY <1>1, <1>2, ServerTurns DEF ParentsWait

\* Servers come to know no connection but those made.
LEMMA ServerKnowsUsed ==
    ASSUME ConnInv, KnownUsed, NEW s \in Server, ServerStep(s) \/ TimesOut(s), ~NobodyAwaits(s)
    PROVE  KnownUsed'
<1>1. \A t \in Server : KnownOf(srv'[t]) \cap Connection \subseteq KnownOf(srv[t])
  BY ServerTurns
<1> QED  BY <1>1, ServerTurns DEF KnownUsed, Current

\* What a connection is dropped with is no longer unread.
LEMMA ServerReads ==
    ASSUME ConnInv, UnreadKnown, NEW s \in Server, ServerStep(s) \/ TimesOut(s), ~NobodyAwaits(s)
    PROVE  UnreadKnown'
<1>0. /\ srv \in [Server -> ServerRecs] /\ Placed(srv[s]) /\ srv[s].ui \in {None, srv[s].control}
      /\ unread \subseteq Connection \X Messages
  BY DEF ConnInv, ServersPlaced, Placed, RestTypes
<1>1. ASSUME NEW u \in unread', u[1] \in KnownOf(srv[s]) PROVE u[1] \in KnownOf(srv'[s])
  <2>0. u \in unread /\ u[1] \in Connection /\ u[2] \in Messages /\ u = <<u[1], u[2]>>
    BY <1>0, ServerTurns
  <2>1. CASE StillStep(s)
    <3>1. srv'[s].backlog = srv[s].backlog /\ srv'[s].newconnections = srv[s].newconnections
          /\ srv'[s].control = srv[s].control
      BY <2>1, StillRec
    <3> QED  BY <1>0, <1>1, <2>0, <3>1, NoneApart DEF KnownOf, Queues
  <2>2. CASE Accept(s)
    BY <1>1, <2>0, <2>2, AcceptKeeps
  <2>3. CASE ControlClosed(s) \/ CommandClosed(s)
    <3>2. KnownOf(srv'[s]) \cap Connection = (KnownOf(srv[s]) \cap Connection) \ {srv[s].control}
      BY <2>3, DisconnectMoves
    <3>3. u[1] # srv[s].control
      <4>1. CASE ControlClosed(s)
        BY <2>0, <4>1 DEF ControlClosed, Dropped, Messages
      <4>2. CASE CommandClosed(s)
        BY <1>0, <2>0, <4>2 DEF CommandClosed, HaveUI, Said, Messages
      <4> QED  BY <2>3, <4>1, <4>2
    <3> QED  BY <1>1, <2>0, <3>2, <3>3
  <2>4. CASE CloseSocket(s)
    <3>1. srv' = [srv EXCEPT ![s].backlog = <<>>, ![s].at = "release"] /\ u[1] \notin Range(srv[s].backlog)
      BY <2>4 DEF CloseSocket
    <3>2. /\ srv'[s].newconnections = srv[s].newconnections /\ srv'[s].control = srv[s].control
          /\ srv'[s].ui = srv[s].ui
      BY <1>0, <3>1 DEF ServerRecs
    <3> QED  BY <1>1, <3>1, <3>2 DEF KnownOf, Queues
  <2>5. CASE UnlockAndExit(s) \/ (LockAgain(s) /\ Gone(s))
    BY <1>1, <2>5, KnowsIs DEF UnlockAndExit, Gone
  <2>6. LockAgain(s) => (LockAgain(s) /\ ServerAt(s, "unlock") /\ UNCHANGED unread) \/ (LockAgain(s) /\ Gone(s))
    BY DEF LockAgain
  <2> QED  BY <2>1, <2>2, <2>3, <2>4, <2>5, <2>6 DEF ServerStep, StillStep
<1>2. ASSUME NEW u \in unread' PROVE \E t \in Server : u[1] \in KnownOf(srv'[t])
  <2>1. PICK t \in Server : u[1] \in KnownOf(srv[t])
    BY ServerTurns DEF UnreadKnown
  <2> QED  BY <1>1, <2>1, ServerTurns
<1> QED  BY <1>2, ServerTurns DEF UnreadKnown

\* What other servers read is of their own connections.
LEMMA OthersStayReady ==
    ASSUME ConnInv, NEW s \in Server, NEW t \in Server \ {s},
           cl' = cl, srv'[t] = srv[t],
           unread' \subseteq unread, \A u \in unread \ unread' : u[1] \in KnownOf(srv[s])
    PROVE  /\ ControlReadable(t) => ControlReadable(t)'
           /\ CommandReadable(t) => CommandReadable(t)'
           /\ HaveUI(t)' = HaveUI(t)
<1>0. /\ srv[t].control \in Connection \cup {None} /\ srv[t].ui \in Connection \cup {None}
      /\ {srv[t].control, srv[t].ui} \subseteq KnownOf(srv[t])
  BY DEF ConnInv, ServersPlaced, ServerRecs, KnownOf
<1>1. \A k \in Connection : k \in KnownOf(srv[t]) => k \notin KnownOf(srv[s])
  BY DEF ConnInv, OneKnows
<1>2. \A k \in {srv[t].control, srv[t].ui} : k # None =>
          Closed(k)' = Closed(k) /\ \A m : <<k, m>> \in unread => <<k, m>> \in unread'
  BY <1>0, <1>1 DEF Closed, Open, Current
<1>3. ControlReadable(t) => ControlReadable(t)'
  BY <1>2 DEF ControlReadable, Said
<1>4. CommandReadable(t) => CommandReadable(t)'
  BY <1>2 DEF CommandReadable, Said, HaveUI
<1> QED  BY <1>3, <1>4 DEF HaveUI

\* What a server finds ready stays so until its turn comes.
LEMMA ServerReady ==
    ASSUME ConnInv, UnreadKnown, UIsRead, ReadyRight, NEW s \in Server,
           ServerStep(s) \/ TimesOut(s), ~NobodyAwaits(s)
    PROVE  UIsRead' /\ ReadyRight'
<1>0. /\ srv \in [Server -> ServerRecs] /\ srv[s].ui \in {None, srv[s].control}
      /\ srv[s].control \in Connection \cup {None}
      /\ unread \subseteq Connection \X Messages
  BY DEF ConnInv, ServersPlaced, Placed, RestTypes, ServerRecs
<1>1. ASSUME NEW t \in Server \ {s}
      PROVE  /\ HaveUI(t)' => <<srv'[t].ui, "fds">> \notin unread' /\ cl'[srv'[t].ui[1]].at # "send"
             /\ srv'[t].at = "control" \/ (srv'[t].at = "accept" /\ "control" \in srv'[t].ready) => ControlReadable(t)'
             /\ srv'[t].at \in {"accept", "control"} /\ "command" \in srv'[t].ready => CommandReadable(t)'
             /\ srv'[t].at = "command" /\ "command" \in srv'[t].ready /\ HaveUI(t)' => CommandReadable(t)'
  <2>1. cl' = cl /\ srv'[t] = srv[t] /\ unread' \subseteq unread
        /\ \A u \in unread \ unread' : u[1] \in KnownOf(srv[s])
    BY ServerTurns
  <2> QED  BY <2>1, OthersStayReady DEF UIsRead, ReadyRight
<1>2. cl' = cl /\ unread' \subseteq unread
  BY ServerTurns
<1>3. /\ HaveUI(s)' => <<srv'[s].ui, "fds">> \notin unread' /\ cl'[srv'[s].ui[1]].at # "send"
      /\ srv'[s].at = "control" \/ (srv'[s].at = "accept" /\ "control" \in srv'[s].ready) => ControlReadable(s)'
      /\ srv'[s].at \in {"accept", "control"} /\ "command" \in srv'[s].ready => CommandReadable(s)'
      /\ srv'[s].at = "command" /\ "command" \in srv'[s].ready /\ HaveUI(s)' => CommandReadable(s)'
  <2>ui. srv'[s].ui \in {None, srv[s].ui} =>
             (HaveUI(s)' => <<srv'[s].ui, "fds">> \notin unread' /\ cl'[srv'[s].ui[1]].at # "send")
    BY <1>2 DEF UIsRead, HaveUI
  <2>1. CASE Select(s)
    <3>1. PICK ready \in Selected(s) :
            srv' = [srv EXCEPT ![s].ready = ready, ![s].at = "accept"] /\ srv[s].at = "select"
      BY <2>1 DEF Select
    <3>2. /\ srv'[s].ready = ready /\ srv'[s].at = "accept" /\ srv'[s].control = srv[s].control
          /\ srv'[s].ui = srv[s].ui
      BY <1>0, <3>1 DEF ServerRecs
    <3>3. ("control" \in ready => ControlReadable(s)) /\ ("command" \in ready => CommandReadable(s))
      BY DEF Selected
    <3>4. unread' = unread
      BY <2>1 DEF Select
    <3>5. ControlReadable(s)' = ControlReadable(s) /\ CommandReadable(s)' = CommandReadable(s)
      BY <1>2, <3>2, <3>4 DEF ControlReadable, CommandReadable, Closed, Open, Current, Said, HaveUI
    <3> QED  BY <2>ui, <3>2, <3>3, <3>5
  <2>2. CASE Accept(s)
    <3>1. /\ srv[s].control # None => srv'[s].control = srv[s].control
          /\ srv'[s].ui = srv[s].ui /\ srv'[s].ready = srv[s].ready
          /\ srv'[s].at = IF "control" \in srv[s].ready THEN "control" ELSE "command"
      BY <2>2, AcceptKeeps
    <3>2. unread' = unread /\ srv[s].at = "accept"
      BY <2>2 DEF Accept
    <3>3. ControlReadable(s) => ControlReadable(s)'
      BY <1>2, <3>1, <3>2 DEF ControlReadable, Closed, Open, Current, Said
    <3>4. CommandReadable(s)' = CommandReadable(s)
      BY <1>2, <3>1, <3>2 DEF CommandReadable, Closed, Open, Current, Said, HaveUI
    <3> QED  BY <2>ui, <3>1, <3>2, <3>3, <3>4 DEF ReadyRight
  <2>3. CASE RecvFds(s)
    <3>1. /\ srv'[s].ui = srv[s].control /\ srv'[s].at = "command" /\ srv'[s].ready = srv[s].ready
      BY <1>0, <2>3 DEF RecvFds, ServerRecs
    <3>2. /\ srv[s].at = "control" /\ <<srv[s].control, "fds">> \in unread
          /\ unread' = unread \ {<<srv[s].control, "fds">>}
      BY <2>3 DEF RecvFds
    <3>3. cl[srv[s].control[1]].at # "send"
      BY <3>2 DEF UnreadKnown
    <3>4. "command" \notin srv[s].ready
      BY <1>0, <3>2 DEF ReadyRight, CommandReadable, HaveUI, UIsRead
    <3> QED  BY <1>2, <3>1, <3>2, <3>3, <3>4
  <2>4. CASE ControlClosed(s) \/ CommandClosed(s)
    <3>1. srv'[s].ui = None /\ srv'[s].at \in {"command", "select"}
      BY <2>4, DisconnectMoves
    <3> QED  BY <2>ui, <3>1 DEF HaveUI
  <2>5. CASE TimesOut(s)
    <3>1. /\ srv'[s].at = "command" /\ srv'[s].ready = srv[s].ready /\ srv'[s].ui = srv[s].ui /\ srv[s].at = "command"
      BY <1>0, <2>5 DEF TimesOut, ServerRecs
    <3>2. unread' = unread
      BY <2>5 DEF TimesOut
    <3>3. CommandReadable(s)' = CommandReadable(s) /\ HaveUI(s)' = HaveUI(s)
      BY <1>2, <3>1, <3>2 DEF CommandReadable, Closed, Open, Current, Said, HaveUI
    <3> QED  BY <2>ui, <3>1, <3>3 DEF ReadyRight
  <2>6. CASE NoCommand(s) \/ RunCommand(s) \/ TerminateServer(s) \/ IdleTimesOut(s)
    <3>1. srv'[s].at = "select" /\ srv'[s].ui = srv[s].ui
      <4>1. CASE NoCommand(s)
        BY <1>0, <4>1 DEF NoCommand, ServerRecs
      <4>2. CASE RunCommand(s)
        BY <1>0, <4>2 DEF RunCommand, ServerAt, ServerRecs
      <4>3. CASE TerminateServer(s)
        BY <1>0, <4>3 DEF TerminateServer, ServerRecs
      <4>4. CASE IdleTimesOut(s)
        BY <1>0, <4>4 DEF IdleTimesOut, ServerRecs
      <4> QED  BY <2>6, <4>1, <4>2, <4>3, <4>4
    <3> QED  BY <2>ui, <3>1
  <2>7. CASE \E place \in {"bound", "cooker", "stat", "unlink", "close", "release", "again", "unlock"} : ServerAt(s, place)
    <3>1. PICK place \in {"bound", "cooker", "stat", "unlink", "close", "release", "again", "unlock"} : ServerAt(s, place)
      BY <2>7
    <3>2. srv'[s].at = place /\ srv'[s].ui = srv[s].ui
      BY <1>0, <3>1 DEF ServerAt, ServerRecs
    <3> QED  BY <2>ui, <3>1, <3>2
  <2>8. CASE SendReady(s) \/ CloseSocket(s)
    <3>1. srv'[s].at \in {"select", "release"} /\ srv'[s].ui = srv[s].ui
      <4>1. CASE SendReady(s)
        BY <1>0, <4>1 DEF SendReady, ServerRecs
      <4>2. CASE CloseSocket(s)
        BY <1>0, <4>2 DEF CloseSocket, ServerRecs
      <4> QED  BY <2>8, <4>1, <4>2
    <3> QED  BY <2>ui, <3>1
  <2>9. CASE Gone(s)
    <3>1. srv'[s].at = "none" /\ srv'[s].ui = None
      BY <1>0, <2>9 DEF Gone, NoServer
    <3> QED  BY <2>ui, <3>1
  <2>10. Bind(s) \/ Listen(s) \/ LeaveLoop(s) \/ Stat(s) \/ UnlinkSocket(s) \/ ReleaseLock(s) \/ LockAgain(s) =>
            Gone(s) \/ \E place \in {"bound", "cooker", "stat", "unlink", "close", "release", "again", "unlock"} : ServerAt(s, place)
    BY DEF Bind, Listen, LeaveLoop, Stat, UnlinkSocket, ReleaseLock, LockAgain
  <2> QED  BY <2>1, <2>2, <2>3, <2>4, <2>5, <2>6, <2>7, <2>8, <2>9, <2>10 DEF ServerStep, UnlockAndExit
<1> QED  BY <1>1, <1>3 DEF UIsRead, ReadyRight

\* A server that still runs has not lost its connections by ending.
LEMMA ServerEnds ==
    ASSUME ConnInv, GoneKnows, NEW s \in Server, ServerStep(s) \/ TimesOut(s), ~NobodyAwaits(s)
    PROVE  GoneKnows'
<1>0. srv \in [Server -> ServerRecs]
  BY DEF ConnInv, ServersPlaced
<1>1. CASE Gone(s)
  <2> DEFINE r == [NoServer EXCEPT !.hello = srv[s].hello]
  <2>1. r.backlog = <<>> /\ r.newconnections = <<>> /\ r.control = None /\ r.ui = None
    BY DEF NoServer
  <2>2. srv' = [srv EXCEPT ![s] = r]
    BY <1>1 DEF Gone
  <2> HIDE DEF r
  <2>3. KnownOf(r) \cap Connection = {}
    BY <2>1, EmptyQueue, NoneApart DEF KnownOf, Queues
  <2> QED  BY <1>0, <2>2, <2>3 DEF GoneKnows
<1>2. CASE srv'[s].at # "none"
  BY <1>2, ServerTurns DEF GoneKnows
<1>3. ASSUME ~Gone(s) PROVE srv'[s].at # "none"
  <2>1. CASE Select(s)
    <3>1. PICK ready \in Selected(s) : srv' = [srv EXCEPT ![s].ready = ready, ![s].at = "accept"]
      BY <2>1 DEF Select
    <3> QED  BY <1>0, <3>1 DEF ServerRecs
  <2>2. CASE Accept(s)
    BY <2>2, AcceptKeeps
  <2>3. CASE ControlClosed(s) \/ CommandClosed(s)
    BY <2>3, DisconnectMoves
  <2>4. CASE RecvFds(s)
    BY <1>0, <2>4 DEF RecvFds, ServerRecs
  <2>5. CASE NoCommand(s)
    BY <1>0, <2>5 DEF NoCommand, ServerRecs
  <2>6. CASE RunCommand(s)
    BY <1>0, <2>6 DEF RunCommand, ServerAt, ServerRecs
  <2>7. CASE TerminateServer(s)
    BY <1>0, <2>7 DEF TerminateServer, ServerRecs
  <2>8. CASE IdleTimesOut(s) \/ TimesOut(s)
    BY <1>0, <2>8 DEF IdleTimesOut, TimesOut, ServerRecs
  <2>9. CASE SendReady(s)
    BY <1>0, <2>9 DEF SendReady, ServerRecs
  <2>10. CASE CloseSocket(s)
    BY <1>0, <2>10 DEF CloseSocket, ServerRecs
  <2>11. CASE \E place \in {"bound", "cooker", "stat", "unlink", "close", "release", "again", "unlock"} : ServerAt(s, place)
    <3>1. PICK place \in {"bound", "cooker", "stat", "unlink", "close", "release", "again", "unlock"} : ServerAt(s, place)
      BY <2>11
    <3> QED  BY <1>0, <3>1 DEF ServerAt, ServerRecs
  <2>12. Bind(s) \/ Listen(s) \/ LeaveLoop(s) \/ Stat(s) \/ UnlinkSocket(s) \/ ReleaseLock(s) \/ LockAgain(s) =>
            Gone(s) \/ \E place \in {"bound", "cooker", "stat", "unlink", "close", "release", "again", "unlock"} : ServerAt(s, place)
    BY DEF Bind, Listen, LeaveLoop, Stat, UnlinkSocket, ReleaseLock, LockAgain
  <2> QED  BY <1>3, <2>1, <2>2, <2>3, <2>4, <2>5, <2>6, <2>7, <2>8, <2>9, <2>10, <2>11, <2>12
           DEF ServerStep, UnlockAndExit
<1> QED  BY <1>1, <1>2, <1>3

-----------------------------------------------------------------------------
(* The steps of commands in a calm scene.                                  *)

\* A command that is not done has open whatever connection a server knows of it.
LEMMA KnownIsOpen ==
    ASSUME KnownUsed, NEW c \in Client, cl[c].at # "done",
           NEW s \in Server, NEW k \in KnownOf(srv[s]) \cap Connection, k[1] = c
    PROVE  k = Current(c) /\ cl[c].at \in OpenPlaces /\ Open(k)
BY DEF KnownUsed, Open

\* What a server found readable stays so, whatever a command does.
LEMMA StaysReady ==
    ASSUME ConnInv, KnownUsed, NEW c \in Client, cl[c].at # "done",
           \A d \in Client \ {c} : cl'[d] = cl[d], unread \subseteq unread',
           NEW t \in Server, srv'[t].control = srv[t].control, srv'[t].ui = srv[t].ui
    PROVE  /\ ControlReadable(t) => ControlReadable(t)'
           /\ CommandReadable(t) => CommandReadable(t)'
<1>0. /\ srv[t].control \in Connection \cup {None} /\ srv[t].ui \in Connection \cup {None}
      /\ {srv[t].control, srv[t].ui} \subseteq KnownOf(srv[t])
  BY DEF ConnInv, ServersPlaced, ServerRecs, KnownOf
<1>1. ASSUME NEW k \in {srv[t].control, srv[t].ui}, k \in Connection, Closed(k)
      PROVE  Closed(k)'
  <2>1. k[1] \in Client /\ k[1] # c
    BY <1>0, <1>1, KnownIsOpen DEF Closed, Connection
  <2> QED  BY <1>1, <2>1 DEF Closed, Open, Current
<1>2. \A k \in {srv[t].control, srv[t].ui} : k # None => k \in Connection
  BY <1>0
<1>3. ControlReadable(t) => ControlReadable(t)'
  BY <1>1, <1>2 DEF ControlReadable, Said
<1>4. CommandReadable(t) => CommandReadable(t)'
  BY <1>1, <1>2 DEF CommandReadable, HaveUI, Said
<1> QED  BY <1>3, <1>4

\* A command moves of which no server knows a connection.
LEMMA UnknownMoves ==
    ASSUME ConnInv, CalmInv, NEW c \in Client,
           cl[c].at # "done", cl[c].at \in OpenPlaces => ~Connected(Current(c)),
           srv' = srv, unread' = unread, scene' = scene,
           \A d \in Client \ {c} : cl'[d] = cl[d], cl'[c].at # "wait",
           cl'[c].at \in {"connect"} \cup OpenPlaces => scene.does[c] \in Users,
           cl[c].at = "wait" => srv[cl[c].server].at \notin Coming
    PROVE  CalmInv'
<1>1. \A s \in Server : \A k \in KnownOf(srv[s]) \cap Connection : k[1] \in Client \ {c}
  BY KnownIsOpen, KnowsIs DEF CalmInv, Connected, Connection
<1>2. ParentsWait'
  <2>1. \A s \in Server : srv[s].at \in Coming => AwaitedBy(s) \subseteq AwaitedBy(s)'
    BY DEF AwaitedBy
  <2> QED  BY <2>1 DEF CalmInv, ParentsWait
<1>3. KnownUsed'
  BY <1>1 DEF CalmInv, KnownUsed, Current
<1>4. UnreadKnown'
  BY <1>1 DEF CalmInv, UnreadKnown, ConnInv, RestTypes
<1>5. UIsRead'
  <2>1. \A s \in Server : HaveUI(s) => srv[s].ui[1] \in Client \ {c}
    BY <1>1 DEF HaveUI, KnownOf, ConnInv, ServersPlaced, ServerRecs
  <2> QED  BY <2>1 DEF CalmInv, UIsRead, HaveUI
<1>6. ReadyRight'
  BY StaysReady DEF CalmInv, ReadyRight, HaveUI
<1> QED  BY <1>2, <1>3, <1>4, <1>5, <1>6 DEF CalmInv, GoneKnows

\* A command goes on with its connection, and says something if it is known.
LEMMA KnownMoves ==
    ASSUME ConnInv, CalmInv, NEW c \in Client, NEW place \in {"reply", "use", "done"},
           cl[c].at \in OpenPlaces, ClientAt(c, place),
           srv' = srv, scene' = scene, unread \subseteq unread',
           \A u \in unread' \ unread :
               /\ u[1] = Current(c) /\ Connected(Current(c)) /\ (u[2] = "fds" => cl[c].at = "send")
               /\ u[2] = "terminateServer" => scene.does[c] = "kill" /\ place = "done"
    PROVE  CalmInv'
<1>1. /\ cl'[c].at = place /\ cl'[c].tries = cl[c].tries /\ \A d \in Client \ {c} : cl'[d] = cl[d]
      /\ Current(c)[1] = c /\ \A d \in Client : Current(d)' = Current(d)
  BY DEF ClientAt, ConnInv, ClientsTry, ClientRecs, Current
<1>2. cl[c].at # "done" /\ cl[c].at # "wait" /\ place # "wait" /\ place # "send"
  BY DEF OpenPlaces
<1>3. ParentsWait'
  <2>1. \A s \in Server : AwaitedBy(s)' = AwaitedBy(s)
    BY <1>1, <1>2 DEF AwaitedBy
  <2>2. \A d \in Client : cl'[d].at = "wait" => cl[d].at = "wait" /\ cl'[d].server = cl[d].server
    BY <1>1, <1>2
  <2> QED  BY <2>1, <2>2 DEF CalmInv, ParentsWait
<1>4. KnownUsed'
  <2>1. \A s \in Server : \A k \in KnownOf(srv[s]) \cap Connection :
          k = Current(k[1])' /\ cl'[k[1]].at \in OpenPlaces \cup {"done"} /\ scene.does[k[1]] \in Users
    BY <1>1 DEF CalmInv, KnownUsed, Connection, OpenPlaces
  <2>2. scene.does[c] \in Users
    BY DEF CalmInv, KnownUsed
  <2>3. \A d \in Client : cl'[d].at \in {"connect"} \cup OpenPlaces => scene.does[d] \in Users
    BY <1>1, <2>2 DEF CalmInv, KnownUsed
  <2>4. \A d \in Client : cl'[d].at # "done" => scene.does[d] # "nothing"
    BY <1>1, <1>2 DEF CalmInv, KnownUsed
  <2> QED  BY <2>1, <2>3, <2>4 DEF KnownUsed
<1>5. UnreadKnown'
  <2> SUFFICES ASSUME NEW u \in unread'
               PROVE  /\ \E s \in Server : u[1] \in KnownOf(srv[s])
                      /\ cl'[u[1][1]].at # "send"
                      /\ u[2] = "terminateServer" => scene.does[u[1][1]] = "kill" /\ cl'[u[1][1]].at = "done"
    BY DEF UnreadKnown
  <2>1. CASE u \in unread
    <3>1. /\ \E s \in Server : u[1] \in KnownOf(srv[s])
          /\ cl[u[1][1]].at # "send"
          /\ u[2] = "terminateServer" => scene.does[u[1][1]] = "kill" /\ cl[u[1][1]].at = "done"
      BY <2>1 DEF CalmInv, UnreadKnown
    <3>2. u[1][1] \in Client
      BY <2>1 DEF ConnInv, RestTypes, Connection
    <3> QED  BY <1>1, <1>2, <3>1, <3>2
  <2>2. CASE u \notin unread
    BY <1>1, <1>2, <2>2, KnowsIs DEF Connected
  <2> QED  BY <2>1, <2>2
<1>6. UIsRead'
  <2> SUFFICES ASSUME NEW s \in Server, HaveUI(s)
               PROVE  <<srv[s].ui, "fds">> \notin unread' /\ cl'[srv[s].ui[1]].at # "send"
    BY DEF UIsRead, HaveUI
  <2>1. srv[s].ui \in Connection /\ srv[s].ui[1] \in Client
    BY DEF HaveUI, ConnInv, ServersPlaced, ServerRecs, Connection
  <2>2. <<srv[s].ui, "fds">> \notin unread /\ cl[srv[s].ui[1]].at # "send"
    BY DEF CalmInv, UIsRead
  <2> QED  BY <1>1, <1>2, <2>1, <2>2
<1>7. ReadyRight'
  BY <1>1, <1>2, StaysReady DEF CalmInv, ReadyRight, HaveUI
<1> QED  BY <1>3, <1>4, <1>5, <1>6, <1>7 DEF CalmInv, GoneKnows

LEMMA StartCalm ==
    ASSUME ConnInv, CalmInv, NEW c \in Client, StartServer(c)
    PROVE  CalmInv'
<1>1. PICK s \in Server :
        /\ srv[s].at = "none" /\ AwaitedBy(s) = {}
        /\ srv' = [srv EXCEPT ![s] = [NoServer EXCEPT !.at = "boot"]]
        /\ cl' = [cl EXCEPT ![c].at = "wait", ![c].server = s]
  BY DEF StartServer
<1> DEFINE new == [NoServer EXCEPT !.at = "boot"]
<1>2. /\ new.at = "boot" /\ ~new.hello /\ ~new.quit /\ new.backlog = <<>> /\ new.newconnections = <<>>
      /\ new.control = None /\ new.ui = None
  BY DEF NoServer
<1> HIDE DEF new
<1>3. srv'[s] = new /\ \A t \in Server \ {s} : srv'[t] = srv[t]
  BY <1>1 DEF new, ConnInv, ServersPlaced
<1>4. /\ cl'[c].at = "wait" /\ cl'[c].server = s /\ cl'[c].tries = cl[c].tries
      /\ \A d \in Client \ {c} : cl'[d] = cl[d]
  BY <1>1 DEF ConnInv, ClientsTry, ClientRecs
<1>5. cl[c].at = "got" /\ scene' = scene /\ unread' = unread
  BY DEF StartServer
<1>6. KnownOf(new) \cap Connection = {}
  BY <1>2, EmptyQueue, NoneApart DEF KnownOf, Queues
<1>7. \A t \in Server : KnownOf(srv'[t]) \cap Connection = KnownOf(srv[t]) \cap Connection
  BY <1>1, <1>3, <1>6 DEF CalmInv, GoneKnows
<1>8. \A t \in Server : \A k \in KnownOf(srv[t]) \cap Connection : k[1] \in Client \ {c}
  BY <1>5, KnownIsOpen DEF CalmInv, OpenPlaces, Connection
<1>9. ParentsWait'
  <2>1. ASSUME NEW t \in Server, srv'[t].at \in Coming
        PROVE  ~srv'[t].hello /\ ~srv'[t].quit /\ AwaitedBy(t)' # {}
    <3>1. CASE t = s
      BY <1>2, <1>3, <1>4, <3>1 DEF AwaitedBy
    <3>2. CASE t # s
      <4>1. AwaitedBy(t) \subseteq AwaitedBy(t)'
        BY <1>4, <1>5 DEF AwaitedBy
      <4> QED  BY <1>3, <2>1, <3>2, <4>1 DEF CalmInv, ParentsWait
    <3> QED  BY <3>1, <3>2
  <2>2. ASSUME NEW d \in Client, cl'[d].at = "wait"
        PROVE  cl'[d].server \in Server /\ (srv'[cl'[d].server].hello \/ srv'[cl'[d].server].at \in Coming)
    <3>1. CASE d = c
      BY <1>2, <1>3, <1>4, <3>1 DEF Coming
    <3>2. CASE d # c
      <4>1. cl'[d] = cl[d] /\ cl[d].server # s
        BY <1>1, <1>4, <2>2, <3>2 DEF AwaitedBy
      <4> QED  BY <1>3, <2>2, <4>1 DEF CalmInv, ParentsWait
    <3> QED  BY <3>1, <3>2
  <2> QED  BY <2>1, <2>2 DEF ParentsWait
<1>10. KnownUsed'
  BY <1>4, <1>5, <1>7, <1>8 DEF CalmInv, KnownUsed, Current, OpenPlaces
<1>11. GoneKnows'
  BY <1>2, <1>3, <1>7 DEF CalmInv, GoneKnows
<1>12. UnreadKnown'
  <2> SUFFICES ASSUME NEW u \in unread
               PROVE  /\ \E t \in Server : u[1] \in KnownOf(srv'[t])
                      /\ cl'[u[1][1]].at # "send"
                      /\ u[2] = "terminateServer" => scene.does[u[1][1]] = "kill" /\ cl'[u[1][1]].at = "done"
    BY <1>5 DEF UnreadKnown
  <2>1. u[1] \in Connection
    BY DEF ConnInv, RestTypes
  <2>2. PICK t \in Server : u[1] \in KnownOf(srv[t])
    BY DEF CalmInv, UnreadKnown
  <2>3. u[1] \in KnownOf(srv'[t]) /\ u[1][1] \in Client \ {c}
    BY <1>7, <1>8, <2>1, <2>2
  <2> QED  BY <1>4, <2>2, <2>3 DEF CalmInv, UnreadKnown
<1>13. UIsRead'
  <2> SUFFICES ASSUME NEW t \in Server, HaveUI(t)'
               PROVE  <<srv'[t].ui, "fds">> \notin unread /\ cl'[srv'[t].ui[1]].at # "send"
    BY <1>5 DEF UIsRead
  <2>1. t # s /\ srv'[t] = srv[t]
    BY <1>2, <1>3 DEF HaveUI
  <2>2. srv[t].ui # None /\ srv[t].ui \in KnownOf(srv[t]) \cap Connection
    BY <2>1 DEF HaveUI, KnownOf, ConnInv, ServersPlaced, ServerRecs
  <2>3. cl'[srv[t].ui[1]] = cl[srv[t].ui[1]]
    BY <1>4, <1>8, <2>2
  <2> QED  BY <2>1, <2>2, <2>3 DEF CalmInv, UIsRead, HaveUI
<1>14. ReadyRight'
  <2> SUFFICES ASSUME NEW t \in Server
               PROVE  /\ srv'[t].at = "control" \/ (srv'[t].at = "accept" /\ "control" \in srv'[t].ready) => ControlReadable(t)'
                      /\ srv'[t].at \in {"accept", "control"} /\ "command" \in srv'[t].ready => CommandReadable(t)'
                      /\ srv'[t].at = "command" /\ "command" \in srv'[t].ready /\ HaveUI(t)' => CommandReadable(t)'
    BY DEF ReadyRight
  <2>1. CASE t = s
    BY <1>2, <1>3, <2>1
  <2>2. CASE t # s
    <3>1. srv'[t] = srv[t]
      BY <1>3, <2>2
    <3>2. (ControlReadable(t) => ControlReadable(t)') /\ (CommandReadable(t) => CommandReadable(t)')
      BY <1>4, <1>5, <3>1, StaysReady DEF CalmInv
    <3> QED  BY <3>1, <3>2 DEF CalmInv, ReadyRight, HaveUI
  <2> QED  BY <2>1, <2>2
<1> QED  BY <1>9, <1>10, <1>11, <1>12, <1>13, <1>14 DEF CalmInv

\* What a connect changes: the server whose socket it is has one more to accept.
LEMMA ConnectMoves ==
    ASSUME ConnInv, NEW c \in Client, Connect(c)
    PROVE  \E s \in Server :
               /\ sockname = s /\ Listening(s) /\ \A t \in Server \ {s} : srv'[t] = srv[t]
               /\ KnownOf(srv'[s]) = KnownOf(srv[s]) \cup {Current(c)}
               /\ \A t \in Server :
                      /\ srv'[t].at = srv[t].at /\ srv'[t].hello = srv[t].hello /\ srv'[t].quit = srv[t].quit
                      /\ srv'[t].control = srv[t].control /\ srv'[t].ui = srv[t].ui /\ srv'[t].ready = srv[t].ready
               /\ cl'[c].at = "send" /\ cl'[c].tries = cl[c].tries /\ \A d \in Client \ {c} : cl'[d] = cl[d]
               /\ Current(c) \in Connection /\ Current(c)[1] = c
<1>1. PICK s \in Server : sockname = s /\ Listening(s) /\ srv' = [srv EXCEPT ![s].backlog = Append(@, Current(c))]
  BY DEF Connect
<1> DEFINE q == srv[s]
           k == Current(c)
           longer == Append(q.backlog, k)
           r == [q EXCEPT !.backlog = longer]
<1>2. q \in ServerRecs /\ q.backlog \in Seq(Connection)
  BY DEF ConnInv, ServersPlaced, ServerRecs
<1>3. k \in Connection /\ k[1] = c
  BY DEF ConnInv, ClientsTry, ClientRecs, Connection, Current
<1>4. srv' = [srv EXCEPT ![s] = r]
  BY <1>1
<1> HIDE DEF q, k
<1>5. longer \in Seq(Connection) /\ Range(longer) = Range(q.backlog) \cup {k}
  BY <1>2, <1>3, QueueAppend
<1> HIDE DEF longer
<1>6. /\ r.backlog = longer /\ r.newconnections = q.newconnections /\ r.control = q.control /\ r.ui = q.ui
      /\ r.quit = q.quit /\ r.hello = q.hello /\ r.at = q.at /\ r.ready = q.ready
  BY <1>2 DEF ServerRecs
<1> HIDE DEF r
<1>7. srv'[s] = r /\ \A t \in Server \ {s} : srv'[t] = srv[t]
  BY <1>4 DEF ConnInv, ServersPlaced
<1>8. KnownOf(r) = KnownOf(q) \cup {k}
  BY <1>5, <1>6 DEF KnownOf, Queues
<1>9. cl'[c].at = "send" /\ cl'[c].tries = cl[c].tries /\ \A d \in Client \ {c} : cl'[d] = cl[d]
  BY DEF Connect, ClientAt, ConnInv, ClientsTry, ClientRecs
<1>10. \A t \in Server :
           /\ srv'[t].at = srv[t].at /\ srv'[t].hello = srv[t].hello /\ srv'[t].quit = srv[t].quit
           /\ srv'[t].control = srv[t].control /\ srv'[t].ui = srv[t].ui /\ srv'[t].ready = srv[t].ready
  BY <1>6, <1>7 DEF q
<1>11. KnownOf(srv'[s]) = KnownOf(srv[s]) \cup {Current(c)}
  BY <1>7, <1>8 DEF q, k
<1>12. Current(c) \in Connection /\ Current(c)[1] = c
  BY <1>3 DEF k
<1> QED  BY <1>1, <1>7, <1>9, <1>10, <1>11, <1>12

LEMMA ConnectCalm ==
    ASSUME ConnInv, CalmInv, NEW c \in Client, Connect(c)
    PROVE  CalmInv'
<1>1. PICK s \in Server :
        /\ sockname = s /\ Listening(s) /\ \A t \in Server \ {s} : srv'[t] = srv[t]
        /\ KnownOf(srv'[s]) = KnownOf(srv[s]) \cup {Current(c)}
        /\ \A t \in Server :
               /\ srv'[t].at = srv[t].at /\ srv'[t].hello = srv[t].hello /\ srv'[t].quit = srv[t].quit
               /\ srv'[t].control = srv[t].control /\ srv'[t].ui = srv[t].ui /\ srv'[t].ready = srv[t].ready
        /\ cl'[c].at = "send" /\ cl'[c].tries = cl[c].tries /\ \A d \in Client \ {c} : cl'[d] = cl[d]
        /\ Current(c) \in Connection /\ Current(c)[1] = c
  BY ConnectMoves
<1>2. cl[c].at = "connect" /\ scene' = scene /\ unread' = unread
  BY DEF Connect
<1>3. \A t \in Server : \A k \in KnownOf(srv[t]) \cap Connection : k[1] \in Client \ {c}
  BY <1>2, KnownIsOpen DEF CalmInv, OpenPlaces, Connection
<1>4. scene.does[c] \in Users
  BY <1>2 DEF CalmInv, KnownUsed
<1>5. \A d \in Client : Current(d)' = Current(d)
  BY <1>1 DEF Current
<1>6. \A t \in Server : KnownOf(srv[t]) \subseteq KnownOf(srv'[t]) /\ KnownOf(srv'[t]) \subseteq KnownOf(srv[t]) \cup {Current(c)}
  BY <1>1
<1>7. ParentsWait'
  <2>1. \A t \in Server : AwaitedBy(t)' = AwaitedBy(t)
    BY <1>1, <1>2 DEF AwaitedBy
  <2>2. \A d \in Client : cl'[d].at = "wait" => cl[d].at = "wait" /\ cl'[d].server = cl[d].server
    BY <1>1, <1>2
  <2> QED  BY <1>1, <2>1, <2>2 DEF CalmInv, ParentsWait
<1>8. KnownUsed'
  <2>1. ASSUME NEW t \in Server, NEW k \in KnownOf(srv'[t]) \cap Connection
        PROVE  k = Current(k[1])' /\ cl'[k[1]].at \in OpenPlaces \cup {"done"} /\ scene.does[k[1]] \in Users
    <3>1. CASE k = Current(c)
      BY <1>1, <1>4, <1>5, <3>1 DEF OpenPlaces
    <3>2. CASE k \in KnownOf(srv[t]) \cap Connection
      <4>1. k[1] \in Client \ {c}
        BY <1>3, <3>2
      <4> QED  BY <1>1, <1>5, <3>2, <4>1 DEF CalmInv, KnownUsed
    <3> QED  BY <1>6, <2>1, <3>1, <3>2
  <2>2. \A d \in Client : cl'[d].at \in {"connect"} \cup OpenPlaces => scene.does[d] \in Users
    BY <1>1, <1>4 DEF CalmInv, KnownUsed
  <2>3. \A d \in Client : cl'[d].at # "done" => scene.does[d] # "nothing"
    BY <1>1, <1>2 DEF CalmInv, KnownUsed
  <2> QED  BY <1>2, <2>1, <2>2, <2>3 DEF KnownUsed
<1>9. GoneKnows'
  <2>1. srv[s].at # "none"
    BY <1>1 DEF Listening, LoopPlaces
  <2> QED  BY <1>1, <2>1 DEF CalmInv, GoneKnows
<1>10. UnreadKnown'
  <2> SUFFICES ASSUME NEW u \in unread
               PROVE  /\ \E t \in Server : u[1] \in KnownOf(srv'[t])
                      /\ cl'[u[1][1]].at # "send"
                      /\ u[2] = "terminateServer" => scene.does[u[1][1]] = "kill" /\ cl'[u[1][1]].at = "done"
    BY <1>2 DEF UnreadKnown
  <2>1. u[1] \in Connection
    BY DEF ConnInv, RestTypes
  <2>2. PICK t \in Server : u[1] \in KnownOf(srv[t])
    BY DEF CalmInv, UnreadKnown
  <2>3. u[1] \in KnownOf(srv'[t]) /\ u[1][1] \in Client \ {c}
    BY <1>6, <1>3, <2>1, <2>2
  <2> QED  BY <1>1, <2>2, <2>3 DEF CalmInv, UnreadKnown
<1>11. UIsRead'
  <2> SUFFICES ASSUME NEW t \in Server, HaveUI(t)'
               PROVE  <<srv'[t].ui, "fds">> \notin unread /\ cl'[srv'[t].ui[1]].at # "send"
    BY <1>2 DEF UIsRead
  <2>1. srv'[t].ui = srv[t].ui
    BY <1>1
  <2>2. srv[t].ui # None /\ srv[t].ui \in KnownOf(srv[t]) \cap Connection
    BY <2>1 DEF HaveUI, KnownOf, ConnInv, ServersPlaced, ServerRecs
  <2>3. cl'[srv[t].ui[1]] = cl[srv[t].ui[1]]
    BY <1>1, <1>3, <2>2
  <2> QED  BY <2>1, <2>2, <2>3 DEF CalmInv, UIsRead, HaveUI
<1>12. ReadyRight'
  <2> SUFFICES ASSUME NEW t \in Server
               PROVE  /\ srv'[t].at = "control" \/ (srv'[t].at = "accept" /\ "control" \in srv'[t].ready) => ControlReadable(t)'
                      /\ srv'[t].at \in {"accept", "control"} /\ "command" \in srv'[t].ready => CommandReadable(t)'
                      /\ srv'[t].at = "command" /\ "command" \in srv'[t].ready /\ HaveUI(t)' => CommandReadable(t)'
    BY DEF ReadyRight
  <2>1. (ControlReadable(t) => ControlReadable(t)') /\ (CommandReadable(t) => CommandReadable(t)')
    BY <1>1, <1>2, StaysReady DEF CalmInv
  <2> QED  BY <1>1, <2>1 DEF CalmInv, ReadyRight, HaveUI
<1> QED  BY <1>7, <1>8, <1>9, <1>10, <1>11, <1>12 DEF CalmInv

\* A calm scene has a user, who asks each command for something.
LEMMA SceneAsks ==
    ASSUME ScenePlayed
    PROVE  /\ \A c \in Client : scene.does[c] \in {"ui", "kill", "status", "only", "nothing"}
           /\ scene.failed \in 0 .. Retries - 1
BY ServerAssumption DEF ScenePlayed, SceneType

\* Whoever waits for a server in a calm scene gets it.
LEMMA NoneFailsToStart ==
    ASSUME CalmInv, Calm, NEW c \in Client
    PROVE  ~NotStarted(c)
BY DEF CalmInv, ParentsWait, Calm, NotStarted, Coming

LEMMA ClientCalm ==
    ASSUME ServerInv, ConnInv, ScenePlayed, Calm, CalmInv, NEW c \in Client, ClientStep(c)
    PROVE  CalmInv'
<1>0. Shape /\ cl \in [Client -> ClientRecs]
  BY DEF ServerInv, HoldInv, ConnInv, ClientsTry
<1>1. CASE PollGivesUp(c) \/ UnlockPolled(c) \/ ConnectFails(c) \/ NotAnswered(c)
  <2>1. /\ Retry(c) /\ srv' = srv /\ unread' = unread /\ scene' = scene
        /\ cl[c].at \notin {"done", "wait"} /\ (cl[c].at \in OpenPlaces => ~Connected(Current(c)))
    BY <1>1 DEF PollGivesUp, UnlockPolled, ConnectFails, NotAnswered, Calm, OpenPlaces
  <2>2. cl'[c].at \in {"fatal", "try"} /\ \A d \in Client \ {c} : cl'[d] = cl[d]
    BY <1>0, <2>1, RetryMoves
  <2> QED  BY <2>1, <2>2, UnknownMoves DEF OpenPlaces
<1>2. CASE LockBitbake(c) \/ NotRunning(c) \/ PollGetsLock(c)
  <2>1. /\ srv' = srv /\ unread' = unread /\ scene' = scene
        /\ cl[c].at \in {"try", "got", "poll"} /\ \E place \in {"got", "look", "done", "unlock"} : ClientAt(c, place)
    BY <1>2 DEF LockBitbake, NotRunning, PollGetsLock
  <2>2. cl'[c].at \in {"got", "look", "done", "unlock"} /\ \A d \in Client \ {c} : cl'[d] = cl[d]
    BY <1>0, <2>1, ClientAtMoves
  <2> QED  BY <2>1, <2>2, UnknownMoves DEF OpenPlaces
<1>3. CASE Started(c) \/ LookForSocket(c)
  <2>1. /\ srv' = srv /\ unread' = unread /\ scene' = scene /\ cl[c].at \in {"wait", "look"}
        /\ \E place \in {"poll", "done", "connect"} : ClientAt(c, place) /\ (place = "connect" => scene.does[c] # "only")
    BY <1>3 DEF Started, LookForSocket
  <2>2. /\ cl'[c].at \in {"poll", "done", "connect"} /\ \A d \in Client \ {c} : cl'[d] = cl[d]
        /\ cl'[c].at = "connect" => scene.does[c] # "only"
    BY <1>0, <2>1, ClientAtMoves
  <2>3. scene.does[c] # "nothing"
    BY <2>1 DEF CalmInv, KnownUsed
  <2>4. cl'[c].at = "connect" => scene.does[c] \in Users
    BY <2>2, <2>3, SceneAsks DEF Users
  <2>5. cl[c].at = "wait" => srv[cl[c].server].at \notin Coming
    BY <1>3, <2>1 DEF Started, LookForSocket, CalmInv, ParentsWait
  <2> QED  BY <2>1, <2>2, <2>4, <2>5, UnknownMoves DEF OpenPlaces
<1>4. CASE SendFds(c) \/ Answered(c) \/ Terminate(c)
  <2>1. CASE SendFds(c)
    BY <2>1, KnownMoves DEF SendFds, OpenPlaces
  <2>2. CASE Answered(c)
    BY <2>2, KnownMoves DEF Answered, OpenPlaces
  <2>3. CASE Terminate(c)
    BY <2>3, KnownMoves DEF Terminate, OpenPlaces
  <2> QED  BY <1>4, <2>1, <2>2, <2>3
<1> QED  BY <1>1, <1>2, <1>3, <1>4, NoneFailsToStart, StartCalm, ConnectCalm DEF ClientStep

LEMMA SceneNext == ScenePlayed /\ [Next]_vars => ScenePlayed' /\ scene' = scene
<1> SUFFICES ASSUME ScenePlayed, [Next]_vars PROVE ScenePlayed' /\ scene' = scene
  OBVIOUS
<1>1. scene' = scene /\ (killed' = killed \/ killed' = killed + 1)
  <2>1. ASSUME NEW c \in Client, ClientStep(c) \/ ClientKilled(c)
        PROVE  scene' = scene /\ (killed' = killed \/ killed' = killed + 1)
    BY <2>1 DEF ClientStep, LockBitbake, NotRunning, StartServer, Started, NotStarted, LookForSocket,
       PollGetsLock, PollGivesUp, UnlockPolled, Connect, ConnectFails, SendFds, Answered, NotAnswered,
       Terminate, ClientKilled
  <2>2. ASSUME NEW s \in Server, ServerStep(s) \/ TimesOut(s) \/ ServerKilled(s)
        PROVE  scene' = scene /\ (killed' = killed \/ killed' = killed + 1)
    BY <2>2 DEF ServerStep, TimesOut, ServerKilled, Bind, Listen, SendReady, NobodyAwaits, Select,
       Accept, RecvFds, ControlClosed, NoCommand, RunCommand, TerminateServer, CommandClosed, IdleTimesOut,
       LeaveLoop, Stat, UnlinkSocket, CloseSocket, ReleaseLock, LockAgain, UnlockAndExit
  <2> QED  BY <2>1, <2>2 DEF Next, vars
<1> QED  BY <1>1 DEF ScenePlayed

LEMMA CalmInit == Init => CalmInv
<1> SUFFICES ASSUME Init PROVE CalmInv
  OBVIOUS
<1>1. /\ unread = {} /\ \A s \in Server : srv[s] = NoServer
      /\ \A c \in Client : cl[c].at \in {"done", "try"} /\ (cl[c].at # "done" => scene.does[c] # "nothing")
  BY DEF Init
<1>2. NoServer.at = "none" /\ NoServer.ui = None /\ KnownOf(NoServer) \cap Connection = {}
  <2>1. /\ NoServer.backlog = <<>> /\ NoServer.newconnections = <<>> /\ NoServer.control = None
        /\ NoServer.ui = None /\ NoServer.at = "none"
    BY DEF NoServer
  <2> QED  BY <2>1, EmptyQueue, NoneApart DEF KnownOf, Queues
<1>3. ParentsWait /\ GoneKnows /\ UnreadKnown /\ UIsRead /\ ReadyRight
  BY <1>1, <1>2 DEF ParentsWait, Coming, GoneKnows, UnreadKnown, UIsRead, HaveUI, ReadyRight
<1>4. KnownUsed
  BY <1>1, <1>2 DEF KnownUsed, OpenPlaces
<1> QED  BY <1>3, <1>4 DEF CalmInv

\* In a calm scene nobody is killed.
LEMMA NobodyKilled ==
    ASSUME ScenePlayed, Calm
    PROVE  (\A c \in Client : ~ClientKilled(c)) /\ \A s \in Server : ~ServerKilled(s)
BY DEF ScenePlayed, Calm, ClientKilled, ServerKilled

LEMMA CalmNext ==
    ASSUME ServerInv, ConnInv, ScenePlayed, Calm, CalmInv, [Next]_vars
    PROVE  CalmInv'
<1>1. CASE UNCHANGED vars
  <2> USE <1>1 DEF vars
  <2>1. ParentsWait' /\ KnownUsed' /\ GoneKnows' /\ UnreadKnown'
    BY DEF CalmInv, ParentsWait, AwaitedBy, KnownUsed, Current, GoneKnows, UnreadKnown
  <2>2. \A s \in Server : ControlReadable(s)' = ControlReadable(s) /\ CommandReadable(s)' = CommandReadable(s)
    BY DEF ControlReadable, CommandReadable, HaveUI, Closed, Open, Current, Said
  <2>3. UIsRead' /\ ReadyRight'
    BY <2>2 DEF CalmInv, UIsRead, ReadyRight, HaveUI
  <2> QED  BY <2>1, <2>3 DEF CalmInv
<1>2. ASSUME NEW s \in Server, ServerStep(s) \/ TimesOut(s) PROVE CalmInv'
  BY <1>2, ServerAwaited, ServerKnowsUsed, ServerEnds, ServerReads, ServerReady DEF CalmInv
<1> QED  BY <1>1, <1>2, ClientCalm, NobodyKilled DEF Next

-----------------------------------------------------------------------------
(* Servers that end, and for whom.                                         *)

\* A server whose turn comes to close its client finds that the command is done.
LEMMA ClosedIsDone ==
    ASSUME ConnInv, CalmInv, NEW s \in Server, ControlClosed(s) \/ CommandClosed(s)
    PROVE  /\ srv[s].control \in Connection /\ srv[s].control \in KnownOf(srv[s])
           /\ srv[s].control[1] \in Client /\ srv[s].control = Current(srv[s].control[1])
           /\ cl[srv[s].control[1]].at = "done" /\ scene.does[srv[s].control[1]] \in Users
<1>1. /\ srv[s].control \in Connection \cup {None} /\ srv[s].ui \in {None, srv[s].control}
      /\ srv[s].control \in KnownOf(srv[s])
  BY DEF ConnInv, ServersPlaced, Placed, ServerRecs, KnownOf
<1>2. srv[s].control # None /\ Closed(srv[s].control)
  <2>1. CASE ControlClosed(s)
    <3>1. ControlReadable(s) /\ "fds" \notin Said(srv[s].control)
      BY <2>1 DEF ControlClosed, CalmInv, ReadyRight, Said
    <3> QED  BY <3>1 DEF ControlReadable
  <2>2. CASE CommandClosed(s)
    <3>1. CommandReadable(s) /\ Said(srv[s].ui) = {} /\ HaveUI(s)
      BY <2>2 DEF CommandClosed, CalmInv, ReadyRight
    <3> QED  BY <1>1, <3>1 DEF CommandReadable, HaveUI
  <2> QED  BY <2>1, <2>2
<1>3. srv[s].control \in KnownOf(srv[s]) \cap Connection /\ srv[s].control[1] \in Client
  BY <1>1, <1>2 DEF Connection
<1> QED  BY <1>2, <1>3 DEF CalmInv, KnownUsed, Closed, Open

\* The command that says terminateServer is -m, and done.
LEMMA TerminatedIsDone ==
    ASSUME ConnInv, CalmInv, NEW s \in Server, TerminateServer(s)
    PROVE  /\ srv[s].ui \in Connection /\ srv[s].ui \in KnownOf(srv[s]) /\ srv'[s].ui = srv[s].ui
           /\ srv[s].ui[1] \in Client /\ srv[s].ui = Current(srv[s].ui[1])
           /\ cl[srv[s].ui[1]].at = "done" /\ scene.does[srv[s].ui[1]] = "kill"
<1>1. <<srv[s].ui, "terminateServer">> \in unread
  BY DEF TerminateServer, Said
<1>2. srv[s].ui \in Connection /\ srv[s].ui[1] \in Client
  BY <1>1 DEF ConnInv, RestTypes, Connection
<1>3. srv[s].ui \in KnownOf(srv[s])
  BY DEF KnownOf
<1>4. srv'[s].ui = srv[s].ui
  BY DEF TerminateServer, ConnInv, ServersPlaced, ServerRecs
<1>5. cl[srv[s].ui[1]].at = "done" /\ scene.does[srv[s].ui[1]] = "kill"
  BY <1>1 DEF CalmInv, UnreadKnown
<1> QED  BY <1>2, <1>3, <1>4, <1>5 DEF CalmInv, KnownUsed

\* The steps that may make a server quit.
Quits(s) ==
    ControlClosed(s) \/ CommandClosed(s) \/ TerminateServer(s) \/ TimesOut(s) \/ IdleTimesOut(s)

\* A server quits for good, on one of these steps; until then it lives and knows whom
\* it knew, but for the client it closes.
LEMMA ServerLives ==
    ASSUME ConnInv, CalmInv, NEW s \in Server, ServerStep(s) \/ TimesOut(s)
    PROVE  /\ srv[s].quit => srv'[s].quit \/ KnownOf(srv'[s]) \cap Connection = {}
           /\ srv'[s].quit /\ ~srv[s].quit => Quits(s)
           /\ Lives(s) => Lives(s)' \/ srv'[s].quit
           /\ Lives(s) => KnownOf(srv'[s]) \cap Connection = KnownOf(srv[s]) \cap Connection
                             \/ ControlClosed(s) \/ CommandClosed(s)
           /\ ControlClosed(s) \/ CommandClosed(s) =>
                  KnownOf(srv'[s]) \cap Connection = (KnownOf(srv[s]) \cap Connection) \ {srv[s].control}
<1>0. srv \in [Server -> ServerRecs] /\ Placed(srv[s]) /\ ~NobodyAwaits(s)
  BY ServerAwaited DEF ConnInv, ServersPlaced, CalmInv
<1>l. Lives(s) => srv[s].at \notin {"boot", "bound", "stat", "unlink", "close", "release", "again", "unlock"}
  BY DEF Lives, LoopPlaces
<1>1. CASE StillStep(s)
  <2>1. /\ srv'[s].backlog = srv[s].backlog /\ srv'[s].newconnections = srv[s].newconnections
        /\ srv'[s].control = srv[s].control /\ srv'[s].ui \in {None, srv[s].control}
        /\ srv[s].quit => srv'[s].quit
    BY <1>1, StillRec
  <2>2. KnownOf(srv'[s]) \cap Connection = KnownOf(srv[s]) \cap Connection
    BY <1>0, <2>1, NoneApart DEF KnownOf, Queues, Placed
  <2>3. (srv'[s].quit /\ ~srv[s].quit => Quits(s)) /\ (Lives(s) => Lives(s)' \/ srv'[s].quit)
    <3>1. CASE Select(s)
      <4>1. PICK ready \in Selected(s) : srv' = [srv EXCEPT ![s].ready = ready, ![s].at = "accept"]
        BY <3>1 DEF Select
      <4> QED  BY <1>0, <3>1, <4>1 DEF ServerRecs, Lives, LoopPlaces
    <3>2. CASE RecvFds(s)
      BY <1>0, <3>2 DEF RecvFds, ServerRecs, Lives, LoopPlaces
    <3>3. CASE NoCommand(s)
      BY <1>0, <3>3 DEF NoCommand, ServerRecs, Lives, LoopPlaces
    <3>4. CASE RunCommand(s)
      BY <1>0, <3>4 DEF RunCommand, ServerAt, ServerRecs, Lives, LoopPlaces
    <3>5. CASE SendReady(s)
      BY <1>0, <3>5 DEF SendReady, ServerRecs, Lives, LoopPlaces
    <3>6. CASE TerminateServer(s) \/ IdleTimesOut(s) \/ TimesOut(s)
      BY <1>0, <3>6 DEF TerminateServer, IdleTimesOut, TimesOut, ServerRecs, Quits
    <3>7. CASE srv[s].at \in {"stat", "unlink", "release", "again"} /\ \E place \in ServerPlaces : ServerAt(s, place)
      <4>1. PICK place \in ServerPlaces : ServerAt(s, place)
        BY <3>7
      <4> QED  BY <1>0, <1>l, <3>7, <4>1 DEF ServerAt, ServerRecs
    <3>8. CASE Bind(s) \/ Listen(s)
      BY <1>0, <1>l, <3>8 DEF Bind, Listen, ServerAt, ServerRecs
    <3>9. CASE LeaveLoop(s)
      BY <1>0, <3>9 DEF LeaveLoop, ServerAt, ServerRecs, Lives, LoopPlaces
    <3>10. Stat(s) \/ UnlinkSocket(s) \/ ReleaseLock(s) \/ (LockAgain(s) /\ ServerAt(s, "unlock"))
              => srv[s].at \in {"stat", "unlink", "release", "again"} /\ \E place \in ServerPlaces : ServerAt(s, place)
      BY DEF Stat, UnlinkSocket, ReleaseLock, LockAgain, ServerPlaces
    <3> QED  BY <1>1, <3>1, <3>2, <3>3, <3>4, <3>5, <3>6, <3>7, <3>8, <3>9, <3>10 DEF StillStep
  <2>4. ControlClosed(s) \/ CommandClosed(s) =>
           KnownOf(srv'[s]) \cap Connection = (KnownOf(srv[s]) \cap Connection) \ {srv[s].control}
    BY DisconnectMoves
  <2> QED  BY <2>1, <2>2, <2>3, <2>4
<1>2. CASE Accept(s)
  <2>1. /\ KnownOf(srv'[s]) \cap Connection = KnownOf(srv[s]) \cap Connection
        /\ srv'[s].quit = srv[s].quit /\ srv'[s].at \in {"control", "command"} /\ srv[s].at = "accept"
    BY <1>2, AcceptKeeps DEF Accept
  <2> QED  BY <2>1, DisconnectMoves DEF Lives, LoopPlaces
<1>3. CASE ControlClosed(s) \/ CommandClosed(s)
  BY <1>3, DisconnectMoves DEF Lives, LoopPlaces, Quits
<1>4. CASE CloseSocket(s)
  <2>1. srv[s].at = "close" /\ srv'[s].quit = srv[s].quit
    BY <1>0, <1>4 DEF CloseSocket, ServerRecs
  <2> QED  BY <1>l, <2>1, DisconnectMoves
<1>5. CASE UnlockAndExit(s) \/ (LockAgain(s) /\ Gone(s))
  <2>1. Gone(s) /\ srv[s].at \in {"unlock", "again"}
    BY <1>5 DEF UnlockAndExit, LockAgain
  <2> DEFINE r == [NoServer EXCEPT !.hello = srv[s].hello]
  <2>2. r.backlog = <<>> /\ r.newconnections = <<>> /\ r.control = None /\ r.ui = None /\ ~r.quit
    BY DEF NoServer
  <2>3. srv' = [srv EXCEPT ![s] = r]
    BY <2>1 DEF Gone
  <2> HIDE DEF r
  <2>4. srv'[s] = r /\ KnownOf(r) \cap Connection = {}
    BY <1>0, <2>2, <2>3, EmptyQueue, NoneApart DEF KnownOf, Queues
  <2> QED  BY <1>l, <2>1, <2>2, <2>4, DisconnectMoves
<1>6. LockAgain(s) => (LockAgain(s) /\ ServerAt(s, "unlock") /\ UNCHANGED unread) \/ (LockAgain(s) /\ Gone(s))
  BY DEF LockAgain
<1> QED  BY <1>0, <1>1, <1>2, <1>3, <1>4, <1>5, <1>6 DEF ServerStep, StillStep

-----------------------------------------------------------------------------
(* Attempts are paid for.                                                  *)

LEMMA SpentFinite ==
    /\ IsFiniteSet(Spent) /\ Cardinality(Spent) \in Nat
    /\ \A c \in Client : c \notin Spent => Cardinality(Spent) <= Cardinality(Enders(scene) \ {c})
<1>1. \A S \in SUBSET Client : IsFiniteSet(S) /\ Cardinality(S) \in Nat
  BY ServerAssumption, FS_Subset, FS_CardinalityType
<1>2. Spent \in SUBSET Client /\ Enders(scene) \in SUBSET Client /\ Spent \subseteq Enders(scene)
  BY DEF Spent, Enders
<1>3. ASSUME NEW c \in Client, c \notin Spent
      PROVE  Cardinality(Spent) <= Cardinality(Enders(scene) \ {c})
  <2>1. Spent \in SUBSET (Enders(scene) \ {c}) /\ IsFiniteSet(Enders(scene) \ {c})
    BY <1>1, <1>2, <1>3
  <2> QED  BY <2>1, FS_Subset
<1> QED  BY <1>1, <1>2, <1>3

LEMMA RushedType == ScenePlayed => Rushed \in Nat
<1> SUFFICES ASSUME ScenePlayed PROVE Rushed \in Nat
  OBVIOUS
<1>1. scene.failed \in 0 .. Retries - 1
  BY SceneAsks
<1>2. scene.failed \in Nat /\ Hurried \in Nat
  BY <1>1, ServerAssumption
<1> QED  BY <1>2 DEF Rushed

\* Larger sets pay for more.
LEMMA SpentPays ==
    ASSUME Spent \subseteq Spent'
    PROVE  /\ Cardinality(Spent) \in Nat /\ Cardinality(Spent)' \in Nat
           /\ Cardinality(Spent) <= Cardinality(Spent)'
           /\ Spent' # Spent => Cardinality(Spent) < Cardinality(Spent)'
<1>1. \A S \in SUBSET Client : IsFiniteSet(S) /\ Cardinality(S) \in Nat
  BY ServerAssumption, FS_Subset, FS_CardinalityType
<1>2. Spent \in SUBSET Client /\ Spent' \in SUBSET Client
  BY DEF Spent, Enders
<1>3. IsFiniteSet(Spent') /\ Cardinality(Spent) \in Nat /\ Cardinality(Spent') \in Nat
  BY <1>1, <1>2
<1>4. Cardinality(Spent) <= Cardinality(Spent') /\ (Cardinality(Spent') = Cardinality(Spent) => Spent' = Spent)
  BY <1>3, FS_Subset
<1> QED  BY <1>3, <1>4

\* A command that is spent stays so: servers quit for good, and it makes no other
\* connection.
LEMMA SpentByServer ==
    ASSUME ConnInv, CalmInv, NEW s \in Server, ServerStep(s) \/ TimesOut(s)
    PROVE  Spent \subseteq Spent'
<1>1. /\ cl' = cl /\ scene' = scene /\ \A t \in Server \ {s} : srv'[t] = srv[t]
      /\ KnownOf(srv'[s]) \cap Connection \subseteq KnownOf(srv[s])
      /\ srv[s].quit => srv'[s].quit \/ KnownOf(srv'[s]) \cap Connection = {}
  BY ServerAwaited, ServerTurns, ServerLives DEF CalmInv
<1>2. \A d \in Client : Current(d) \in Connection /\ Current(d)' = Current(d)
  BY <1>1 DEF Current, Connection, ConnInv, ClientsTry, ClientRecs
<1>3. \A d \in Client : \A t \in Server :
          Current(d) \in KnownOf(srv'[t]) => Current(d) \in KnownOf(srv[t]) /\ (srv[t].quit => srv'[t].quit)
  BY <1>1, <1>2
<1>4. Enders(scene) \subseteq Client
  BY DEF Enders
<1> QED  BY <1>1, <1>2, <1>3, <1>4 DEF Spent

\* Whose connection makes a server quit is spent.
LEMMA QuitSpends ==
    ASSUME ConnInv, CalmInv, NEW s \in Server, ServerStep(s) \/ TimesOut(s),
           ~srv[s].quit, srv'[s].quit, ~TimesOut(s), ~IdleTimesOut(s)
    PROVE  Spent' # Spent
<1>1. PICK k \in KnownOf(srv[s]) \cap Connection :
        k[1] \in Enders(scene) /\ k = Current(k[1]) /\ cl[k[1]].at = "done"
  <2>1. CASE ControlClosed(s) \/ CommandClosed(s)
    <3>1. (srv[s].ui # None /\ scene.stuck) \/ scene.timeout = "none"
      BY <2>1, DisconnectMoves
    <3>2. srv[s].control[1] \in Enders(scene)
      BY <2>1, <3>1, ClosedIsDone DEF Enders, Users
    <3> QED  BY <2>1, <3>2, ClosedIsDone
  <2>2. CASE TerminateServer(s)
    <3>1. srv[s].ui[1] \in Enders(scene)
      BY <2>2, TerminatedIsDone DEF Enders
    <3> QED  BY <2>2, <3>1, TerminatedIsDone
  <2> QED  BY <2>1, <2>2, ServerLives DEF Quits
<1>2. k[1] \notin Spent
  BY <1>1 DEF Spent
<1>3. /\ cl' = cl /\ scene' = scene /\ \A t \in Server \ {s} : srv'[t] = srv[t]
      /\ KnownOf(srv'[s]) \cap Connection \subseteq KnownOf(srv[s])
  BY ServerAwaited, ServerTurns DEF CalmInv
<1>4. \A t \in Server : k \in KnownOf(srv'[t]) => t = s
  BY <1>1, <1>3 DEF ConnInv, OneKnows
<1>5. k[1] \in Spent'
  BY <1>1, <1>3, <1>4 DEF Spent, Current
<1> QED  BY <1>2, <1>5

\* An attempt that goes well does so until a server quits.
LEMMA GoesOn ==
    ASSUME ConnInv, CalmInv, NEW s \in Server, ServerStep(s) \/ TimesOut(s),
           srv'[s].quit => srv[s].quit, NEW c \in Client, GoesWell(c)
    PROVE  GoesWell(c)'
<1>1. /\ cl' = cl /\ scene' = scene /\ \A t \in Server \ {s} : srv'[t] = srv[t]
      /\ srv[s].at \in Coming => srv'[s].at \in Coming \/ (srv'[s].at = "select" /\ srv'[s].quit = srv[s].quit)
  BY ServerAwaited, ServerTurns DEF CalmInv
<1>2. Lives(s) => ~srv[s].quit
  BY DEF CalmInv, ParentsWait, Lives, Coming
<1>3. \A t \in Server : Lives(t) => Lives(t)'
  BY <1>1, <1>2, ServerLives DEF Lives
<1>4. CASE cl[c].at \in {"try", "got", "use"}
  BY <1>1, <1>4 DEF GoesWell
<1>5. CASE cl[c].at = "wait"
  <2>1. cl[c].server \in Server
    BY <1>5 DEF CalmInv, ParentsWait
  <2>2. srv[s].at \in Coming => srv'[s].at \in Coming \/ Lives(s)'
    BY <1>1 DEF CalmInv, ParentsWait, Lives, LoopPlaces
  <2> QED  BY <1>1, <1>3, <1>5, <2>1, <2>2 DEF GoesWell
<1>6. CASE cl[c].at \in {"look", "connect"}
  BY <1>1, <1>3, <1>6 DEF GoesWell
<1>7. CASE cl[c].at \in {"send", "reply"}
  <2>1. PICK t \in Server : Lives(t) /\ Current(c) \in KnownOf(srv[t])
    BY <1>7 DEF GoesWell
  <2>2. Current(c) \in Connection /\ Current(c)' = Current(c) /\ Current(c)[1] = c
    BY <1>1 DEF Current, Connection, ConnInv, ClientsTry, ClientRecs
  <2>3. ControlClosed(s) \/ CommandClosed(s) => Current(c) # srv[s].control
    BY <1>7, <2>2, ClosedIsDone
  <2>4. Current(c) \in KnownOf(srv'[t])
    <3>1. CASE t = s
      BY <2>1, <2>2, <2>3, <3>1, ServerLives
    <3>2. CASE t # s
      BY <1>1, <2>1, <3>2
    <3> QED  BY <3>1, <3>2
  <2> QED  BY <1>1, <1>3, <1>7, <2>1, <2>2, <2>4 DEF GoesWell
<1> QED  BY <1>4, <1>5, <1>6, <1>7 DEF GoesWell

LEMMA ServerPays ==
    ASSUME ConnInv, ScenePlayed, Calm, CalmInv, AttemptsPaid, NEW s \in Server, ServerStep(s) \/ TimesOut(s)
    PROVE  AttemptsPaid'
<1> SUFFICES ASSUME NEW c \in Client, cl'[c].at \notin Ended PROVE Paid(c)'
  BY DEF AttemptsPaid
<1>1. cl' = cl /\ scene' = scene
  BY ServerAwaited, ServerTurns DEF CalmInv
<1>2. Paid(c) /\ cl[c].tries \in Nat /\ Rushed \in Nat /\ Rushed' = Rushed
  BY <1>1, RushedType DEF AttemptsPaid, ConnInv, ClientsTry, ClientRecs, Rushed
<1>3. /\ Cardinality(Spent) \in Nat /\ Cardinality(Spent)' \in Nat
      /\ Cardinality(Spent) <= Cardinality(Spent)'
      /\ Spent' # Spent => Cardinality(Spent) < Cardinality(Spent)'
  BY SpentByServer, SpentPays
<1>4. CASE srv'[s].quit => srv[s].quit
  <2>1. GoesWell(c) => GoesWell(c)'
    BY <1>4, GoesOn
  <2> HIDE DEF GoesWell, Spent, Rushed
  <2> QED  BY <1>1, <1>2, <1>3, <2>1 DEF Paid
<1>5. CASE TimesOut(s) \/ IdleTimesOut(s)
  <2>1. cl[c].at = "try"
    BY <1>1, <1>5 DEF TimesOut, IdleTimesOut, MayTimeOut, Calm, OnItsWay
  <2>2. GoesWell(c)'
    BY <1>1, <2>1 DEF GoesWell
  <2> HIDE DEF GoesWell, Spent, Rushed
  <2> QED  BY <1>1, <1>2, <1>3, <2>2 DEF Paid
<1>6. CASE srv'[s].quit /\ ~srv[s].quit /\ ~TimesOut(s) /\ ~IdleTimesOut(s)
  <2>1. Cardinality(Spent) < Cardinality(Spent)'
    BY <1>3, <1>6, QuitSpends
  <2> HIDE DEF GoesWell, Spent, Rushed
  <2> QED  BY <1>1, <1>2, <1>3, <2>1 DEF Paid
<1> QED  BY <1>4, <1>5, <1>6

\* A command steps only while it has not ended, and no other command moves then; what
\* servers do and know is not less.
LEMMA CommandMoves ==
    ASSUME ConnInv, ServerInv, NEW c \in Client, ClientStep(c)
    PROVE  /\ cl[c].at \notin Ended /\ scene' = scene /\ \A d \in Client \ {c} : cl'[d] = cl[d]
           /\ \A t \in Server :
                  \/ /\ srv'[t].at = srv[t].at /\ srv'[t].quit = srv[t].quit /\ srv'[t].ui = srv[t].ui
                     /\ KnownOf(srv[t]) \subseteq KnownOf(srv'[t])
                     /\ \A k \in KnownOf(srv'[t]) \cap Connection : k[1] = c \/ k \in KnownOf(srv[t])
                  \/ /\ srv[t].at = "none" /\ AwaitedBy(t) = {} /\ KnownOf(srv'[t]) \cap Connection = {}
                     /\ srv'[t].at \in Coming
<1>0. Shape
  BY DEF ServerInv, HoldInv
<1>1. cl[c].at \notin Ended /\ scene' = scene
  BY DEF ClientStep, LockBitbake, NotRunning, StartServer, Started, NotStarted, LookForSocket,
     PollGetsLock, PollGivesUp, UnlockPolled, Connect, ConnectFails, SendFds, Answered, NotAnswered,
     Terminate, Ended
<1>2. CASE StartServer(c)
  <2>1. PICK s \in Server :
          /\ srv[s].at = "none" /\ AwaitedBy(s) = {}
          /\ srv' = [srv EXCEPT ![s] = [NoServer EXCEPT !.at = "boot"]]
          /\ cl' = [cl EXCEPT ![c].at = "wait", ![c].server = s]
    BY <1>2 DEF StartServer
  <2> DEFINE new == [NoServer EXCEPT !.at = "boot"]
  <2>2. /\ new.at = "boot" /\ new.backlog = <<>> /\ new.newconnections = <<>>
        /\ new.control = None /\ new.ui = None
    BY DEF NoServer
  <2>3. srv' = [srv EXCEPT ![s] = new]
    BY <2>1
  <2> HIDE DEF new
  <2>4. srv'[s] = new /\ \A t \in Server \ {s} : srv'[t] = srv[t]
    BY <2>3 DEF ConnInv, ServersPlaced
  <2>5. KnownOf(new) \cap Connection = {}
    BY <2>2, EmptyQueue, NoneApart DEF KnownOf, Queues
  <2>6. \A d \in Client \ {c} : cl'[d] = cl[d]
    BY <1>0, <2>1 DEF Shape
  <2> QED  BY <1>1, <2>1, <2>2, <2>4, <2>5, <2>6 DEF Coming
<1>3. CASE Connect(c)
  BY <1>1, <1>3, ConnectMoves
<1>4. ASSUME ~StartServer(c), ~Connect(c)
      PROVE  srv' = srv /\ \A d \in Client \ {c} : cl'[d] = cl[d]
  <2>1. srv' = srv /\ (Retry(c) \/ \E place \in ClientPlaces : ClientAt(c, place))
    <3>1. CASE LockBitbake(c) \/ NotRunning(c) \/ PollGetsLock(c) \/ SendFds(c) \/ Answered(c) \/ Terminate(c)
      BY <3>1 DEF LockBitbake, NotRunning, PollGetsLock, SendFds, Answered, Terminate, ClientPlaces, OpenPlaces
    <3>2. CASE Started(c)
      BY <3>2 DEF Started, ClientPlaces
    <3>3. CASE LookForSocket(c)
      BY <3>3 DEF LookForSocket, ClientPlaces
    <3>4. CASE NotStarted(c) \/ PollGivesUp(c) \/ UnlockPolled(c) \/ ConnectFails(c) \/ NotAnswered(c)
      BY <3>4 DEF NotStarted, PollGivesUp, UnlockPolled, ConnectFails, NotAnswered
    <3> QED  BY <1>4, <3>1, <3>2, <3>3, <3>4 DEF ClientStep
  <2> QED  BY <1>0, <2>1, RetryMoves, ClientAtMoves
<1> QED  BY <1>1, <1>2, <1>3, <1>4

LEMMA SpentByCommand ==
    ASSUME ConnInv, ServerInv, CalmInv, NEW c \in Client, ClientStep(c)
    PROVE  Spent \subseteq Spent'
<1>1. /\ cl[c].at \notin Ended /\ scene' = scene /\ \A d \in Client \ {c} : cl'[d] = cl[d]
      /\ \A t \in Server : \A k \in KnownOf(srv'[t]) \cap Connection :
             k[1] = c \/ (k \in KnownOf(srv[t]) /\ srv'[t].quit = srv[t].quit)
  BY CommandMoves
<1> SUFFICES ASSUME NEW d \in Spent PROVE d \in Spent'
  OBVIOUS
<1>2. d \in Enders(scene) /\ d \in Client /\ cl[d].at = "done" /\ d # c
  BY <1>1 DEF Spent, Enders, Ended
<1>3. cl'[d] = cl[d] /\ Current(d)' = Current(d) /\ Current(d) \in Connection /\ Current(d)[1] = d
  BY <1>1, <1>2 DEF Current, Connection, ConnInv, ClientsTry, ClientRecs
<1> QED  BY <1>1, <1>2, <1>3 DEF Spent

\* The attempts of others go on.
LEMMA OthersGoOn ==
    ASSUME ConnInv, ServerInv, CalmInv, NEW c \in Client, ClientStep(c),
           NEW d \in Client \ {c}, GoesWell(d)
    PROVE  GoesWell(d)'
<1>1. /\ cl'[d] = cl[d]
      /\ \A t \in Server :
             \/ srv'[t].at = srv[t].at /\ srv'[t].quit = srv[t].quit /\ KnownOf(srv[t]) \subseteq KnownOf(srv'[t])
             \/ srv[t].at = "none" /\ AwaitedBy(t) = {}
  BY CommandMoves
<1>2. \A t \in Server : Lives(t) => Lives(t)' /\ KnownOf(srv[t]) \subseteq KnownOf(srv'[t])
  BY <1>1 DEF Lives, LoopPlaces
<1>3. CASE cl[d].at = "wait"
  <2>1. cl[d].server \in Server /\ d \in AwaitedBy(cl[d].server)
    BY <1>3 DEF CalmInv, ParentsWait, AwaitedBy
  <2>2. srv'[cl[d].server].at = srv[cl[d].server].at
    BY <1>1, <2>1
  <2> QED  BY <1>1, <1>2, <1>3, <2>1, <2>2 DEF GoesWell
<1>4. CASE cl[d].at # "wait"
  BY <1>1, <1>2, <1>4 DEF GoesWell, Current
<1> QED  BY <1>3, <1>4

\* A server that lives has the socket to itself.
LEMMA LivesListens ==
    ASSUME ServerInv, NEW s \in Server, Lives(s)
    PROVE  sockname = s /\ Listening(s) /\ sockname # NoSocket
BY ServerAssumption DEF ServerInv, SocketInv, Lives, Listening, SocketPlaces, LoopPlaces

\* The lock is refused while a server lives, when none is about to come or go.
LEMMA RefusedLives ==
    ASSUME ServerInv, OnlyHolders, Settled, NEW c \in Client, Refused(c)
    PROVE  \E s \in Server : Lives(s)
<1>1. PICK q \in (Client \cup Server) \ {c} : hold[BitbakeLock][q] # "none"
  BY DEF Refused, Lock!Free
<1>2. Has(q)
  BY <1>1 DEF ServerInv, HoldInv, Shape, Has
<1>3. q \in Server /\ srv[q].at \notin Lockless
  BY <1>2 DEF OnlyHolders, Settled
<1> QED  BY <1>3 DEF Settled, Lives, Lockless

\* An attempt fails only if it did not go well, and goes well for as long as a server
\* lives.
LEMMA AttemptGoes ==
    ASSUME ServerInv, ConnInv, OnlyHolders, Calm, CalmInv, NEW c \in Client, ClientStep(c)
    PROVE  \/ Retry(c) /\ cl[c].at # "try" /\ ~GoesWell(c)
           \/ /\ cl'[c].tries = cl[c].tries /\ cl'[c].at # "fatal"
              /\ GoesWell(c) => GoesWell(c)' \/ cl'[c].at \in Ended \/ (cl[c].at = "try" /\ cl[c].tries < Hurried)
<1>0. Shape /\ cl \in [Client -> ClientRecs]
  BY DEF ServerInv, HoldInv, ConnInv, ClientsTry
<1>at. ASSUME NEW place \in ClientPlaces, ClientAt(c, place)
       PROVE  cl'[c].at = place /\ cl'[c].tries = cl[c].tries
  BY <1>0, <1>at DEF ClientAt, ClientRecs
<1>1. CASE PollGivesUp(c) \/ UnlockPolled(c)
  BY <1>1 DEF PollGivesUp, UnlockPolled, GoesWell
<1>2. CASE ConnectFails(c)
  BY <1>2, LivesListens DEF ConnectFails, GoesWell
<1>3. CASE NotAnswered(c)
  BY <1>3, KnowsIs DEF NotAnswered, GoesWell, Calm, Connected
<1>4. CASE LockBitbake(c)
  <2>1. CASE ClientAt(c, "got")
    <3>1. cl'[c].at = "got" /\ cl'[c].tries = cl[c].tries
      BY <1>at, <2>1 DEF ClientPlaces
    <3> QED  BY <3>1 DEF GoesWell
  <2>2. CASE Refused(c) /\ ClientAt(c, "look")
    <3>1. cl'[c].at = "look" /\ cl'[c].tries = cl[c].tries /\ srv' = srv /\ cl[c].at = "try"
      BY <1>4, <1>at, <2>2 DEF LockBitbake, ClientPlaces
    <3>2. CASE cl[c].tries >= Hurried
      <4>1. \E s \in Server : Lives(s)
        BY <1>4, <2>2, <3>2, RefusedLives DEF LockBitbake, Calm
      <4>2. GoesWell(c)'
        BY <3>1, <4>1 DEF GoesWell, Lives
      <4> QED  BY <3>1, <4>2
    <3>3. CASE cl[c].tries < Hurried
      BY <3>1, <3>3
    <3>4. cl[c].tries \in Nat /\ Hurried \in Nat
      BY <1>0, ServerAssumption DEF ClientRecs
    <3> QED  BY <3>2, <3>3, <3>4
  <2> QED  BY <1>4, <2>1, <2>2 DEF LockBitbake
<1>5. CASE NotRunning(c) \/ Terminate(c)
  <2>1. cl'[c].at = "done" /\ cl'[c].tries = cl[c].tries
    BY <1>5, <1>at DEF NotRunning, Terminate, ClientPlaces
  <2> QED  BY <2>1 DEF Ended
<1>6. CASE StartServer(c)
  <2>1. PICK s \in Server :
          /\ srv' = [srv EXCEPT ![s] = [NoServer EXCEPT !.at = "boot"]]
          /\ cl' = [cl EXCEPT ![c].at = "wait", ![c].server = s]
    BY <1>6 DEF StartServer
  <2>2. srv'[s].at = "boot"
    BY <1>0, <2>1 DEF NoServer, Shape
  <2>3. cl'[c].at = "wait" /\ cl'[c].server = s /\ cl'[c].tries = cl[c].tries
    BY <1>0, <2>1 DEF ClientRecs
  <2> QED  BY <2>2, <2>3 DEF GoesWell, Coming
<1>7. CASE Started(c)
  <2>1. /\ cl'[c].at \in {"done", "connect"} /\ cl'[c].tries = cl[c].tries /\ srv' = srv
        /\ cl[c].at = "wait" /\ srv[cl[c].server].hello
    BY <1>7, <1>at DEF Started, ClientPlaces
  <2>2. cl[c].server \in Server /\ srv[cl[c].server].at \notin Coming
    BY <2>1 DEF CalmInv, ParentsWait
  <2>3. GoesWell(c) => \E s \in Server : Lives(s)'
    BY <2>1, <2>2 DEF GoesWell, Lives
  <2>4. GoesWell(c) => GoesWell(c)' \/ cl'[c].at \in Ended
    BY <2>1, <2>2, <2>3 DEF GoesWell, Ended
  <2> QED  BY <2>1, <2>4
<1>8. CASE LookForSocket(c)
  <2>1. /\ cl[c].at = "look" /\ srv' = srv
        /\ \/ sockname = NoSocket /\ ClientAt(c, "poll")
           \/ ClientAt(c, "done") \/ ClientAt(c, "connect")
    BY <1>8 DEF LookForSocket
  <2>2. /\ cl'[c].at \in {"poll", "done", "connect"} /\ cl'[c].tries = cl[c].tries
        /\ cl'[c].at = "poll" => sockname = NoSocket
    BY <1>at, <2>1 DEF ClientPlaces
  <2>3. GoesWell(c) => \E s \in Server : Lives(s) /\ Lives(s)'
    BY <2>1 DEF GoesWell, Lives
  <2>4. GoesWell(c) => GoesWell(c)' \/ cl'[c].at \in Ended
    BY <2>2, <2>3, LivesListens DEF GoesWell, Ended
  <2> QED  BY <2>2, <2>4
<1>9. CASE PollGetsLock(c)
  <2>1. cl[c].at = "poll" /\ cl'[c].at = "unlock" /\ cl'[c].tries = cl[c].tries
    BY <1>9, <1>at DEF PollGetsLock, ClientPlaces
  <2> QED  BY <2>1 DEF GoesWell
<1>10. CASE Connect(c)
  <2>1. PICK s \in Server :
          /\ sockname = s
          /\ KnownOf(srv'[s]) = KnownOf(srv[s]) \cup {Current(c)}
          /\ srv'[s].at = srv[s].at /\ srv'[s].quit = srv[s].quit
          /\ cl'[c].at = "send" /\ cl'[c].tries = cl[c].tries
    BY <1>10, ConnectMoves
  <2>2. GoesWell(c) => Lives(s)
    BY <1>10, <2>1, LivesListens DEF Connect, GoesWell
  <2>3. GoesWell(c) => GoesWell(c)'
    BY <2>1, <2>2 DEF GoesWell, Lives, Current
  <2> QED  BY <2>1, <2>3
<1>11. CASE SendFds(c) \/ Answered(c)
  <2>1. /\ cl[c].at \in {"send", "reply"} /\ srv' = srv /\ cl'[c].tries = cl[c].tries
        /\ cl'[c].at \in {"reply", "use"}
    BY <1>11, <1>at DEF SendFds, Answered, ClientPlaces, OpenPlaces
  <2>2. GoesWell(c) => GoesWell(c)'
    BY <2>1 DEF GoesWell, Lives, Current
  <2> QED  BY <2>1, <2>2
<1> QED
  BY <1>1, <1>2, <1>3, <1>4, <1>5, <1>6, <1>7, <1>8, <1>9, <1>10, <1>11, NoneFailsToStart
  DEF ClientStep

LEMMA CommandPays ==
    ASSUME ServerInv, ConnInv, OnlyHolders, ScenePlayed, Calm, CalmInv, AttemptsPaid,
           NEW c \in Client, ClientStep(c)
    PROVE  AttemptsPaid' /\ (cl'[c].at = "fatal" => Retries <= Rushed + Cardinality(Spent) /\ c \notin Spent)
<1>1. cl[c].at \notin Ended /\ scene' = scene /\ \A d \in Client \ {c} : cl'[d] = cl[d]
  BY CommandMoves
<1>2. /\ Rushed \in Nat /\ Rushed' = Rushed /\ Hurried \in Nat /\ Hurried <= Rushed
      /\ \A d \in Client : cl[d].tries \in Nat
  <2>1. scene.failed \in 0 .. Retries - 1
    BY SceneAsks
  <2>2. scene.failed \in Nat /\ Hurried \in Nat
    BY <2>1, ServerAssumption
  <2> QED  BY <1>1, <2>2 DEF Rushed, ConnInv, ClientsTry, ClientRecs
<1>3. /\ Cardinality(Spent) \in Nat /\ Cardinality(Spent)' \in Nat
      /\ Cardinality(Spent) <= Cardinality(Spent)'
  BY SpentByCommand, SpentPays
<1>4. Paid(c)
  BY <1>1 DEF AttemptsPaid
<1>5. c \notin Spent
  BY <1>1 DEF Spent, Ended
<1>6. CASE Retry(c) /\ cl[c].at # "try" /\ ~GoesWell(c)
  <2>1. cl'[c].tries = cl[c].tries + 1 /\ cl'[c].at = IF cl[c].tries + 1 = Retries THEN "fatal" ELSE "try"
    BY <1>6 DEF Retry, ConnInv, ClientsTry
  <2> HIDE DEF Spent, Rushed, GoesWell
  <2>2. cl[c].tries < Rushed + Cardinality(Spent)
    BY <1>4, <1>6 DEF Paid
  <2>3. cl'[c].at = "fatal" => Retries <= Rushed + Cardinality(Spent)
    BY <1>2, <1>3, <2>1, <2>2
  <2>4. cl'[c].at = "try" => Paid(c)'
    <3>1. cl'[c].at = "try" => GoesWell(c)'
      BY DEF GoesWell
    <3> QED  BY <1>2, <1>3, <2>1, <2>2, <3>1 DEF Paid
  <2>5. cl'[c].at \notin Ended => Paid(c)'
    BY <2>1, <2>4 DEF Ended
  <2>6. \A d \in Client \ {c} : cl'[d].at \notin Ended => Paid(d)'
    <3> SUFFICES ASSUME NEW d \in Client \ {c}, cl'[d].at \notin Ended PROVE Paid(d)'
      OBVIOUS
    <3>1. GoesWell(d) => GoesWell(d)'
      BY OthersGoOn
    <3>2. Paid(d) /\ cl'[d] = cl[d]
      BY <1>1 DEF AttemptsPaid
    <3> QED  BY <1>2, <1>3, <3>1, <3>2 DEF Paid
  <2> QED  BY <1>5, <2>3, <2>5, <2>6 DEF AttemptsPaid
<1>7. CASE /\ cl'[c].tries = cl[c].tries /\ cl'[c].at # "fatal"
           /\ GoesWell(c) => GoesWell(c)' \/ cl'[c].at \in Ended \/ (cl[c].at = "try" /\ cl[c].tries < Hurried)
  <2> HIDE DEF Spent, Rushed, GoesWell
  <2>1. cl'[c].at \notin Ended => Paid(c)'
    BY <1>2, <1>3, <1>4, <1>7 DEF Paid
  <2>2. \A d \in Client \ {c} : cl'[d].at \notin Ended => Paid(d)'
    <3> SUFFICES ASSUME NEW d \in Client \ {c}, cl'[d].at \notin Ended PROVE Paid(d)'
      OBVIOUS
    <3>1. GoesWell(d) => GoesWell(d)'
      BY OthersGoOn
    <3>2. Paid(d) /\ cl'[d] = cl[d]
      BY <1>1 DEF AttemptsPaid
    <3> QED  BY <1>2, <1>3, <3>1, <3>2 DEF Paid
  <2> QED  BY <1>7, <2>1, <2>2 DEF AttemptsPaid
<1> QED  BY <1>6, <1>7, AttemptGoes

-----------------------------------------------------------------------------
(* Whoever asks is served.                                                 *)

\* Who has attempts enough has not used them up.
Serving == OnlyHolders /\ ScenePlayed /\ (Calm => CalmInv /\ AttemptsPaid) /\ AllServed

LEMMA ServingInit == Init => Serving
<1> SUFFICES ASSUME Init PROVE Serving
  OBVIOUS
<1>1. ScenePlayed
  BY DEF Init, ScenePlayed
<1>2. AttemptsPaid
  <2> SUFFICES ASSUME NEW c \in Client, cl[c].at \notin Ended PROVE Paid(c)
    BY DEF AttemptsPaid
  <2>1. cl[c].at = "try" /\ cl[c].tries = scene.failed
    BY DEF Init, Ended
  <2>2. GoesWell(c)
    BY <2>1 DEF GoesWell
  <2>3. scene.failed \in 0 .. Retries - 1
    BY <1>1, SceneAsks
  <2>4. scene.failed \in Nat /\ Hurried \in Nat
    BY <2>3, ServerAssumption
  <2>5. Rushed \in Nat /\ scene.failed <= Rushed
    BY <2>4 DEF Rushed
  <2>6. Cardinality(Spent) \in Nat
    BY SpentFinite
  <2> HIDE DEF Spent, Rushed, GoesWell
  <2> QED  BY <2>1, <2>2, <2>4, <2>5, <2>6 DEF Paid
<1>3. AllServed
  BY DEF Init, AllServed
<1> QED  BY <1>1, <1>2, <1>3, HoldersInit, CalmInit DEF Serving

LEMMA ServedStill ==
    ASSUME AllServed, scene' = scene, \A c \in Client : cl'[c].at = "fatal" => cl[c].at = "fatal"
    PROVE  AllServed'
BY DEF AllServed, AttemptsSuffice, Enders

LEMMA ServingNext == ServerInv /\ ConnInv /\ Serving /\ [Next]_vars => Serving'
<1> SUFFICES ASSUME ServerInv, ConnInv, Serving, [Next]_vars PROVE Serving'
  OBVIOUS
<1>1. OnlyHolders' /\ ScenePlayed' /\ scene' = scene
  BY HoldersNext, SceneNext DEF Serving
<1>2. CASE ~Calm
  BY <1>1, <1>2 DEF Serving, Calm, AllServed
<1>3. CASE Calm
  <2>1. CalmInv' /\ CalmInv /\ AttemptsPaid /\ OnlyHolders /\ ScenePlayed
    BY <1>3, CalmNext DEF Serving
  <2>2. CASE UNCHANGED vars
    <3>1. AttemptsPaid'
      BY <2>1, <2>2 DEF vars, AttemptsPaid, Paid, GoesWell, Lives, Current, Rushed, Spent
    <3>2. AllServed'
      BY <2>2, ServedStill DEF vars, Serving
    <3> QED  BY <1>1, <2>1, <3>1, <3>2 DEF Serving
  <2>3. ASSUME NEW s \in Server, ServerStep(s) \/ TimesOut(s) PROVE Serving'
    <3>1. AttemptsPaid'
      BY <1>3, <2>1, <2>3, ServerPays
    <3>2. cl' = cl
      BY <2>1, <2>3, ServerAwaited, ServerTurns DEF CalmInv
    <3>3. AllServed'
      BY <1>1, <3>2, ServedStill DEF Serving
    <3> QED  BY <1>1, <2>1, <3>1, <3>3 DEF Serving
  <2>4. ASSUME NEW c \in Client, ClientStep(c) PROVE Serving'
    <3>1. /\ AttemptsPaid'
          /\ cl'[c].at = "fatal" => Retries <= Rushed + Cardinality(Spent) /\ c \notin Spent
      BY <1>3, <2>1, <2>4, CommandPays
    <3>2. \A d \in Client \ {c} : cl'[d] = cl[d]
      BY <2>1, <2>4, CommandMoves
    <3>3. cl'[c].at = "fatal" => ~AttemptsSuffice(scene, c)
      <4> SUFFICES ASSUME cl'[c].at = "fatal" PROVE ~AttemptsSuffice(scene, c)
        OBVIOUS
      <4>1. Cardinality(Spent) \in Nat /\ Cardinality(Spent) <= Cardinality(Enders(scene) \ {c})
        BY <3>1, SpentFinite
      <4>2. Rushed \in Nat
        BY <2>1, RushedType
      <4>3. Cardinality(Enders(scene) \ {c}) \in Nat
        <5>1. Enders(scene) \ {c} \in SUBSET Client
          BY DEF Enders
        <5> QED  BY <5>1, ServerAssumption, FS_Subset, FS_CardinalityType
      <4>4. ~(Rushed + Cardinality(Enders(scene) \ {c}) < Retries)
        <5> HIDE DEF Rushed, Spent, Enders
        <5> QED  BY <3>1, <4>1, <4>2, <4>3, ServerAssumption
      <4> QED  BY <4>4 DEF AttemptsSuffice, Rushed
    <3>4. AllServed'
      <4>1. \A d \in Client : AttemptsSuffice(scene, d) => cl'[d].at # "fatal"
        BY <1>3, <3>2, <3>3 DEF Serving, AllServed, Calm
      <4> QED  BY <1>1, <4>1 DEF AllServed
    <3> QED  BY <1>1, <2>1, <3>1, <3>4 DEF Serving
  <2> QED  BY <1>3, <2>1, <2>2, <2>3, <2>4, NobodyKilled DEF Next
<1> QED  BY <1>2, <1>3

\* Whoever asks for a build gets a server, however the servers it tries come and go,
\* if the attempts of setup_bitbake are more than those that follow each other at once
\* and the other commands that may end a server: an attempt fails only by a server that
\* has ended, and each of those ends one at most.
THEOREM ServedCorrect == Spec => []AllServed
<1>1. Init => Serving
  BY ServingInit
<1>2. ServerInv /\ ConnInv /\ Serving /\ [Next]_vars => Serving'
  BY ServingNext
<1>3. Serving => AllServed
  BY DEF Serving
<1> QED  BY <1>1, <1>2, <1>3, ServerInvariant, ConnAlways, PTL DEF Spec

-----------------------------------------------------------------------------
(* Everybody gets a turn.                                                  *)

\* What a command that waits has asked for is still to be read.
RequestsKept ==
    \A s \in Server, c \in Client :
        cl[c].at = "reply" /\ Current(c) \notin answered /\ Current(c) \in KnownOf(srv[s])
            => /\ <<Current(c), "setFeatures">> \in unread
               /\ <<Current(c), "fds">> \in unread \/ srv[s].ui = Current(c)

LEMMA CurrentIs == ASSUME ConnInv, NEW c \in Client PROVE Current(c) \in Connection /\ Current(c)[1] = c
BY DEF Current, Connection, ConnInv, ClientsTry, ClientRecs

\* A server that ends takes with it what its clients have sent to it.
LEMMA GoneTakes ==
    ASSUME ConnInv, NEW s \in Server, Gone(s)
    PROVE  /\ KnownOf(srv'[s]) \cap Connection = {} /\ \A t \in Server \ {s} : srv'[t] = srv[t]
           /\ unread' \subseteq unread /\ \A u \in unread \ unread' : u[1] \in KnownOf(srv[s])
<1> DEFINE r == [NoServer EXCEPT !.hello = srv[s].hello]
<1>1. r.backlog = <<>> /\ r.newconnections = <<>> /\ r.control = None /\ r.ui = None
  BY DEF NoServer
<1>2. srv' = [srv EXCEPT ![s] = r] /\ unread' = {u \in unread : ~Knows(s, u[1])}
  BY DEF Gone
<1> HIDE DEF r
<1>3. srv'[s] = r /\ \A t \in Server \ {s} : srv'[t] = srv[t]
  BY <1>2 DEF ConnInv, ServersPlaced
<1>4. KnownOf(r) \cap Connection = {}
  BY <1>1, EmptyQueue, NoneApart DEF KnownOf, Queues
<1> QED  BY <1>2, <1>3, <1>4, KnowsIs

\* A server that does not end, read or close leaves its UI where it is.
LEMMA KeepsUI ==
    ASSUME ConnInv, NEW s \in Server, ServerStep(s) \/ TimesOut(s), ~Gone(s),
           ~RecvFds(s), ~ControlClosed(s), ~CommandClosed(s)
    PROVE  srv'[s].ui = srv[s].ui
<1>0. srv \in [Server -> ServerRecs]
  BY DEF ConnInv, ServersPlaced
<1>1. CASE Select(s)
  <2>1. PICK ready \in Selected(s) : srv' = [srv EXCEPT ![s].ready = ready, ![s].at = "accept"]
    BY <1>1 DEF Select
  <2> QED  BY <1>0, <2>1 DEF ServerRecs
<1>2. CASE Accept(s)
  BY <1>2, AcceptKeeps
<1>3. CASE NoCommand(s)
  BY <1>0, <1>3 DEF NoCommand, ServerRecs
<1>4. CASE RunCommand(s)
  BY <1>0, <1>4 DEF RunCommand, ServerAt, ServerRecs
<1>5. CASE TerminateServer(s)
  BY <1>0, <1>5 DEF TerminateServer, ServerRecs
<1>6. CASE IdleTimesOut(s) \/ TimesOut(s)
  BY <1>0, <1>6 DEF IdleTimesOut, TimesOut, ServerRecs
<1>7. CASE SendReady(s)
  BY <1>0, <1>7 DEF SendReady, ServerRecs
<1>8. CASE CloseSocket(s)
  BY <1>0, <1>8 DEF CloseSocket, ServerRecs
<1>9. CASE \E place \in {"bound", "cooker", "stat", "unlink", "close", "release", "again", "unlock"} : ServerAt(s, place)
  <2>1. PICK place \in {"bound", "cooker", "stat", "unlink", "close", "release", "again", "unlock"} : ServerAt(s, place)
    BY <1>9
  <2> QED  BY <1>0, <2>1 DEF ServerAt, ServerRecs
<1>10. Bind(s) \/ Listen(s) \/ LeaveLoop(s) \/ Stat(s) \/ UnlinkSocket(s) \/ ReleaseLock(s) \/ LockAgain(s) =>
          Gone(s) \/ \E place \in {"bound", "cooker", "stat", "unlink", "close", "release", "again", "unlock"} : ServerAt(s, place)
  BY DEF Bind, Listen, LeaveLoop, Stat, UnlinkSocket, ReleaseLock, LockAgain
<1> QED  BY <1>1, <1>2, <1>3, <1>4, <1>5, <1>6, <1>7, <1>8, <1>9, <1>10
         DEF ServerStep, UnlockAndExit, NobodyAwaits

\* A server reads a request when it answers it, and drops it with its connection.
LEMMA ServerKeepsRequests ==
    ASSUME ConnInv, RequestsKept, NEW s \in Server, ServerStep(s) \/ TimesOut(s) \/ ServerKilled(s)
    PROVE  RequestsKept'
<1>0. /\ unread \subseteq Connection \X Messages /\ Placed(srv[s]) /\ srv[s].ui \in {None, srv[s].control}
      /\ srv \in [Server -> ServerRecs] /\ None \notin Connection
  BY NoneApart DEF ConnInv, ServersPlaced, Placed, RestTypes
<1>1. /\ cl' = cl /\ \A t \in Server \ {s} : srv'[t] = srv[t]
      /\ KnownOf(srv'[s]) \cap Connection \subseteq KnownOf(srv[s])
      /\ unread' \subseteq unread /\ \A u \in unread \ unread' : u[1] \in KnownOf(srv[s])
  <2>1. CASE NobodyAwaits(s) \/ ServerKilled(s)
    BY <2>1, GoneTakes DEF NobodyAwaits, ServerKilled
  <2>2. CASE ~NobodyAwaits(s) /\ ~ServerKilled(s)
    BY <2>2, ServerTurns
  <2> QED  BY <2>1, <2>2
<1>2. answered \subseteq answered'
  BY DEF ServerStep, TimesOut, ServerKilled, Bind, Listen, SendReady, NobodyAwaits, Select,
     Accept, RecvFds, ControlClosed, NoCommand, RunCommand, TerminateServer, CommandClosed, IdleTimesOut,
     LeaveLoop, Stat, UnlinkSocket, CloseSocket, ReleaseLock, LockAgain, UnlockAndExit
<1> SUFFICES ASSUME NEW t \in Server, NEW c \in Client,
                    cl[c].at = "reply", Current(c) \notin answered', Current(c) \in KnownOf(srv'[t])
             PROVE  /\ <<Current(c), "setFeatures">> \in unread'
                    /\ <<Current(c), "fds">> \in unread' \/ srv'[t].ui = Current(c)
  BY <1>1 DEF RequestsKept, Current
<1> DEFINE k == Current(c)
<1>3. k \in Connection /\ k \in KnownOf(srv[t]) /\ k # None
  BY <1>0, <1>1, CurrentIs
<1>4. <<k, "setFeatures">> \in unread /\ (<<k, "fds">> \in unread \/ srv[t].ui = k)
  BY <1>2, <1>3 DEF RequestsKept
<1>5. CASE t # s
  <2>1. k \notin KnownOf(srv[s])
    BY <1>3, <1>5 DEF ConnInv, OneKnows
  <2> QED  BY <1>1, <1>4, <1>5, <2>1
<1>6. CASE t = s
  <2> HIDE DEF k
  <2>1. CASE RecvFds(s)
    <3>1. srv'[s].ui = srv[s].control /\ unread' = unread \ {<<srv[s].control, "fds">>}
      BY <1>0, <2>1 DEF RecvFds, ServerRecs
    <3> QED  BY <1>0, <1>3, <1>4, <1>6, <3>1 DEF k
  <2>2. CASE RunCommand(s)
    <3>1. srv'[s].ui = srv[s].ui /\ unread' = unread \ {<<srv[s].ui, "setFeatures">>} /\ srv[s].ui \in answered'
      BY <1>0, <2>2 DEF RunCommand, ServerAt, ServerRecs
    <3> QED  BY <1>4, <1>6, <3>1 DEF k
  <2>3. CASE TerminateServer(s)
    <3>1. srv'[s].ui = srv[s].ui /\ unread' = Dropped(s) /\ Said(srv[s].ui) = {"terminateServer"}
      BY <1>0, <2>3 DEF TerminateServer, ServerRecs
    <3>2. <<srv[s].ui, "terminateServer">> \in unread /\ <<srv[s].ui, "setFeatures">> \notin unread
      BY <3>1 DEF Said
    <3>3. srv[s].ui = srv[s].control /\ k # srv[s].ui
      BY <1>0, <1>4, <3>2
    <3> QED  BY <1>4, <1>6, <3>1, <3>3 DEF Dropped, k
  <2>4. CASE ControlClosed(s) \/ CommandClosed(s)
    <3>1. k # srv[s].control /\ k # srv[s].ui
      BY <1>0, <1>3, <1>6, <2>4, DisconnectMoves DEF k
    <3>2. unread' = unread \/ unread' = Dropped(s)
      BY <2>4 DEF ControlClosed, CommandClosed
    <3> QED  BY <1>4, <1>6, <3>1, <3>2 DEF Dropped, k
  <2>5. CASE CloseSocket(s)
    <3>1. /\ srv'[s].ui = srv[s].ui /\ srv'[s].backlog = <<>> /\ srv'[s].newconnections = srv[s].newconnections
          /\ srv'[s].control = srv[s].control /\ unread' = {u \in unread : u[1] \notin Range(srv[s].backlog)}
      BY <1>0, <2>5 DEF CloseSocket, ServerRecs
    <3>2. k \notin Range(srv[s].backlog)
      BY <1>0, <1>3, <1>6, <3>1, EmptyQueue DEF KnownOf, Queues, Placed, k
    <3> QED  BY <1>4, <1>6, <3>1, <3>2 DEF k
  <2>6. CASE Gone(s)
    BY <1>3, <1>6, <2>6, GoneTakes DEF k
  <2>7. CASE Accept(s) \/ Bind(s) \/ Listen(s) \/ SendReady(s) \/ Select(s) \/ NoCommand(s) \/ IdleTimesOut(s)
               \/ TimesOut(s) \/ LeaveLoop(s) \/ Stat(s) \/ UnlinkSocket(s) \/ ReleaseLock(s)
               \/ (LockAgain(s) /\ UNCHANGED unread)
    <3>1. unread' = unread
      BY <2>7 DEF Accept, Bind, Listen, SendReady, Select, NoCommand, IdleTimesOut, TimesOut, LeaveLoop,
         Stat, UnlinkSocket, ReleaseLock
    <3>2. CASE srv'[s].ui = srv[s].ui
      BY <1>4, <1>6, <3>1, <3>2 DEF k
    <3> QED  BY <2>1, <2>4, <2>6, <2>7, <3>2, KeepsUI DEF ServerStep
  <2>8. (LockAgain(s) => UNCHANGED unread \/ Gone(s)) /\ (NobodyAwaits(s) \/ UnlockAndExit(s) \/ ServerKilled(s) => Gone(s))
    BY DEF LockAgain, NobodyAwaits, UnlockAndExit, ServerKilled
  <2> QED  BY <2>1, <2>2, <2>3, <2>4, <2>5, <2>6, <2>7, <2>8 DEF ServerStep
<1> QED  BY <1>5, <1>6

\* A command says what it asks for before it waits.
LEMMA CommandKeepsRequests ==
    ASSUME ServerInv, ConnInv, RequestsKept, NEW c \in Client, ClientStep(c) \/ ClientKilled(c)
    PROVE  RequestsKept'
<1>0. Shape
  BY DEF ServerInv, HoldInv
<1>1. unread \subseteq unread' /\ answered' = answered
  BY DEF ClientStep, ClientKilled, LockBitbake, NotRunning, StartServer, Started, NotStarted, LookForSocket,
     PollGetsLock, PollGivesUp, UnlockPolled, Connect, ConnectFails, SendFds, Answered, NotAnswered,
     Terminate
<1>2. /\ \A d \in Client \ {c} : cl'[d] = cl[d]
      /\ \A t \in Server : \A k \in KnownOf(srv'[t]) \cap Connection :
             k[1] = c \/ (k \in KnownOf(srv[t]) /\ srv'[t].ui = srv[t].ui)
  <2>1. CASE ClientStep(c)
    BY <2>1, CommandMoves
  <2>2. CASE ClientKilled(c)
    BY <1>0, <2>2, ClientAtMoves DEF ClientKilled
  <2> QED  BY <2>1, <2>2
<1>3. CASE SendFds(c)
  <2>1. /\ unread' = unread \cup ({Current(c)} \X {"fds", "setFeatures"})
        /\ Current(c)' = Current(c)
    BY <1>3 DEF SendFds, ClientAt, Current, ConnInv, ClientsTry, ClientRecs
  <2>2. <<Current(c), "fds">> \in unread' /\ <<Current(c), "setFeatures">> \in unread'
    BY <2>1
  <2>3. ASSUME NEW t \in Server, NEW d \in Client \ {c}, cl'[d].at = "reply", Current(d)' \notin answered',
               Current(d)' \in KnownOf(srv'[t])
        PROVE  /\ <<Current(d)', "setFeatures">> \in unread'
               /\ <<Current(d)', "fds">> \in unread' \/ srv'[t].ui = Current(d)'
    <3>1. Current(d)' = Current(d) /\ Current(d) \in KnownOf(srv[t]) /\ srv'[t].ui = srv[t].ui /\ cl[d].at = "reply"
      BY <1>2, <2>3, CurrentIs DEF Current
    <3> QED  BY <1>1, <2>3, <3>1 DEF RequestsKept
  <2> QED  BY <2>1, <2>2, <2>3 DEF RequestsKept
<1>4. CASE ~SendFds(c)
  <2>1. cl'[c].at # "reply"
    <3>1. CASE StartServer(c)
      <4>1. PICK s \in Server : cl' = [cl EXCEPT ![c].at = "wait", ![c].server = s]
        BY <3>1 DEF StartServer
      <4> QED  BY <1>0, <4>1 DEF Shape
    <3>2. CASE NotStarted(c) \/ PollGivesUp(c) \/ UnlockPolled(c) \/ ConnectFails(c) \/ NotAnswered(c)
      BY <1>0, <3>2, RetryMoves DEF NotStarted, PollGivesUp, UnlockPolled, ConnectFails, NotAnswered
    <3>3. CASE LockBitbake(c) \/ NotRunning(c) \/ PollGetsLock(c) \/ Answered(c) \/ Terminate(c) \/ Connect(c)
                 \/ Started(c) \/ LookForSocket(c) \/ ClientKilled(c)
      <4>1. \E place : ClientAt(c, place) /\ place # "reply"
        BY <3>3 DEF LockBitbake, NotRunning, PollGetsLock, Answered, Terminate, Connect, Started, LookForSocket,
           ClientKilled
      <4> QED  BY <1>0, <4>1, ClientAtMoves
    <3> QED  BY <1>4, <3>1, <3>2, <3>3 DEF ClientStep
  <2>2. ASSUME NEW t \in Server, NEW d \in Client \ {c}, cl'[d].at = "reply", Current(d)' \notin answered',
               Current(d)' \in KnownOf(srv'[t])
        PROVE  /\ <<Current(d)', "setFeatures">> \in unread'
               /\ <<Current(d)', "fds">> \in unread' \/ srv'[t].ui = Current(d)'
    <3>1. Current(d)' = Current(d) /\ Current(d) \in KnownOf(srv[t]) /\ srv'[t].ui = srv[t].ui /\ cl[d].at = "reply"
      BY <1>2, <2>2, CurrentIs DEF Current
    <3> QED  BY <1>1, <2>2, <3>1 DEF RequestsKept
  <2> QED  BY <2>1, <2>2 DEF RequestsKept
<1> QED  BY <1>3, <1>4

LEMMA RequestsInit == Init => RequestsKept
BY DEF Init, RequestsKept

LEMMA RequestsNext == ServerInv /\ ConnInv /\ RequestsKept /\ [Next]_vars => RequestsKept'
<1> SUFFICES ASSUME ServerInv, ConnInv, RequestsKept, [Next]_vars PROVE RequestsKept'
  OBVIOUS
<1>1. CASE UNCHANGED vars
  BY <1>1 DEF vars, RequestsKept, Current
<1> QED  BY <1>1, ServerKeepsRequests, CommandKeepsRequests DEF Next

\* A select that finds nothing has nothing to find.
LEMMA AsleepReads ==
    ASSUME ConnInv, NEW s \in Server, Asleep(s)
    PROVE  srv[s].backlog = <<>> /\ ~ControlReadable(s) /\ ~CommandReadable(s) /\ ~srv[s].quit
<1> DEFINE all == {x \in {"sock", "control", "command"} :
                      \/ x = "sock" /\ srv[s].backlog # <<>>
                      \/ x = "control" /\ ControlReadable(s)
                      \/ x = "command" /\ CommandReadable(s)}
<1>1. {} = all \/ (HaveUI(s) /\ Closed(srv[s].ui) /\ {} \in {all \ {"control"}, all \ {"command"}})
  BY DEF Asleep, Selected
<1>2. CASE HaveUI(s) /\ Closed(srv[s].ui)
  <2>1. srv[s].control = srv[s].ui /\ srv[s].ui # None
    BY <1>2 DEF HaveUI, ConnInv, ServersPlaced, Placed
  <2>2. ControlReadable(s) /\ CommandReadable(s)
    BY <1>2, <2>1 DEF ControlReadable, CommandReadable
  <2>3. "control" \in all /\ "command" \in all
    BY <2>2
  <2>4. "command" \in all \ {"control"} /\ "control" \in all \ {"command"}
    BY <2>3
  <2> HIDE DEF all
  <2> QED  BY <1>1, <2>3, <2>4
<1>3. CASE {} = all
  <2>1. "sock" \notin all /\ "control" \notin all /\ "command" \notin all
    BY <1>3
  <2> QED  BY <2>1 DEF Asleep
<1> QED  BY <1>1, <1>2, <1>3

LEMMA RequestsTaken == ASSUME ConnInv, RequestsKept PROVE TurnsTaken
<1> SUFFICES ASSUME NEW s \in Server, NEW c \in Client, Asleep(s), cl[c].at = "reply",
                    Current(c) \notin answered, Knows(s, Current(c))
             PROVE  \E d \in Client \ {c} :
                        /\ srv[s].control = Current(d)
                        /\ cl[d].at \in {"send", "use"} \/ (cl[d].at = "reply" /\ Current(d) \in answered)
  BY DEF TurnsTaken
<1>1. srv[s].backlog = <<>> /\ ~ControlReadable(s) /\ ~CommandReadable(s) /\ ~srv[s].quit
  BY AsleepReads
<1>2. Placed(srv[s]) /\ srv[s].control \in Connection \cup {None} /\ None \notin Connection
  BY NoneApart DEF ConnInv, ServersPlaced, ServerRecs
\* A request to the connection that is served would be there to read.
<1>3. ASSUME NEW d \in Client, cl[d].at = "reply", Current(d) \notin answered, Current(d) \in KnownOf(srv[s])
      PROVE  Current(d) # srv[s].control /\ Current(d) # srv[s].ui
  <2>1. /\ <<Current(d), "setFeatures">> \in unread
        /\ <<Current(d), "fds">> \in unread \/ srv[s].ui = Current(d)
    BY <1>3 DEF RequestsKept
  <2>2. Current(d) # None
    BY <1>2, CurrentIs
  <2>3. Current(d) # srv[s].ui
    BY <1>1, <2>1, <2>2 DEF CommandReadable, HaveUI, Said
  <2> QED  BY <1>1, <2>1, <2>2, <2>3 DEF ControlReadable, Said
<1>4. Current(c) \in Range(srv[s].newconnections)
  BY <1>1, <1>3, KnowsIs, EmptyQueue DEF KnownOf, Queues
<1>5. srv[s].newconnections # <<>>
  BY <1>4, EmptyQueue
<1>6. srv[s].control # None /\ Open(srv[s].control)
  BY <1>1, <1>2, <1>5 DEF Placed, ControlReadable, Closed
<1> DEFINE d == srv[s].control[1]
<1>7. d \in Client /\ srv[s].control = Current(d) /\ cl[d].at \in OpenPlaces
  BY <1>2, <1>6 DEF Open, Connection
<1>8. d # c
  BY <1>3, <1>7, KnowsIs
<1>9. cl[d].at = "reply" => Current(d) \in answered
  BY <1>3, <1>7 DEF KnownOf
<1> QED  BY <1>7, <1>8, <1>9 DEF OpenPlaces

\* However clients and servers come, go and are killed, every connection is known to
\* one server, in one place there, whoever waits behind another client is in the queue,
\* and no server sleeps over a request unless its client has something to say yet
\* (ProcessServer.main, disconnect_client).
THEOREM ConnectionsCorrect == Spec => []ConnectionsSound
<1>0. Init => RequestsKept
  BY RequestsInit
<1>1. ServerInv /\ ConnInv /\ RequestsKept => ConnectionsSound
  <2> SUFFICES ASSUME ServerInv, ConnInv, RequestsKept PROVE ConnectionsSound
    OBVIOUS
  <2>1. TypeOK
    <3>1. hold \in [{BitbakeLock} -> [Client \cup Server -> {"none", "SH", "EX"}]]
      BY DEF ServerInv, HoldInv, Shape
    <3>2. \A s \in Server :
            /\ srv[s].at \in ServerPlaces
            /\ srv[s].backlog \in Seq(Connection) /\ srv[s].newconnections \in Seq(Connection)
            /\ srv[s].control \in Connection \cup {None}
            /\ srv[s].ui \in {None, srv[s].control}
            /\ srv[s].ready \subseteq {"sock", "control", "command"}
      BY DEF ConnInv, ServersPlaced, Placed, ServerRecs
    <3>3. \A c \in Client :
            /\ cl[c].at \in ClientPlaces
            /\ cl[c].tries \in 0 .. Retries
            /\ cl[c].server \in Server \cup {None}
      BY DEF ConnInv, ClientsTry, ClientRecs
    <3> QED  BY <3>1, <3>2, <3>3 DEF ConnInv, RestTypes, Messages, TypeOK
  <2>2. OnePlace
    BY KnowsIs DEF ConnInv, ServersPlaced, OneKnows, Placed, Queues, OnePlace
  <2>3. NobodyForgotten
    BY DEF ConnInv, ServersPlaced, Placed, NobodyForgotten
  <2>4. TurnsTaken
    BY RequestsTaken
  <2> QED  BY <2>1, <2>2, <2>3, <2>4 DEF ConnectionsSound
<1>2. ServerInv /\ ConnInv /\ RequestsKept /\ [Next]_vars => RequestsKept'
  BY RequestsNext
<1> QED  BY <1>0, <1>1, <1>2, ServerInvariant, ConnAlways, PTL DEF Spec

=============================================================================
