--------------------------- MODULE BitbakeServer ---------------------------
(***************************************************************************)
(* The bitbake command and the server process it talks to: setup_bitbake   *)
(* (bb/main.py) takes the lock of the build directory and forks a server   *)
(* that inherits it, or connects to the server that has it;                *)
(* BitBakeServer, ProcessServer and connectProcessServer are those of      *)
(* bb/server/process.py.                                                   *)
(*                                                                         *)
(* bitbake.lock is the lock FileLock promises.  A connection is a stream   *)
(* socket, over which the client passes the pipes for events, commands and *)
(* replies, together with these pipes.  A build is one use of the          *)
(* connection, the idle thread is not told from it, and the XMLRPC         *)
(* interface is left out.                                                  *)
(***************************************************************************)
EXTENDS Naturals, FiniteSets, Sequences, SequencesExt

CONSTANTS
    Client,     \* the bitbake commands
    Server,     \* the server processes there may be at a time
    Retries,    \* attempts of setup_bitbake: 8
    Hurried,    \* after so many the next one comes 5 s later: 4
    None,       \* no connection, no server
    Scenes      \* what the user does

\* does: what each command is for: "ui" a build, "kill" for -m, "status" for
\* --status-only, "only" for --server-only, if it is run at all.  failed: the
\* attempts of each that have failed already.  timeout: BB_SERVER_TIMEOUT, none
\* or 0, some number of seconds, or -1.  patient: no client gives up on a
\* server that lives, no server takes the 5 s between attempts or of a poll to
\* come or go, and no command is met in the instant in which it has the lock
\* only to give it up.  stuck: a build may not end within the 30 s the server
\* waits for it.  kills: how many processes may be killed.
SceneType ==
    [does : [Client -> {"ui", "kill", "status", "only", "nothing"}],
     failed : 0 .. Retries - 1, timeout : {"none", "some", "never"},
     patient : BOOLEAN, stuck : BOOLEAN, kills : Nat]

NoSocket == "no socket"
Stale    == "socket of a dead server"

ASSUME ServerAssumption ==
    /\ IsFiniteSet(Client) /\ Client \cap Server = {}
    /\ {NoSocket, Stale} \cap Server = {}
    /\ None \notin Client \X (0 .. Retries)
    /\ Retries \in Nat \ {0} /\ Hurried \in Nat
    /\ \A s \in Scenes : s \in SceneType

VARIABLES
    scene,      \* the scene looked at
    hold,       \* the lock of FileLock
    sockname,   \* whose socket bitbake.sock is, NoSocket or Stale
    srv,        \* srv[s]: a server process
    cl,         \* cl[c]: a client
    unread,     \* what clients have sent and no server has read
    answered,   \* connections whose setFeatures was answered
    killed      \* how many processes were killed

vars == <<scene, hold, sockname, srv, cl, unread, answered, killed>>

BitbakeLock == "bitbake.lock"

Lock == INSTANCE FileLock WITH Name <- {BitbakeLock}, Process <- Client \cup Server

\* A connection is named for the client and its attempt.
Connection == Client \X (0 .. Retries)

Current(c) == <<c, cl[c].tries>>

\* The client has the connection open: it has connected and not closed it.
OpenPlaces == {"send", "reply", "use"}
Open(k)    == cl[k[1]].at \in OpenPlaces /\ k = Current(k[1])

ClientPlaces ==
    {"try", "got", "wait", "look", "poll", "unlock", "connect"} \cup OpenPlaces
        \cup {"done", "fatal", "dead"}

Ended == {"done", "fatal", "dead"}

LoopPlaces   == {"accept", "control", "command", "select"}
ServerPlaces == {"none", "boot", "bound", "cooker"} \cup LoopPlaces
                    \cup {"stat", "unlink", "close", "release", "again", "unlock"}

\* at: where the server stands.  hello: it has sent "r" to its parent.
\* backlog: connections not accepted.  newconnections, quit, hadanyui: as in
\* ProcessServer.  control: controllersock.  ui: whose command_channel the
\* server has, if haveui.  ready: what the last select returned.
NoServer == [at |-> "none", hello |-> FALSE, backlog |-> <<>>, newconnections |-> <<>>,
             control |-> None, ui |-> None, ready |-> {}, quit |-> FALSE, hadanyui |-> FALSE]

Init ==
    /\ scene \in Scenes
    /\ Lock!Init
    /\ sockname = NoSocket
    /\ srv = [s \in Server |-> NoServer]
    /\ cl = [c \in Client |-> [at |-> IF scene.does[c] = "nothing" THEN "done" ELSE "try",
                              tries |-> scene.failed, server |-> None]]
    /\ unread = {}
    /\ answered = {}
    /\ killed = 0

TryLock(p) == Lock!Acquire(BitbakeLock, p, "EX")

\* A call that returns None has met another holder: one that removes the file
\* in the middle of the call counts as well, for it held the lock until then.
Refused(p) == ~Lock!Free(BitbakeLock, p, "EX")

\* Servers that know the connection.
Knows(s, k) ==
    k \in Range(srv[s].backlog) \cup Range(srv[s].newconnections) \cup {srv[s].control, srv[s].ui}

Connected(k) == \E s \in Server : Knows(s, k)

\* Clients that wait for the "r" of a server they have started.
AwaitedBy(s) == {c \in Client : cl[c].at = "wait" /\ cl[c].server = s}

ClientAt(c, place) == cl' = [cl EXCEPT ![c].at = place]

ServerAt(s, place) == srv' = [srv EXCEPT ![s].at = place]

-----------------------------------------------------------------------------
(* Mutants.                                                                *)

\* After the fork the parent gives the lock up with unlockfile, not by closing
\* its file.
Bug_UnlockAfterFork(c) ==
    /\ cl[c].at = "got" /\ scene.does[c] \notin {"kill", "status"}
    /\ \E s \in Server :
           /\ srv[s].at = "none" /\ AwaitedBy(s) = {}
           /\ srv' = [srv EXCEPT ![s] = [NoServer EXCEPT !.at = "boot"]]
           /\ cl' = [cl EXCEPT ![c].at = "wait", ![c].server = s]
    /\ Lock!Release(BitbakeLock, c)
    /\ UNCHANGED <<scene, sockname, unread, answered, killed>>

\* The lock is given up as soon as the loop is left.
Bug_ReleaseFirst(s) ==
    /\ srv[s].at = "select" /\ srv[s].quit
    /\ Lock!Release(BitbakeLock, s)
    /\ ServerAt(s, "stat")
    /\ UNCHANGED <<scene, sockname, cl, unread, answered, killed>>

\* Every attempt follows the last one at once.
Bug_NoSleep(c) ==
    /\ cl[c].at = "try"
    /\ \/ TryLock(c) /\ ClientAt(c, "got")
       \/ /\ Refused(c) /\ (scene.patient => \A d \in Client : cl[d].at # "unlock")
          /\ ClientAt(c, "look") /\ hold' = hold
    /\ UNCHANGED <<scene, sockname, srv, unread, answered, killed>>

\* The UI's connection is closed without a look at the connections that wait.
Bug_KeepWaiting(s) ==
    {[srv[s] EXCEPT !.control = None, !.ui = None,
                    !.quit = @ \/ (scene.timeout = "none" /\ srv[s].backlog = <<>>
                                        /\ srv[s].newconnections = <<>>)]}

\* All connections are queued, with or without a controllersock.
Bug_QueueAll(s) ==
    /\ srv[s].at = "accept"
    /\ srv' = [srv EXCEPT ![s].backlog = <<>>,
                          ![s].newconnections = @ \o srv[s].backlog,
                          ![s].at = IF "control" \in srv[s].ready THEN "control" ELSE "command"]
    /\ UNCHANGED <<scene, hold, sockname, cl, unread, answered, killed>>

-----------------------------------------------------------------------------
(* setup_bitbake.                                                          *)

\* An exception, or a wait that timed out: the connection is closed and the
\* next attempt made, if one is left.
Retry(c) ==
    cl' = [cl EXCEPT ![c] = [at |-> IF @.tries + 1 = Retries THEN "fatal" ELSE "try",
                             tries |-> @.tries + 1, server |-> None]]

\* No server is about to come or go.
Settled ==
    /\ \A c \in Client : cl[c].at \notin {"got", "unlock"}
    /\ \A s \in Server :
           \/ srv[s].at \in {"none", "cooker"}
           \/ srv[s].at \in LoopPlaces /\ ~srv[s].quit

LockBitbake(c) ==
    /\ cl[c].at = "try"
    /\ scene.patient /\ cl[c].tries >= Hurried => Settled
    /\ \/ TryLock(c) /\ ClientAt(c, "got")
       \/ /\ Refused(c) /\ (scene.patient => \A d \in Client : cl[d].at # "unlock")
          /\ ClientAt(c, "look") /\ hold' = hold
    /\ UNCHANGED <<scene, sockname, srv, unread, answered, killed>>

\* "bitbake server is not running."
NotRunning(c) ==
    /\ cl[c].at = "got" /\ scene.does[c] \in {"kill", "status"}
    /\ Lock!Release(BitbakeLock, c)
    /\ ClientAt(c, "done")
    /\ UNCHANGED <<scene, sockname, srv, unread, answered, killed>>

\* BitBakeServer: the server is forked twice and keeps the lock's open file.
StartServer(c) ==
    /\ cl[c].at = "got" /\ scene.does[c] \notin {"kill", "status"}
    /\ \E s \in Server :
           /\ srv[s].at = "none" /\ AwaitedBy(s) = {}
           /\ Lock!HandOver(BitbakeLock, c, s)
           /\ srv' = [srv EXCEPT ![s] = [NoServer EXCEPT !.at = "boot"]]
           /\ cl' = [cl EXCEPT ![c].at = "wait", ![c].server = s]
    /\ UNCHANGED <<scene, sockname, unread, answered, killed>>

\* The server has sent "r".
Started(c) ==
    /\ cl[c].at = "wait" /\ srv[cl[c].server].hello
    /\ ClientAt(c, IF scene.does[c] = "only" THEN "done" ELSE "connect")
    /\ UNCHANGED <<scene, hold, sockname, srv, unread, answered, killed>>

\* It has died before, or not sent it for 95 s.
NotStarted(c) ==
    /\ cl[c].at = "wait"
    /\ ~srv[cl[c].server].hello
    /\ srv[cl[c].server].at = "none" \/ ~scene.patient
    /\ Retry(c)
    /\ UNCHANGED <<scene, hold, sockname, srv, unread, answered, killed>>

LookForSocket(c) ==
    /\ cl[c].at = "look"
    /\ ClientAt(c, CASE sockname = NoSocket -> "poll"
                     [] sockname # NoSocket /\ scene.does[c] = "only" -> "done"
                     [] OTHER -> "connect")
    /\ UNCHANGED <<scene, hold, sockname, srv, unread, answered, killed>>

\* The lock is asked for every 0.1 s, for 5 s.
PollGetsLock(c) ==
    /\ cl[c].at = "poll"
    /\ TryLock(c)
    /\ ClientAt(c, "unlock")
    /\ UNCHANGED <<scene, sockname, srv, unread, answered, killed>>

PollGivesUp(c) ==
    /\ cl[c].at = "poll"
    /\ Refused(c) /\ (scene.patient => Settled)
    /\ Retry(c)
    /\ UNCHANGED <<scene, hold, sockname, srv, unread, answered, killed>>

UnlockPolled(c) ==
    /\ cl[c].at = "unlock"
    /\ Lock!Release(BitbakeLock, c)
    /\ Retry(c)
    /\ UNCHANGED <<scene, sockname, srv, unread, answered, killed>>

-----------------------------------------------------------------------------
(* connectProcessServer, and the connection's use.                         *)

Listening(s) == srv[s].at \in {"cooker"} \cup LoopPlaces \cup {"stat", "unlink", "close"}

Connect(c) ==
    /\ cl[c].at = "connect"
    /\ \E s \in Server :
           /\ sockname = s /\ Listening(s)
           /\ srv' = [srv EXCEPT ![s].backlog = Append(@, Current(c))]
    /\ ClientAt(c, "send")
    /\ UNCHANGED <<scene, hold, sockname, unread, answered, killed>>

ConnectFails(c) ==
    /\ cl[c].at = "connect"
    /\ \A s \in Server : ~(sockname = s /\ Listening(s))
    /\ Retry(c)
    /\ UNCHANGED <<scene, hold, sockname, srv, unread, answered, killed>>

\* sendfds, and the command setFeatures.
SendFds(c) ==
    /\ cl[c].at = "send" /\ Connected(Current(c))
    /\ unread' = unread \cup ({Current(c)} \X {"fds", "setFeatures"})
    /\ ClientAt(c, "reply")
    /\ UNCHANGED <<scene, hold, sockname, srv, answered, killed>>

Answered(c) ==
    /\ cl[c].at = "reply" /\ Current(c) \in answered
    /\ ClientAt(c, "use")
    /\ UNCHANGED <<scene, hold, sockname, srv, unread, answered, killed>>

\* The server has closed the connection, or not answered for 60 s.
NotAnswered(c) ==
    /\ cl[c].at \in {"send", "reply"} /\ Current(c) \notin answered
    /\ ~Connected(Current(c)) \/ (cl[c].at = "reply" /\ ~scene.patient)
    /\ Retry(c)
    /\ UNCHANGED <<scene, hold, sockname, srv, unread, answered, killed>>

\* terminate, after terminateServer for -m.
Terminate(c) ==
    /\ cl[c].at = "use"
    /\ unread' = IF scene.does[c] = "kill" /\ Connected(Current(c))
                 THEN unread \cup {<<Current(c), "terminateServer">>} ELSE unread
    /\ ClientAt(c, "done")
    /\ UNCHANGED <<scene, hold, sockname, srv, answered, killed>>

ClientStep(c) ==
    \/ LockBitbake(c) \/ NotRunning(c) \/ StartServer(c) \/ Started(c) \/ NotStarted(c)
    \/ LookForSocket(c) \/ PollGetsLock(c) \/ PollGivesUp(c) \/ UnlockPolled(c)
    \/ Connect(c) \/ ConnectFails(c) \/ SendFds(c) \/ Answered(c) \/ NotAnswered(c)
    \/ Terminate(c)

-----------------------------------------------------------------------------
(* execServer.                                                             *)

\* A socket that is there is removed.
Bind(s) ==
    /\ srv[s].at = "boot"
    /\ sockname' = s
    /\ ServerAt(s, "bound")
    /\ UNCHANGED <<scene, hold, cl, unread, answered, killed>>

Listen(s) ==
    /\ srv[s].at = "bound"
    /\ ServerAt(s, "cooker")
    /\ UNCHANGED <<scene, hold, sockname, cl, unread, answered, killed>>

SendReady(s) ==
    /\ srv[s].at = "cooker" /\ AwaitedBy(s) # {}
    /\ srv' = [srv EXCEPT ![s].hello = TRUE, ![s].at = "select"]
    /\ UNCHANGED <<scene, hold, sockname, cl, unread, answered, killed>>

\* The process ends, and with it what it has open; an "r" stays in its pipe.
Gone(s) ==
    /\ srv' = [srv EXCEPT ![s] = [NoServer EXCEPT !.hello = srv[s].hello]]
    /\ unread' = {u \in unread : ~Knows(s, u[1])}

\* Its parent no longer reads: the BrokenPipeError ends the server.
NobodyAwaits(s) ==
    /\ srv[s].at = "cooker" /\ AwaitedBy(s) = {}
    /\ Lock!Gone(s)
    /\ Gone(s)
    /\ sockname' = Stale
    /\ UNCHANGED <<scene, cl, answered, killed>>

-----------------------------------------------------------------------------
(* ProcessServer.main: the loop.                                           *)

HaveUI(s) == srv[s].ui # None

\* What the select finds.  A client closes its files one after the other, of
\* which the select may see the first only.
Closed(k) == k # None /\ ~Open(k)

Said(k) == {m \in {"fds", "setFeatures", "terminateServer"} : <<k, m>> \in unread}

ControlReadable(s) == srv[s].control # None /\ (Closed(srv[s].control) \/ "fds" \in Said(srv[s].control))

CommandReadable(s) == HaveUI(s) /\ (Closed(srv[s].ui) \/ Said(srv[s].ui) # {})

Selected(s) ==
    LET all == {x \in {"sock", "control", "command"} :
                   \/ x = "sock" /\ srv[s].backlog # <<>>
                   \/ x = "control" /\ ControlReadable(s)
                   \/ x = "command" /\ CommandReadable(s)}
    IN  {all} \cup IF HaveUI(s) /\ Closed(srv[s].ui)
                   THEN {all \ {"control"}, all \ {"command"}} ELSE {}

\* disconnect_client.  Of the connections that wait the last is next; without
\* a timeout the server quits when none waits.
Disconnected(s) ==
    LET server == srv[s]
        gone   == [server EXCEPT !.control = None, !.ui = None]
    IN  {IF server.newconnections # <<>> /\ ~quits
         THEN [gone EXCEPT !.control = Last(server.newconnections),
                           !.newconnections = Front(server.newconnections)]
         ELSE [gone EXCEPT !.quit = quits \/ (scene.timeout = "none" /\ server.backlog = <<>>)] :
            quits \in {server.quit} \cup IF HaveUI(s) /\ scene.stuck THEN {TRUE} ELSE {}}

\* What a disconnected client had sent and nobody has read.
Dropped(s) == unread \ ({srv[s].control, srv[s].ui} \X {"fds", "setFeatures", "terminateServer"})

\* All that wait are accepted; the first becomes controllersock if there is none.
Accept(s) ==
    /\ srv[s].at = "accept"
    /\ LET new  == IF "sock" \in srv[s].ready THEN srv[s].backlog ELSE <<>>
           free == srv[s].control = None /\ new # <<>>
       IN  srv' = [srv EXCEPT ![s].backlog = IF new = <<>> THEN @ ELSE <<>>,
                              ![s].control = IF free THEN Head(new) ELSE @,
                              ![s].newconnections = @ \o IF free THEN Tail(new) ELSE new,
                              ![s].at = IF "control" \in srv[s].ready THEN "control" ELSE "command"]
    /\ UNCHANGED <<scene, hold, sockname, cl, unread, answered, killed>>

\* recvfds: the client becomes the UI.
RecvFds(s) ==
    /\ srv[s].at = "control"
    /\ <<srv[s].control, "fds">> \in unread
    /\ unread' = unread \ {<<srv[s].control, "fds">>}
    /\ srv' = [srv EXCEPT ![s].ui = srv[s].control, ![s].hadanyui = TRUE, ![s].at = "command"]
    /\ UNCHANGED <<scene, hold, sockname, cl, answered, killed>>

\* EOFError in recvfds; a command that is still in the pipe is lost.
ControlClosed(s) ==
    /\ srv[s].at = "control"
    /\ <<srv[s].control, "fds">> \notin unread
    /\ \E after \in Disconnected(s) : srv' = [srv EXCEPT ![s] = [after EXCEPT !.at = "command"]]
    /\ unread' = Dropped(s)
    /\ UNCHANGED <<scene, hold, sockname, cl, answered, killed>>

\* A command that has been started is on its way to a server.
OnItsWay(c) == cl[c].at \notin Ended /\ (cl[c].at = "try" => cl[c].tries > scene.failed)

\* server_timeout, or maxuiwait, which no client takes that is patient itself.
MayTimeOut(s) ==
    /\ \/ scene.timeout = "some" /\ ~HaveUI(s)
       \/ scene.timeout = "none" /\ ~srv[s].hadanyui
    /\ scene.patient => \A c \in Client : ~OnItsWay(c)

NoCommand(s) ==
    /\ srv[s].at = "command" /\ ~("command" \in srv[s].ready /\ HaveUI(s))
    /\ srv' = [srv EXCEPT ![s].at = "select"]
    /\ UNCHANGED <<scene, hold, sockname, cl, unread, answered, killed>>

TimesOut(s) ==
    /\ srv[s].at = "command" /\ ~srv[s].quit
    /\ MayTimeOut(s)
    /\ srv' = [srv EXCEPT ![s].quit = TRUE]
    /\ UNCHANGED <<scene, hold, sockname, cl, unread, answered, killed>>

RunCommand(s) ==
    /\ srv[s].at = "command" /\ "command" \in srv[s].ready
    /\ <<srv[s].ui, "setFeatures">> \in unread
    /\ unread' = unread \ {<<srv[s].ui, "setFeatures">>}
    /\ answered' = answered \cup {srv[s].ui}
    /\ ServerAt(s, "select")
    /\ UNCHANGED <<scene, hold, sockname, cl, killed>>

TerminateServer(s) ==
    /\ srv[s].at = "command" /\ "command" \in srv[s].ready
    /\ Said(srv[s].ui) = {"terminateServer"}
    /\ unread' = Dropped(s)
    /\ srv' = [srv EXCEPT ![s].quit = TRUE, ![s].at = "select"]
    /\ UNCHANGED <<scene, hold, sockname, cl, answered, killed>>

\* EOFError: the loop starts again with nothing ready.
CommandClosed(s) ==
    /\ srv[s].at = "command" /\ "command" \in srv[s].ready
    /\ HaveUI(s) /\ Said(srv[s].ui) = {}
    /\ \E after \in Disconnected(s) : srv' = [srv EXCEPT ![s] = [after EXCEPT !.at = "select"]]
    /\ UNCHANGED <<scene, hold, sockname, cl, unread, answered, killed>>

\* A select that returns nothing changes nothing until a timeout has passed.
Select(s) ==
    /\ srv[s].at = "select" /\ ~srv[s].quit
    /\ \E ready \in Selected(s) \ {{}} :
           srv' = [srv EXCEPT ![s].ready = ready, ![s].at = "accept"]
    /\ UNCHANGED <<scene, hold, sockname, cl, unread, answered, killed>>

IdleTimesOut(s) ==
    /\ srv[s].at = "select" /\ ~srv[s].quit
    /\ {} \in Selected(s)
    /\ MayTimeOut(s)
    /\ srv' = [srv EXCEPT ![s].quit = TRUE]
    /\ UNCHANGED <<scene, hold, sockname, cl, unread, answered, killed>>

-----------------------------------------------------------------------------
(* ProcessServer.main: the way out.                                        *)

LeaveLoop(s) ==
    /\ srv[s].at = "select" /\ srv[s].quit
    /\ ServerAt(s, "stat")
    /\ UNCHANGED <<scene, hold, sockname, cl, unread, answered, killed>>

\* The socket is removed only if its inode is the server's.
Stat(s) ==
    /\ srv[s].at = "stat"
    /\ ServerAt(s, IF sockname = s THEN "unlink" ELSE "close")
    /\ UNCHANGED <<scene, hold, sockname, cl, unread, answered, killed>>

UnlinkSocket(s) ==
    /\ srv[s].at = "unlink"
    /\ sockname' = NoSocket
    /\ ServerAt(s, "close")
    /\ UNCHANGED <<scene, hold, cl, unread, answered, killed>>

\* sock.close(): connections not accepted are reset.
CloseSocket(s) ==
    /\ srv[s].at = "close"
    /\ srv' = [srv EXCEPT ![s].backlog = <<>>, ![s].at = "release"]
    /\ unread' = {u \in unread : u[1] \notin Range(srv[s].backlog)}
    /\ UNCHANGED <<scene, hold, sockname, cl, answered, killed>>

ReleaseLock(s) ==
    /\ srv[s].at = "release"
    /\ Lock!Release(BitbakeLock, s)
    /\ ServerAt(s, "again")
    /\ UNCHANGED <<scene, sockname, cl, unread, answered, killed>>

\* Had again, the lock's file is removed.  Otherwise the process ends one way
\* or the other: the file is gone, or startswith([...]) raises TypeError.
LockAgain(s) ==
    /\ srv[s].at = "again"
    /\ \/ TryLock(s) /\ ServerAt(s, "unlock") /\ UNCHANGED unread
       \/ Refused(s) /\ Gone(s) /\ hold' = hold
    /\ UNCHANGED <<scene, sockname, cl, answered, killed>>

UnlockAndExit(s) ==
    /\ srv[s].at = "unlock"
    /\ Lock!Release(BitbakeLock, s)
    /\ Gone(s)
    /\ UNCHANGED <<scene, sockname, cl, answered, killed>>

ServerStep(s) ==
    \/ Bind(s) \/ Listen(s) \/ SendReady(s) \/ NobodyAwaits(s)
    \/ Select(s) \/ Accept(s) \/ RecvFds(s) \/ ControlClosed(s)
    \/ NoCommand(s) \/ RunCommand(s) \/ TerminateServer(s) \/ CommandClosed(s)
    \/ IdleTimesOut(s)
    \/ LeaveLoop(s) \/ Stat(s) \/ UnlinkSocket(s) \/ CloseSocket(s)
    \/ ReleaseLock(s) \/ LockAgain(s) \/ UnlockAndExit(s)

-----------------------------------------------------------------------------
(* Processes may be killed; the kernel gives up their locks.               *)

ClientKilled(c) ==
    /\ killed < scene.kills /\ cl[c].at \notin Ended
    /\ Lock!Gone(c)
    /\ ClientAt(c, "dead")
    /\ killed' = killed + 1
    /\ UNCHANGED <<scene, sockname, srv, unread, answered>>

ServerKilled(s) ==
    /\ killed < scene.kills /\ srv[s].at # "none"
    /\ Lock!Gone(s)
    /\ Gone(s)
    /\ sockname' = IF sockname = s THEN Stale ELSE sockname
    /\ killed' = killed + 1
    /\ UNCHANGED <<scene, cl, answered>>

Next ==
    \/ \E c \in Client : ClientStep(c) \/ ClientKilled(c)
    \/ \E s \in Server : ServerStep(s) \/ TimesOut(s) \/ ServerKilled(s)

\* Every process is scheduled; a build ends; a server that nothing reaches
\* sees its timeouts pass.
Spec ==
    /\ Init /\ [][Next]_vars
    /\ \A c \in Client : WF_vars(ClientStep(c))
    /\ \A s \in Server : WF_vars(ServerStep(s))

-----------------------------------------------------------------------------
(* Properties                                                              *)

TypeOK ==
    /\ hold \in [{BitbakeLock} -> [Client \cup Server -> {"none", "SH", "EX"}]]
    /\ sockname \in Server \cup {NoSocket, Stale}
    /\ \A s \in Server :
           /\ srv[s].at \in ServerPlaces
           /\ srv[s].backlog \in Seq(Connection) /\ srv[s].newconnections \in Seq(Connection)
           /\ srv[s].control \in Connection \cup {None}
           /\ srv[s].ui \in {None, srv[s].control}
           /\ srv[s].ready \subseteq {"sock", "control", "command"}
    /\ \A c \in Client :
           /\ cl[c].at \in ClientPlaces
           /\ cl[c].tries \in 0 .. Retries
           /\ cl[c].server \in Server \cup {None}
    /\ unread \subseteq Connection \X {"fds", "setFeatures", "terminateServer"}
    /\ answered \subseteq Connection

\* At most one server works in the build directory, from the fork to the close
\* of bitbake.lock, whoever is killed and however many commands are started at
\* once (BitBakeServer, ProcessServer.main).
OneServer ==
    \A s, t \in Server :
        srv[s].at \notin {"none", "again", "unlock"} /\ srv[t].at \notin {"none", "again", "unlock"}
            => s = t

\* The socket file of a server that takes commands is its own: neither a
\* server that ends nor one that starts has removed or replaced it ("Remove
\* the socket file so we don't get any more connections to avoid races").
SocketIsLive ==
    \A s \in Server : srv[s].at \in LoopPlaces /\ ~srv[s].quit => sockname = s

\* While a server answers one client the other connections it has accepted are
\* in the queue: a client that waits for an answer is never forgotten.
NobodyForgotten ==
    \A s \in Server : srv[s].newconnections # <<>> => srv[s].control # None \/ srv[s].quit

\* A connection is known to one server, in one place: it is to be accepted, it
\* waits for its turn, or it is the one that is served.  So nobody is answered
\* twice, and closing one connection never closes another's.
OnePlace ==
    /\ \A s \in Server :
           /\ IsInjective(srv[s].backlog) /\ IsInjective(srv[s].newconnections)
           /\ Range(srv[s].backlog) \cap Range(srv[s].newconnections) = {}
           /\ srv[s].control \notin Range(srv[s].backlog) \cup Range(srv[s].newconnections)
    /\ \A s, t \in Server : \A k \in Connection : Knows(s, k) /\ Knows(t, k) => s = t

\* Nothing there is to read for the server in its select.
Asleep(s) == srv[s].at = "select" /\ ~srv[s].quit /\ {} \in Selected(s)

\* A server sleeps over a command that waits for its answer only while another
\* has the turn, which has something to say yet: no request is lost between the
\* queues, the select and the connection that is served, and nobody waits for a
\* client that waits itself.
TurnsTaken ==
    \A s \in Server, c \in Client :
        Asleep(s) /\ cl[c].at = "reply" /\ Current(c) \notin answered /\ Knows(s, Current(c))
            => \E d \in Client \ {c} :
                   /\ srv[s].control = Current(d)
                   /\ cl[d].at \in {"send", "use"} \/ (cl[d].at = "reply" /\ Current(d) \in answered)

\* The connections of every server are in one place each, none is forgotten, and
\* each gets its turn (ProcessServer.main).
ConnectionsSound == TypeOK /\ OnePlace /\ NobodyForgotten /\ TurnsTaken

\* The commands that may end a server: -m, and all that connect to one which does
\* not outlive its clients, or whose build may hang.
Enders(user) ==
    {d \in Client :
        \/ user.does[d] = "kill"
        \/ user.does[d] \in {"ui", "status"} /\ (user.stuck \/ user.timeout = "none")}

\* The command has an attempt for every server the others may end, beside those
\* that failed already or follow each other at once.
AttemptsSuffice(user, c) ==
    (IF user.failed > Hurried THEN user.failed ELSE Hurried) + Cardinality(Enders(user) \ {c}) < Retries

\* Without kills and with clients that wait long enough, whoever asks for a
\* build gets connected, however the servers it tries come and go: the
\* attempts of setup_bitbake are not used up, if there are no more commands
\* than they are meant for.
AllServed ==
    scene.patient /\ scene.kills = 0
        => \A c \in Client : AttemptsSuffice(scene, c) => cl[c].at # "fatal"

\* Every bitbake command ends, although it may wait for an answer without
\* limit: every client a server has accepted or left in its backlog is
\* answered or sees the connection closed.
ClientsEnd == \A c \in Client : <>(cl[c].at \in Ended)

\* A server that has a timeout, or none of which is 0, does not outlive the
\* commands for ever: it ends when nobody uses it, even if no client came.
ServersEnd == scene.timeout # "never" => <>[](\A s \in Server : srv[s].at = "none")

\* Nobody waits for ever for somebody else (setup_bitbake, ProcessServer.main).
EveryoneEnds == ClientsEnd /\ ServersEnd

=============================================================================
