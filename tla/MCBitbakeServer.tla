-------------------------- MODULE MCBitbakeServer --------------------------
(***************************************************************************)
(* Small instances of BitbakeServer: two or three commands at once.        *)
(***************************************************************************)
EXTENDS BitbakeServer, TLC

CONSTANTS c1, c2, c3

Clients == {c1, c2, c3}

Does(a, b, c) == (c1 :> a) @@ (c2 :> b) @@ (c3 :> c)

\* Two builds at once; a build and -m, with a server that stays; a server
\* started for nobody, alone and with others; a process that is killed; waits
\* that are given up and builds that hang, with one attempt and with more;
\* three builds that queue.
Builds   == [does |-> Does("ui", "ui", "nothing"), failed |-> 0, timeout |-> "none",
             patient |-> TRUE, stuck |-> FALSE, kills |-> 0]
Lasting  == [Builds EXCEPT !.does = Does("ui", "kill", "nothing"), !.timeout = "never"]
Alone    == [Builds EXCEPT !.does = Does("only", "status", "nothing")]
Idle     == [Builds EXCEPT !.does = Does("only", "kill", "ui"), !.failed = 4, !.timeout = "some"]
Shot     == [Builds EXCEPT !.failed = 6, !.kills = 1]
Hasty    == [Builds EXCEPT !.failed = 7, !.timeout = "some", !.patient = FALSE, !.stuck = TRUE]
Retrying == [Hasty EXCEPT !.does = Does("ui", "nothing", "nothing"), !.failed = 6]
Queueing == [Lasting EXCEPT !.does = Does("ui", "ui", "ui"), !.failed = 6]

AllScenes == {Builds, Lasting, Alone, Idle, Shot, Hasty, Retrying, Queueing}

\* Nobody has too few attempts in the scenes in which all are to be served.
ASSUME \A s \in AllScenes : s.patient /\ s.kills = 0 => \A c \in Clients : AttemptsSuffice(s, c)

=============================================================================
