--------------------------- MODULE MCCookerParser ---------------------------
(***************************************************************************)
(* Small instances of CookerParser: two parsers with adjacent process ids. *)
(***************************************************************************)
EXTENDS CookerParser, TLC

CONSTANTS p1, p2, server, other

Parsers == {p1, p2}
Others  == {other}
Names   == {Glf}
All     == Parsers \cup {Main} \cup Other
Pids    == (p1 :> 1) @@ (p2 :> 2) @@ [p \in {Main} \cup Other |-> 3]

\* No trouble; the cache shared with another server; files of killed processes
\* left by an earlier parse; a recipe that does not end and a user who stops
\* the parse; a parser that is killed; a recipe that fails.
Quiet    == [jobs |-> (p1 :> <<"a", "b">>) @@ (p2 :> <<"c">>), broken |-> {}, stuck |-> {},
             pids |-> {}, halts |-> FALSE, kills |-> 0, sharing |-> {}]
OneEach  == [Quiet EXCEPT !.jobs = (p1 :> <<"a">>) @@ (p2 :> <<"c">>)]
Sharing  == [Quiet EXCEPT !.jobs = (p1 :> <<"a">>) @@ (p2 :> <<>>), !.sharing = Others]
LeftOver == [OneEach EXCEPT !.pids = {1}]
Stopped  == [OneEach EXCEPT !.jobs = (p1 :> <<"a">>) @@ (p2 :> <<"b", "c">>),
                            !.stuck = {"b"}, !.halts = TRUE]
Shot     == [OneEach EXCEPT !.kills = 1]
Failing  == [OneEach EXCEPT !.broken = {"c"}]

AllScenes == {Quiet, Sharing, LeftOver, Stopped, Shot, Failing}

=============================================================================
