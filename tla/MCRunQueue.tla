----------------------------- MODULE MCRunQueue -----------------------------
(***************************************************************************)
(* Builds of five tasks for RunQueue.                                      *)
(***************************************************************************)
EXTENDS RunQueue

CONSTANTS h1, h2, h3

Tasks == 1 .. 5

Build(depends, setscene) ==
    [depends |-> depends, setscene |-> setscene,
     targets |-> {5}, hard |-> [t \in Tasks |-> {}],
     pn |-> [t \in Tasks |-> t], fn |-> [t \in Tasks |-> t], unihash |-> [t \in Tasks |-> h1],
     stamps |-> {}, sqstamps |-> {}, noexec |-> {}, unneeded |-> setscene, sstate |-> {},
     flags |-> {}]

\* Two recipes: 1 and 2 of the first, 3 and 4 of the second, which uses it.
Chain == [Build(<<{}, {1}, {2}, {3}, {4}>>, {2, 4}) EXCEPT !.fn = <<1, 1, 3, 3, 5>>]

Cached(b, objects) == {[b EXCEPT !.sstate = o] : o \in SUBSET objects}
ChainBuilds == Cached(Chain, {<<2, h1>>, <<4, h1>>, <<4, h2>>})

\* The same two recipes in two configurations, with one hash.
Twins == [Build(<<{}, {1}, {}, {3}, {2, 4}>>, {2, 4}) EXCEPT !.pn = <<1, 2, 1, 2, 5>>, !.fn = <<1, 1, 3, 3, 5>>]
Triplets == [Build(<<{}, {}, {}, {1, 2}, {3, 4}>>, {1, 2, 3}) EXCEPT !.pn = <<1, 1, 1, 4, 5>>]
\* Twins that are built with one and the same task, and deferred for ever.
Sharing == [Build(<<{}, {1}, {1}, {}, {2, 3, 4}>>, {2, 3}) EXCEPT !.pn = <<1, 2, 2, 4, 5>>, !.fn = <<1, 2, 3, 4, 5>>]
TwinBuilds == Cached(Twins, {<<2, h1>>}) \cup Cached(Triplets, {<<1, h1>>, <<1, h2>>})
                  \cup Cached(Sharing, {<<2, h1>>}) \cup {[Triplets EXCEPT !.sqstamps = {1}]}

\* The setscene variant of 4 needs that of 2; 3 is built with both.
Hard == [Build(<<{}, {1}, {2}, {3}, {4}>>, {2, 4}) EXCEPT !.hard = <<{}, {}, {}, {2}, {}>>]
HardFan == [Build(<<{}, {1}, {1}, {2, 3}, {4}>>, {2, 3, 4}) EXCEPT !.hard = <<{}, {}, {2}, {2, 3}, {}>>]
\* Twins 3 and 4 need 1 and 2, which have hashes of their own.
HardTwins == [Build(<<{}, {}, {1}, {2}, {3, 4}>>, {1, 2, 3, 4}) EXCEPT
                 !.hard = <<{}, {}, {1}, {2}, {}>>, !.pn = <<1, 2, 3, 3, 5>>]
\* 4, deferred after 2, fails with 3; its stamp is current once 1 is unpacked.
LateStamp == [Build(<<{}, {}, {}, {1, 3}, {2, 4}>>, {1, 2, 3, 4}) EXCEPT
                 !.hard = <<{}, {}, {}, {3}, {}>>, !.pn = <<1, 2, 3, 2, 5>>, !.fn = <<1, 2, 3, 1, 5>>,
                 !.stamps = {4}, !.unneeded = {}, !.sstate = {<<1, h1>>}]
HardBuilds == {LateStamp} \cup Cached(HardTwins, {<<1, h1>>, <<2, h1>>, <<3, h1>>}) \cup Cached(Hard, {<<2, h1>>, <<4, h1>>}) \cup Cached(HardFan, {<<2, h1>>, <<3, h1>>, <<4, h1>>})

\* Plain task 1 lies under both setscene tasks.
Diamond == Build(<<{}, {1}, {1}, {3}, {2, 4}>>, {2, 4})
DiamondBuilds == Cached(Diamond, {<<2, h1>>, <<4, h1>>, <<4, h2>>, <<2, h2>>})

\* 4 covers a task that does not depend on 2; 5 needs 2 and 4; 3 is asked for.
Side == [Build(<<{}, {1}, {}, {2, 3}, {2, 4}>>, {2, 4}) EXCEPT !.fn = <<1, 1, 3, 3, 5>>]
Shortcut == [Build(<<{}, {1}, {2}, {3}, {2, 4}>>, {2, 4}) EXCEPT !.sstate = {<<2, h1>>, <<4, h1>>}]
Asked == [Chain EXCEPT !.targets = {3, 5}, !.sstate = {<<2, h1>>, <<4, h1>>}]
HardStamped == [Hard EXCEPT !.sqstamps = {4}, !.unneeded = {}]

\* More to unpack than there are threads.
Wide == [Build(<<{}, {}, {}, {1, 2, 3}, {4}>>, {1, 2, 3}) EXCEPT !.sstate = {<<1, h1>>, <<2, h1>>, <<3, h1>>}]

\* What an earlier build has left: stamps of tasks, of setscene tasks, and tasks
\* without code.
Stamped == {[Chain EXCEPT !.stamps = r, !.sqstamps = s, !.noexec = n, !.sstate = {<<4, h1>>}] :
              r \in {{}, {1}, {1, 2}, {2, 3}, {1, 2, 3, 4}}, s \in SUBSET {2}, n \in {{}, {2}, {3}, {5}}}

\* The options of the command line, on the chain with 4 in the cache as well.
Flagged == {[Chain EXCEPT !.flags = f, !.targets = {4, 5}, !.sstate = {<<2, h1>>, <<4, h1>>}] :
              f \in {{"halt"}, {"force"}, {"setsceneonly"}, {"skipsetscene"}, {"stop", "halt"}}}
           \cup {[Build(Chain.depends, {}) EXCEPT !.flags = f] : f \in {{}, {"setsceneonly"}}}
           \cup {[Diamond EXCEPT !.flags = {"pressure"}], [Twins EXCEPT !.flags = {"halt"}]}

AllBuilds == ChainBuilds \cup TwinBuilds \cup HardBuilds \cup DiamondBuilds \cup Stamped \cup Flagged
                 \cup Cached(Side, {<<4, h1>>, <<4, h2>>}) \cup {Shortcut, Asked, HardStamped, Wide}

\* One recipe in four configurations, of which the second was built before; and one in
\* two, whose dependencies have different hashes until both are found to be equivalent
\* to a third.  In both, tasks with one hash come on workers at once.
Quads == [Build(<<{}, {}, {}, {}, {1, 2, 3, 4}>>, {1, 2, 3, 4}) EXCEPT
             !.pn = <<1, 1, 1, 1, 5>>, !.sqstamps = {2}, !.sstate = {<<1, h1>>}]
Converging == [Build(<<{}, {}, {1}, {2}, {3, 4}>>, {1, 2, 3, 4}) EXCEPT
                  !.pn = <<1, 2, 3, 3, 5>>, !.unihash = <<h1, h1, h1, h2, h1>>]
Racing == {Quads, Converging}
=============================================================================
