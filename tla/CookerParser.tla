---------------------------- MODULE CookerParser ----------------------------
(***************************************************************************)
(* The parsing of recipes in BitBake's server, class CookerParser of       *)
(* bb/cooker.py: parser processes (class Parser) work off a list of        *)
(* recipes each and put the results in a multiprocessing.Queue, the server *)
(* takes them out (parse_generator, parse_next) and in the end stops the   *)
(* processes and merges what they have cached (shutdown).                  *)
(*                                                                         *)
(* Each process leaves the entries it has parsed in a MultiProcessCache    *)
(* when it exits; there are two such caches, saved and merged in the same  *)
(* way, of which one is modelled.  A queue is, per writer, a buffer that   *)
(* its feeder thread empties into a pipe all writers share.  Every timeout *)
(* may have passed at any time.                                            *)
(***************************************************************************)
EXTENDS MultiProcessCache, Sequences, FiniteSetsExt

CONSTANTS
    Parser,     \* the parser processes
    Main,       \* the server
    Other,      \* servers of other build directories that may share the cache
    Recipe,     \* the recipes to parse
    Old,        \* entries cached by earlier parses
    PipeSize,   \* results the pipe takes before a writer blocks
    Scenes      \* what the parses to look at are like

\* jobs: the recipes each parser is given.  broken: those whose parse fails.
\* stuck: those whose parse does not end by itself.  pids: numbers killed
\* processes of earlier parses had.  halts: whether the user may stop the
\* parse.  kills: how many parsers may be killed from outside.  sharing: the
\* other servers that share the cache.
SceneType ==
    [jobs : [Parser -> Seq(Recipe)], broken : SUBSET Recipe, stuck : SUBSET Recipe,
     pids : SUBSET Slot, halts : BOOLEAN, kills : Nat, sharing : SUBSET Other]

None == "none"

ASSUME ParserAssumption ==
    /\ IsFiniteSet(Parser) /\ None \notin Recipe
    /\ Process = Parser \cup {Main} \cup Other
    /\ Main \notin Parser \cup Other /\ Parser \cap Other = {}
    /\ Recipe \cup Old \subseteq Entry
    /\ PipeSize \in Nat \ {0}
    /\ \A s \in Scenes : s \in SceneType

VARIABLES
    scene,      \* the parse looked at
    jobs,       \* jobs[p]: recipes p has not begun
    parsing,    \* parsing[p]: the recipe p is at, or none
    buffer,     \* buffer[p]: results p has put that its feeder still has
    pipe,       \* results in the pipe of result_queue
    quit,       \* parser_quit
    signal,     \* signal[p]: a SIGINT p has not handled yet
    processes,  \* self.processes, without those seen dead
    got,        \* the results the server has taken and counted in parsed
    empty,      \* parse_generator: the last get timed out
    main,       \* where the server stands in parse_next and shutdown
    outcome,    \* how the parse ended: "clean", or why not
    hit         \* processes that got a signal

queueVars == <<jobs, parsing, buffer, pipe>>
mainVars  == <<processes, got, empty, main, outcome>>
rest      == <<scene, quit, signal>>
vars      == <<cacheVars, queueVars, rest, mainVars, hit>>

\* A result is a recipe and whether its parse went well.
Result(r, ok) == [recipe |-> r, ok |-> ok]

Alive(p) == pc[p] # "exited"

ParserPlaces == {"loop", "join", "saved", "exited"}
MainPlaces   == {"init", "alive", "get", "drain", "join", "interrupted", "terminated",
                 "save", "merge", "done", "raised"}

Init ==
    /\ scene \in Scenes
    /\ CacheInit(Old, scene.pids)
    /\ pc = [p \in Process |-> CASE p = Main -> "init" [] p \in Parser -> "unborn" 
                                 [] p \in scene.sharing -> "loaded" [] OTHER -> "out"]
    /\ jobs = scene.jobs
    /\ parsing = [p \in Parser |-> None]
    /\ buffer = [p \in Parser |-> <<>>]
    /\ pipe = <<>>
    /\ quit = FALSE
    /\ signal = [p \in Parser |-> FALSE]
    /\ processes = {}
    /\ got = {}
    /\ empty = FALSE
    /\ main = "init"
    /\ outcome = None
    /\ hit = {}

-----------------------------------------------------------------------------
(* Mutants.                                                                *)

\* A process that does not heed the SIGINT is not terminated.
Bug_NoTerminate ==
    /\ main = "interrupted"
    /\ main' = "terminated"
    /\ UNCHANGED <<cacheVars, queueVars, rest, processes, got, empty, outcome, hit>>

-----------------------------------------------------------------------------
(* Parser.realrun.                                                         *)

\* jobs.pop() takes the last one.
TakeJob(p) ==
    /\ pc[p] = "loop" /\ ~signal[p]
    /\ parsing[p] = None /\ ~quit /\ jobs[p] # <<>>
    /\ parsing' = [parsing EXCEPT ![p] = jobs[p][Len(jobs[p])]]
    /\ jobs' = [jobs EXCEPT ![p] = SubSeq(@, 1, Len(@) - 1)]
    /\ UNCHANGED <<cacheVars, buffer, pipe, rest, mainVars, hit>>

\* The result is put at once: the queue has no bound of its own.  What the
\* cache had, of an earlier parse, is not added to the extras.
Parse(p) ==
    /\ pc[p] = "loop" /\ ~signal[p]
    /\ parsing[p] \in Recipe \ scene.stuck
    /\ buffer' = [buffer EXCEPT ![p] = Append(@, Result(parsing[p], parsing[p] \notin scene.broken))]
    /\ cachedata_extras' = [cachedata_extras EXCEPT ![p] = @ \cup ({parsing[p]} \ cachedata[p])]
    /\ parsing' = [parsing EXCEPT ![p] = None]
    /\ UNCHANGED <<lockVars, fileVars, cachedata, slotVars, mergeVars, pc,
                   jobs, pipe, rest, mainVars, hit>>

\* KeyboardInterrupt in the middle of a parse becomes a ParsingFailure.
ParseInterrupted(p) ==
    /\ pc[p] = "loop" /\ signal[p]
    /\ parsing[p] # None
    /\ buffer' = [buffer EXCEPT ![p] = Append(@, Result(parsing[p], FALSE))]
    /\ parsing' = [parsing EXCEPT ![p] = None]
    /\ signal' = [signal EXCEPT ![p] = FALSE]
    /\ UNCHANGED <<cacheVars, jobs, pipe, scene, quit, mainVars, hit>>

\* The loop is left: no jobs, parser_quit, or a KeyboardInterrupt between jobs.
LeaveLoop(p) ==
    /\ pc[p] = "loop" /\ parsing[p] = None
    /\ \/ signal[p] /\ signal' = [signal EXCEPT ![p] = FALSE]
       \/ ~signal[p] /\ (quit \/ jobs[p] = <<>>) /\ signal' = signal
    /\ GoesTo(p, "join")
    /\ UNCHANGED <<storeVars, queueVars, scene, quit, mainVars, hit>>

\* The feeder thread of the queue.
Feed(p) ==
    /\ Alive(p) /\ buffer[p] # <<>>
    /\ Len(pipe) < PipeSize
    /\ pipe' = Append(pipe, Head(buffer[p]))
    /\ buffer' = [buffer EXCEPT ![p] = Tail(@)]
    /\ UNCHANGED <<cacheVars, jobs, parsing, rest, mainVars, hit>>

\* results.join_thread(), and then the exit functions, the first of which is
\* parser_cache_save.  Interrupted, it leaves the buffer to its fate.
JoinFeeder(p) ==
    /\ pc[p] = "join"
    /\ \/ ~signal[p] /\ buffer[p] = <<>> /\ signal' = signal
       \/ signal[p] /\ signal' = [signal EXCEPT ![p] = FALSE]
    /\ GoesTo(p, "save")
    /\ UNCHANGED <<storeVars, queueVars, scene, quit, mainVars, hit>>

\* p ends: files and locks are closed, what its feeder still had is lost.
Ends(p) ==
    /\ CallCutOff(p)
    /\ GoesTo(p, "exited")
    /\ buffer' = [buffer EXCEPT ![p] = <<>>]
    /\ signal' = [signal EXCEPT ![p] = FALSE]
    /\ UNCHANGED <<jobs, parsing, pipe, scene, quit, mainVars>>

Exit(p) ==
    /\ pc[p] = "saved" /\ NoLockCall(p)
    /\ Ends(p)
    /\ hit' = hit

\* KeyboardInterrupt in the exit functions ends them.
ExitInterrupted(p) ==
    /\ pc[p] \in SavePlaces /\ signal[p]
    /\ Ends(p)
    /\ hit' = hit

ParserStep(p) ==
    \/ TakeJob(p) \/ Parse(p) \/ ParseInterrupted(p) \/ LeaveLoop(p)
    \/ Feed(p) \/ JoinFeeder(p) \/ Exit(p) \/ ExitInterrupted(p)
    \/ /\ Locking(p) \/ SaveStep(p)
       /\ ~signal[p]
       /\ UNCHANGED <<queueVars, rest, mainVars, hit>>

\* A parser is killed from outside, by the kernel's out of memory killer say.
Killed(p) ==
    /\ pc[p] \notin {"unborn", "exited"}
    /\ Cardinality(hit) < scene.kills
    /\ hit' = hit \cup {p}
    /\ Ends(p)

-----------------------------------------------------------------------------
(* CookerParser: start, parse_generator and parse_next.                    *)

\* The parsers are forked and inherit what the server has read.
Start ==
    /\ main = "init"
    /\ pc[Main] = "loaded" /\ NoLockCall(Main)
    /\ pc' = [p \in Process |-> CASE p = Main -> "out" [] p \in Parser -> "loop" [] OTHER -> pc[p]]
    /\ cachedata' = [p \in Process |-> IF p \in Parser THEN cachedata[Main] ELSE cachedata[p]]
    /\ processes' = Parser
    /\ main' = "alive"
    /\ UNCHANGED <<lockVars, fileVars, cachedata_extras, slotVars, mergeVars,
                   queueVars, rest, got, empty, outcome, hit>>

\* self.toparse counts these.
Toparse == UNION {{scene.jobs[p][i] : i \in DOMAIN scene.jobs[p]} : p \in Parser}

AllParsed == Cardinality(got) >= Cardinality(Toparse)

\* The results are asked for once more only while a process is left.
Bug_StopWhenDead ==
    /\ main = "alive"
    /\ LET left == {p \in processes : Alive(p)}
       IN  /\ processes' = left
           /\ CASE AllParsed -> main' = "drain" /\ outcome' = "clean"
                [] ~AllParsed /\ left = {} -> main' = "drain" /\ outcome' = "died"
                [] OTHER -> main' = "get" /\ outcome' = outcome
    /\ UNCHANGED <<cacheVars, queueVars, rest, got, empty, hit>>

\* One round of the loop up to the get: dead processes are joined, and the
\* loop is left when all is parsed or when no process and no result is left.
CheckAlive ==
    /\ main = "alive"
    /\ LET left == {p \in processes : Alive(p)}
       IN  IF processes = {} /\ empty
           THEN main' = "drain" /\ outcome' = "died" /\ UNCHANGED processes
           ELSE /\ processes' = left
                /\ IF AllParsed
                   THEN main' = "drain" /\ outcome' = "clean"
                   ELSE main' = "get" /\ outcome' = outcome
    /\ UNCHANGED <<cacheVars, queueVars, rest, got, empty, hit>>

GetTimesOut ==
    /\ main = "get" /\ pipe = <<>>
    /\ empty' = TRUE
    /\ main' = "alive"
    /\ UNCHANGED <<cacheVars, queueVars, rest, processes, got, outcome, hit>>

\* A parse that failed ends the parsing of all.
GetResult ==
    /\ main = "get" /\ pipe # <<>>
    /\ pipe' = Tail(pipe)
    /\ empty' = FALSE
    /\ IF Head(pipe).ok
       THEN got' = got \cup {Head(pipe).recipe} /\ main' = "alive" /\ outcome' = outcome
       ELSE got' = got /\ main' = "drain" /\ outcome' = "failed"
    /\ UNCHANGED <<cacheVars, jobs, parsing, buffer, rest, processes, hit>>

\* The user stops the server in the middle of the parse.
Halt ==
    /\ scene.halts
    /\ main \in {"alive", "get"}
    /\ main' = "drain" /\ outcome' = "halted"
    /\ UNCHANGED <<cacheVars, queueVars, rest, processes, got, empty, hit>>

-----------------------------------------------------------------------------
(* CookerParser.shutdown.                                                  *)

\* "Cleanup the queue before call process.join(), otherwise there might be
\* deadlocks": until a get times out.
Drain ==
    /\ main = "drain"
    /\ IF pipe # <<>>
       THEN pipe' = Tail(pipe) /\ UNCHANGED <<main, quit>>
       ELSE pipe' = pipe /\ main' = "join" /\ quit' = TRUE
    /\ UNCHANGED <<cacheVars, jobs, parsing, buffer, scene, signal, processes, got, empty, outcome, hit>>

Left == {p \in processes : Alive(p)}

\* join(0.5), and a SIGINT to those that have not ended.
Interrupt ==
    /\ main = "join"
    /\ signal' = [p \in Parser |-> signal[p] \/ p \in Left]
    /\ hit' = hit \cup Left
    /\ main' = "interrupted"
    /\ UNCHANGED <<cacheVars, queueVars, scene, quit, processes, got, empty, outcome>>

\* join(0.5), and a SIGTERM, one process after the other.
Terminate ==
    /\ main = "interrupted"
    /\ \/ Left = {} /\ main' = "terminated" /\ UNCHANGED <<cacheVars, queueVars, signal, hit>>
       \/ \E p \in Left :
              /\ CallCutOff(p)
              /\ GoesTo(p, "exited")
              /\ buffer' = [buffer EXCEPT ![p] = <<>>]
              /\ signal' = [signal EXCEPT ![p] = FALSE]
              /\ hit' = hit \cup {p}
              /\ UNCHANGED <<jobs, parsing, pipe, main>>
    /\ UNCHANGED <<scene, quit, processes, got, empty, outcome>>

\* join() without a timeout, and the server's own extras.
Join ==
    /\ main = "terminated" /\ Left = {}
    /\ main' = "save"
    /\ GoesTo(Main, "save")
    /\ UNCHANGED <<storeVars,
                   queueVars, rest, processes, got, empty, outcome, hit>>

Merge ==
    /\ main = "save" /\ pc[Main] = "saved" /\ NoLockCall(Main)
    /\ main' = "merge"
    /\ GoesTo(Main, "merge")
    /\ UNCHANGED <<storeVars,
                   queueVars, rest, processes, got, empty, outcome, hit>>

Finish ==
    /\ main = "merge" /\ pc[Main] \in {"merged", "raised"} /\ NoLockCall(Main)
    /\ main' = IF pc[Main] = "raised" THEN "raised" ELSE "done"
    /\ UNCHANGED <<cacheVars, queueVars, rest, processes, got, empty, outcome, hit>>

MainStep ==
    \/ Start \/ CheckAlive \/ GetTimesOut \/ GetResult
    \/ Drain \/ Interrupt \/ Terminate \/ Join \/ Merge \/ Finish
    \/ /\ Locking(Main) \/ InitCache(Main) \/ ReadCache(Main) \/ SaveStep(Main) \/ MergeStep(Main)
       /\ UNCHANGED <<queueVars, rest, mainVars, hit>>

\* Another server, which has read the cache, merges once it has parsed.
OtherStep(o) ==
    /\ \/ Locking(o) \/ MergeStep(o)
       \/ /\ pc[o] = "loaded" /\ NoLockCall(o)
          /\ GoesTo(o, "merge")
          /\ UNCHANGED <<storeVars>>
    /\ UNCHANGED <<queueVars, rest, mainVars, hit>>

Next ==
    \/ MainStep \/ Halt
    \/ \E p \in Parser : ParserStep(p) \/ Killed(p)
    \/ \E o \in Other : OtherStep(o)

\* Every process is scheduled and every timeout passes; the user need not stop
\* anything and nobody need kill a parser.
Spec ==
    /\ Init /\ [][Next]_vars
    /\ WF_vars(MainStep)
    /\ \A p \in Parser : WF_vars(ParserStep(p))
    /\ \A o \in Other : WF_vars(OtherStep(o))

-----------------------------------------------------------------------------
(* Properties                                                              *)

TypeOK ==
    /\ LockTypeOK
    /\ cachefile \in Files /\ extras \in [Slot -> Files]
    /\ cachedata \in [Process -> SUBSET Entry]
    /\ cachedata_extras \in [Process -> SUBSET Entry]
    /\ slot \in [Process -> Slot] /\ held \in [Slot -> [Process -> {"none", "EX"}]]
    /\ todo \subseteq Slot /\ have_data \in BOOLEAN
    /\ \A p \in Parser :
           /\ parsing[p] \in Recipe \cup {None}
           /\ pc[p] \in SavePlaces \cup {"unborn", "loop", "join", "exited"}
    /\ \A p \in Process \ Parser : pc[p] \in {"out"} \cup InitPlaces \cup SavePlaces \cup MergePlaces
    /\ Len(pipe) <= PipeSize /\ got \subseteq Recipe
    /\ main \in MainPlaces
    /\ outcome \in {None, "clean", "died", "failed", "halted"}

\* While a server merges nobody is in the middle of writing a file: what it
\* reads and removes is what a writer was done with (save_extras takes
\* cachefile.lock shared, save_merge alone).
MergeSeesWhole ==
    \A p, q \in Process : pc[p] \in {"load", "write"} /\ p # q =>
        pc[q] \notin {"dump", "load", "write"}

InFiles == UNION {extras[i].data : i \in Slot}

Servers == {Main} \cup Other

\* What a parser has saved is not lost: it is in a file, or a server has read
\* it, whatever files there were and whichever processes are stopped
\* (save_extras looks for a file of its own, save_merge reads it first).
SavedKept ==
    \A p \in Parser : pc[p] = "saved" \/ (pc[p] = "exited" /\ p \notin hit) =>
        cachedata_extras[p] \subseteq InFiles \cup UNION {cachedata[s] : s \in Servers}

\* After a clean parse, with nobody killed or interrupted on the way, every
\* entry the parse has made is in the cache file, or in the memory of another
\* server that was faster and whose cache file was written over.  (An entry that
\* was in the cache before is not saved again, and goes if such a server, which
\* may have read no cache at all, writes the file.)
CleanParseCaches ==
    main = "done" /\ outcome = "clean" /\ hit = {} =>
        Toparse \ Old \subseteq cachefile.data \cup UNION {cachedata[o] : o \in scene.sharing}

\* "Not all recipes parsed, parser thread killed/died?" is true: without a
\* kill, parse_generator does not give up while a result is on its way.
GivesUpOnlyWhenKilled == outcome = "died" => hit # {}

\* The outcome of a parse is what it says it is (parse_next, shutdown), and the queues
\* between the processes hold what they can hold.
OutcomeSound == TypeOK /\ CleanParseCaches /\ GivesUpOnlyWhenKilled

\* However the parse ends, and whatever a parser hangs in, the shutdown comes
\* to its end.
ShutdownEnds == main = "drain" ~> main \in {"done", "raised"}

=============================================================================
