---------------------------- MODULE CameraStream ----------------------------
(***************************************************************************)
(* camera-stream.c: the main thread, which captures frames, watches for    *)
(* stalls, reopens the camera and reloads the configuration; the push      *)
(* thread; and frame_buf between them, one frame behind a mutex and a      *)
(* condition variable.  What the push thread does with a frame it has      *)
(* taken is FrameSpool, whose variables this module shares.                *)
(*                                                                         *)
(* The signal handlers run at any point of either thread.  A step of a     *)
(* thread ends where the other thread or a handler can tell.               *)
(***************************************************************************)
EXTENDS FrameSpool

CONSTANTS
    STALL_MAX_TIMEOUTS,   \* timeouts of select in a row before a reopen
    MAX_REOPEN_ATTEMPTS,  \* reopens in a row that may fail
    MaxConfigs,           \* bound on the times stream.conf is changed
    Scenarios             \* what the world does, see ScenarioType

ScenarioType ==
    [ frames : 0 .. MaxFrames,
      world : BOOLEAN,       \* the server and the clock change
      signals : BOOLEAN,
      hardware : SUBSET {"stall",    \* select times out
                         "dqbuf",    \* a frame cannot be dequeued
                         "open",     \* the camera cannot be opened
                         "encode",   \* a frame cannot be compressed
                         "nomem"} ]  \* nor copied

ASSUME StreamAssumption ==
    /\ STALL_MAX_TIMEOUTS \in Nat \ {0} /\ MAX_REOPEN_ATTEMPTS \in Nat \ {0}
    /\ MaxConfigs \in Nat /\ Scenarios \subseteq ScenarioType

VARIABLES
    scenario,
    proc,         \* "up", "down", "aborted"
    running, reload_flag,
    slot, ready,  \* frame_buf.data, as the number of its frame, and .ready
    mpc, ppc,     \* where the main and the push thread are
    jpeg,         \* the frame the main thread is about to hand over
    captured,     \* frames so far
    camera,       \* "open", or "lost": cam_fd is -1, bufs points to what was freed
    timeouts, attempts,
    conf, cfg,    \* versions of stream.conf: of the file, and loaded
    hup_due,      \* the file was changed and SIGHUP not sent yet
    missed        \* the broadcast came between the push thread's test and its wait

flags == <<running, reload_flag>>
buffer == <<slot, ready>>
device == <<camera, timeouts, attempts>>
config == <<conf, cfg, hup_due>>
streamVars == <<scenario, proc, flags, buffer, mpc, ppc, jpeg, captured, device, config, missed>>
allVars == <<vars, streamVars>>

MainPlaces == {"loop", "reload", "clear", "select", "reopen", "handover", "stop", "broadcast", "join"}
PushPlaces == {"loop", "lock", "test", "towait", "waiting", "busy", "ended"}

StreamInit ==
    /\ Init
    /\ scenario \in Scenarios
    /\ proc = "up" /\ running = TRUE /\ reload_flag = FALSE
    /\ slot = 0 /\ ready = FALSE
    /\ mpc = "loop" /\ ppc = "loop" /\ jpeg = 0 /\ captured = 0
    /\ camera = "open" /\ timeouts = 0 /\ attempts = 0
    /\ conf = 0 /\ cfg = 0 /\ hup_due = FALSE /\ missed = FALSE

\* The process ends; what is left is what the next one starts with.
Gone(how) ==
    /\ proc' = how /\ running' = TRUE /\ reload_flag' = FALSE
    /\ slot' = 0 /\ ready' = FALSE
    /\ mpc' = "loop" /\ ppc' = "loop" /\ jpeg' = 0
    /\ camera' = "open" /\ timeouts' = 0 /\ attempts' = 0 /\ missed' = FALSE
    /\ UNCHANGED <<scenario, captured, config>>

Fault(kind) == kind \in scenario.hardware

-----------------------------------------------------------------------------
(* The main thread.                                                        *)

Up(place) == proc = "up" /\ mpc = place

\* What the kernel or the C library may do when a descriptor of -1 is put into an
\* fd_set, or memory is unmapped and freed a second time: end the process.
Aborts == Killed /\ Gone("aborted")

\* The top of the loop, to the call of select.
MainLoops ==
    /\ Up("loop")
    /\ mpc' = IF ~running THEN "stop" ELSE IF reload_flag THEN "reload" ELSE "select"
    /\ UNCHANGED <<vars, scenario, proc, flags, buffer, ppc, jpeg, captured, device, config, missed>>

SetsBadDescriptor == Up("loop") /\ running /\ ~reload_flag /\ camera = "lost" /\ Aborts

\* close_camera, load_config, open_camera; when it fails, out of the loop.
Reload ==
    /\ Up("reload")
    /\ cfg' = conf
    /\ \/ camera' = "open" /\ mpc' = "clear"
       \/ Fault("open") /\ camera' = "lost" /\ mpc' = "stop"
    /\ UNCHANGED <<vars, scenario, proc, flags, buffer, ppc, jpeg, captured, timeouts, attempts,
                   conf, hup_due, missed>>

ClearFlag ==
    /\ Up("clear")
    /\ reload_flag' = FALSE
    /\ timeouts' = 0 /\ attempts' = 0
    /\ mpc' = "select"
    /\ UNCHANGED <<vars, scenario, proc, running, buffer, ppc, jpeg, captured, camera, config, missed>>

\* The camera that is lost has no frames.
TimesOut ==
    /\ Up("select") /\ (Fault("stall") \/ camera = "lost")
    /\ timeouts' = timeouts + 1
    /\ mpc' = IF timeouts' >= STALL_MAX_TIMEOUTS THEN "reopen" ELSE "loop"
    /\ UNCHANGED <<vars, scenario, proc, flags, buffer, ppc, jpeg, captured, camera, attempts,
                   config, missed>>

\* The buffer is not ready after all (EAGAIN), or select fails.
NothingReady ==
    /\ Up("select") /\ camera = "open"
    /\ mpc' = "loop"
    /\ UNCHANGED <<vars, scenario, proc, flags, buffer, ppc, jpeg, captured, device, config, missed>>

\* VIDIOC_DQBUF and the conversion; a frame that cannot be compressed is gone.
Captures ==
    /\ Up("select") /\ camera = "open" /\ captured < scenario.frames
    /\ timeouts' = 0 /\ attempts' = 0
    /\ captured' = captured + 1
    /\ \/ jpeg' = captured' /\ mpc' = "handover"
       \/ Fault("encode") /\ jpeg' = jpeg /\ mpc' = "loop"
    /\ UNCHANGED <<vars, scenario, proc, flags, buffer, ppc, camera, config, missed>>

CaptureFails ==
    /\ Up("select") /\ camera = "open" /\ Fault("dqbuf")
    /\ mpc' = "reopen"
    /\ UNCHANGED <<vars, scenario, proc, flags, buffer, ppc, jpeg, captured, device, config, missed>>

\* Mutant: a failed attempt starts the count of timeouts anew.
Bug_ReopenLater ==
    /\ Up("reopen")
    /\ \/ camera' = "open" /\ timeouts' = 0 /\ attempts' = 0 /\ mpc' = "loop"
       \/ /\ Fault("open") /\ camera' = "lost"
          /\ attempts' = attempts + 1 /\ timeouts' = 0
          /\ mpc' = IF attempts' >= MAX_REOPEN_ATTEMPTS THEN "stop" ELSE "loop"
    /\ UNCHANGED <<vars, scenario, proc, flags, buffer, ppc, jpeg, captured, config, missed>>

\* reopen_camera, and what the loop makes of it.
Reopen ==
    /\ Up("reopen")
    /\ \/ camera' = "open" /\ timeouts' = 0 /\ attempts' = 0 /\ mpc' = "loop"
       \/ /\ Fault("open") /\ camera' = "lost"
          /\ attempts' = attempts + 1
          /\ IF attempts' >= MAX_REOPEN_ATTEMPTS
             THEN mpc' = "stop" /\ timeouts' = timeouts
             ELSE mpc' = "loop" /\ timeouts' = STALL_MAX_TIMEOUTS
    /\ UNCHANGED <<vars, scenario, proc, flags, buffer, ppc, jpeg, captured, config, missed>>

\* close_camera once more, of buffers that were freed.
ReleasesTwice == (Up("reload") \/ Up("reopen")) /\ camera = "lost" /\ Aborts

PushHoldsLock == ppc \in {"test", "towait"}

\* Mutant: the push thread is woken only for the first frame.
Bug_SignalOnce ==
    /\ Up("handover") /\ ~PushHoldsLock
    /\ slot' = jpeg /\ ready' = TRUE /\ jpeg' = 0
    /\ ppc' = IF ppc = "waiting" /\ slot = 0 THEN "lock" ELSE ppc
    /\ mpc' = "loop"
    /\ UNCHANGED <<vars, scenario, proc, flags, captured, device, config, missed>>

\* The frame replaces the one in frame_buf, and wakes the push thread.
HandOver ==
    /\ Up("handover") /\ ~PushHoldsLock
    /\ slot' = jpeg /\ ready' = TRUE /\ jpeg' = 0
    /\ ppc' = IF ppc = "waiting" THEN "lock" ELSE ppc
    /\ mpc' = "loop"
    /\ UNCHANGED <<vars, scenario, proc, flags, captured, device, config, missed>>

Stops ==
    /\ Up("stop")
    /\ running' = FALSE
    /\ mpc' = "broadcast"
    /\ UNCHANGED <<vars, scenario, proc, reload_flag, buffer, ppc, jpeg, captured, device, config, missed>>

\* pthread_cond_broadcast, without the mutex.
Broadcasts ==
    /\ Up("broadcast")
    /\ ppc' = IF ppc = "waiting" THEN "lock" ELSE ppc
    /\ missed' = (ppc = "towait")
    /\ mpc' = "join"
    /\ UNCHANGED <<vars, scenario, proc, flags, buffer, jpeg, captured, device, config>>

\* pthread_join, and the end of the process.
Exits ==
    /\ Up("join") /\ ppc = "ended"
    /\ Gone("down")
    /\ UNCHANGED vars

MainStep ==
    \/ MainLoops \/ Reload \/ ClearFlag \/ TimesOut \/ NothingReady \/ Captures \/ CaptureFails \/ Reopen
    \/ HandOver \/ Stops \/ Broadcasts \/ Exits

-----------------------------------------------------------------------------
(* The push thread.                                                        *)

\* while (running), and pthread_mutex_lock, for which nobody waits for long.
PushLoops ==
    /\ proc = "up" /\ ppc = "loop"
    /\ ppc' = IF running THEN "lock" ELSE "ended"
    /\ UNCHANGED <<vars, scenario, proc, flags, buffer, mpc, jpeg, captured, device, config, missed>>

PushLocks ==
    /\ proc = "up" /\ ppc = "lock"
    /\ ppc' = "test"
    /\ UNCHANGED <<vars, scenario, proc, flags, buffer, mpc, jpeg, captured, device, config, missed>>

\* Mutant: only ready is looked at.
Bug_TestReadyOnly ==
    /\ proc = "up" /\ ppc = "test" /\ ~ready
    /\ ppc' = "towait"
    /\ UNCHANGED <<vars, scenario, proc, flags, buffer, mpc, jpeg, captured, device, config, missed>>

\* while (!frame_buf.ready && running)
FindsNothing ==
    /\ proc = "up" /\ ppc = "test" /\ ~ready /\ running
    /\ ppc' = "towait"
    /\ UNCHANGED <<vars, scenario, proc, flags, buffer, mpc, jpeg, captured, device, config, missed>>

Waits ==
    /\ proc = "up" /\ ppc = "towait"
    /\ ppc' = "waiting"
    /\ UNCHANGED <<vars, scenario, proc, flags, buffer, mpc, jpeg, captured, device, config, missed>>

\* pthread_cond_wait may return for no reason.
WakesForNothing ==
    /\ proc = "up" /\ ppc = "waiting"
    /\ ppc' = "lock"
    /\ UNCHANGED <<vars, scenario, proc, flags, buffer, mpc, jpeg, captured, device, config, missed>>

FindsEnd ==
    /\ proc = "up" /\ ppc = "test" /\ ~running
    /\ ppc' = "ended"
    /\ UNCHANGED <<vars, scenario, proc, flags, buffer, mpc, jpeg, captured, device, config, missed>>

\* Mutant: frame_buf.ready stays set.
Bug_TakesAgain ==
    /\ proc = "up" /\ ppc = "test" /\ ready /\ running
    /\ taken' = taken \cup {slot} /\ cur' = slot /\ phase' = "posting"
    /\ ppc' = "busy"
    /\ UNCHANGED <<fileVars, todo, sent, fateVars, worldVars, scenario, proc, flags, buffer, mpc, jpeg,
                   captured, device, config, missed>>

\* The copy under the lock; without memory for it the frame is passed over.
Takes ==
    /\ proc = "up" /\ ppc = "test" /\ ready /\ running
    /\ ready' = FALSE
    /\ \/ taken' = taken \cup {slot} /\ cur' = slot /\ phase' = "posting" /\ ppc' = "busy"
       \/ Fault("nomem") /\ ppc' = "loop" /\ UNCHANGED <<taken, cur, phase>>
    /\ UNCHANGED <<fileVars, todo, sent, fateVars, worldVars, scenario, proc, flags, slot, mpc, jpeg,
                   captured, device, config, missed>>

\* post_jpeg, and the drain or the store.
Pushes ==
    /\ proc = "up" /\ ppc = "busy"
    /\ PushStep
    /\ ppc' = IF phase' = "idle" THEN "loop" ELSE "busy"
    /\ UNCHANGED <<scenario, proc, flags, buffer, mpc, jpeg, captured, device, config, missed>>

PushThread ==
    PushLoops \/ PushLocks \/ FindsNothing \/ Waits \/ FindsEnd \/ Takes \/ Pushes

-----------------------------------------------------------------------------
(* Signals, the init script and the world.                                 *)

\* select returns at once when it is the main thread that the handler runs on.
Interrupts == mpc' = mpc \/ (mpc = "select" /\ mpc' = "loop")

Term ==
    /\ proc = "up" /\ scenario.signals /\ running
    /\ running' = FALSE
    /\ Interrupts
    /\ UNCHANGED <<vars, scenario, proc, reload_flag, buffer, ppc, jpeg, captured, device, config, missed>>

ConfigChanges ==
    /\ scenario.signals /\ conf < MaxConfigs
    /\ conf' = conf + 1 /\ hup_due' = TRUE
    /\ UNCHANGED <<vars, scenario, proc, flags, buffer, mpc, ppc, jpeg, captured, device, cfg, missed>>

Hup ==
    /\ proc = "up" /\ hup_due
    /\ hup_due' = FALSE /\ reload_flag' = TRUE
    /\ Interrupts
    /\ UNCHANGED <<vars, scenario, proc, running, buffer, ppc, jpeg, captured, device, conf, cfg, missed>>

\* The init script starts it again, with the present configuration.
Launch ==
    /\ proc # "up"
    /\ proc' = "up" /\ cfg' = conf
    /\ UNCHANGED <<vars, scenario, flags, buffer, mpc, ppc, jpeg, captured, device, conf, hup_due, missed>>

Kill9 == proc = "up" /\ Killed /\ Gone("down")

StreamWorld == scenario.world /\ World /\ UNCHANGED streamVars

StreamNext ==
    \/ MainStep \/ SetsBadDescriptor \/ ReleasesTwice
    \/ PushThread \/ WakesForNothing
    \/ Term \/ ConfigChanges \/ Hup \/ Launch \/ Kill9
    \/ StreamWorld

\* Both threads are scheduled; select returns in two seconds, a transfer ends in
\* three (CURLOPT_TIMEOUT); and a thread gets the mutex that is free again and again.
StreamSpec ==
    /\ StreamInit /\ [][StreamNext]_allVars
    /\ WF_allVars(MainStep) /\ WF_allVars(PushThread) /\ SF_allVars(HandOver)

-----------------------------------------------------------------------------
(* Properties                                                              *)

StreamTypeOK ==
    /\ proc \in {"up", "down", "aborted"}
    /\ running \in BOOLEAN /\ reload_flag \in BOOLEAN /\ ready \in BOOLEAN /\ missed \in BOOLEAN
    /\ captured \in 0 .. MaxFrames /\ slot \in 0 .. captured /\ jpeg \in 0 .. captured
    /\ mpc \in MainPlaces /\ ppc \in PushPlaces
    /\ camera \in {"open", "lost"} /\ attempts \in 0 .. MAX_REOPEN_ATTEMPTS
    /\ timeouts \in 0 .. STALL_MAX_TIMEOUTS + 1
    /\ conf \in 0 .. MaxConfigs /\ cfg \in 0 .. conf /\ hup_due \in BOOLEAN

\* "trigger retry" (camera-stream.c:608): while the main thread goes on without a camera,
\* the reopens that have failed are counted and the next timeout leads to another.
RetryArmed ==
    camera = "lost" /\ mpc \in {"loop", "select"} =>
        attempts \in 1 .. MAX_REOPEN_ATTEMPTS - 1 /\ timeouts = STALL_MAX_TIMEOUTS

\* Of the frames handed over the newest is not lost between the threads: it is there to
\* be taken, or was taken, unless there was no memory for the copy.
NewestKept == slot # 0 => IF ready THEN \A f \in taken : f < slot ELSE slot \in taken \/ Fault("nomem")

\* The buffer between the threads and the counters of the main thread are sound.
StreamSound == StreamTypeOK /\ RetryArmed /\ NewestKept

\* The push thread does with the frames it is given what FrameSpool says: it takes each
\* once and none older than one it has taken (frame_buf, push_thread).
PushesFrames == Spec

\* "sends latest JPEG to server as fast as it arrives" (push_thread): a frame handed over
\* is taken, it or a newer one in its place, unless the process ends.
LatestTaken == ready ~> ~ready \/ ~running \/ proc # "up"

\* After SIGHUP a process that keeps running loads the file as it is by now, unless the
\* signal came between the load and the reset of the flag, or the file changes again.
ReloadHeeded ==
    reload_flag /\ mpc # "clear" ~> cfg = conf \/ hup_due \/ ~running \/ proc # "up"

\* What the two threads owe each other and the outside: frames and reloads.
StreamResponds == LatestTaken /\ ReloadHeeded

\* "shutting down..." (signal_handler): after SIGTERM, or when the camera is given up, the
\* process ends, unless the broadcast, which is sent without the mutex, fell between the
\* push thread's test and its wait.
StreamEnds == proc = "up" /\ ~running ~> proc # "up" \/ missed

\* "reopen_camera already slept; keep trying next iteration" (camera-stream.c:607): a
\* camera that cannot be reopened makes the process try again, or end by itself.
KeepsTrying == proc # "aborted"

=============================================================================
