# A verification project for the sensor image and the BitBake that builds it

The repository holds two programs. `src/poky/meta-mylayer` is a Yocto layer: six C
daemons, a kernel module and shell scripts for a Raspberry Pi 4 that reads sensors and a
camera and sends what it reads to a web server. `src/poky/bitbake` (2.8.0, in Python) is
the build engine that runs the tasks which make the image: several kinds of processes
that share locks, caches, a socket and a hash server. This directory holds TLA+ modules
translated from both, TLC configurations that check them on small instances, and proofs
that TLAPS checks for every value of the constants.

## 1. Inventory

### The layer (paths relative to `src/poky/meta-mylayer/`)

| part | source | state it keeps | operations |
|---|---|---|---|
| data-collector, delivery | `recipes-core/data-collector/files/data-collector.c` (82-135, 253-403) | the payload in hand, the attempt counter, the queue file `unsent.jsonl` | send with retry, store, trim, drain |
| data-collector, daemon | the same file (the rest) | `data_store` under its lock, the flags `running` and `reload_config`, the URL buffer, the cached humidity and temperature | listener loop, derived metrics, payload, reload, shutdown |
| url-updater, update-server-url.sh | `recipes-core/url-updater/files/url-updater`, `.../update-server-url.sh` | the configuration files | write a URL, send SIGHUP or start the service |
| camera-stream | `recipes-hwmodules/camera-stream/files/camera-stream.c` | camera descriptor and mapped buffers, the one-slot frame buffer, the offline frame directory | capture, hand over, push, store, trim, drain, reopen, reload, shutdown |
| image-uploader | `recipes-hwmodules/image-uploader/files/image-uploader.c` | captured files, the lock file, flags | capture, upload with retry, reload |
| sensor clients | `recipes-hwmodules/{gy63,bmp180,htu21d,dht11}/files` | descriptors, error counters | read, convert, send a datagram, reopen |
| dht11 kernel module | `recipes-kernel/dht11kernel/files/dht11_kmod.c` | the bit buffer | interrupt, decode |
| service scripts | the init scripts of every daemon | PID files | start, stop, restart, reload |
| timesync-http | `recipes-core/timesync-http/files` | the system clock | set the clock from an HTTP header |
| bench programs, recipes, kernel fragments | the rest of the layer | none | none |

A sensor client sends `name:value` datagrams to the socket the collector's *listener*
thread has bound. The listener appends each reading to `data_store`. Every ten seconds the
*web_sender* thread adds derived metrics, copies the store into a JSON payload, sends that,
and resets the count. A payload that fails three times becomes a line of the queue file;
after a success the queue file is drained. `url-updater` rewrites `server.conf` and sends
SIGHUP; the handler sets a flag that web_sender tests once per cycle. camera-stream has the
same shape with frames for payloads and files for lines.

### BitBake (paths relative to `src/poky/bitbake/lib/`)

| part | source | state it keeps | operations |
|---|---|---|---|
| run queue, execution | `bb/runqueue.py` (1838-3350) | which tasks are buildable, running, complete, failed; the sets of the setscene queue; hashes; workers | start, skip, complete, fail, defer, rehash, migrate, finish |
| run queue, preparation | `bb/runqueue.py` (1-1300), `bb/taskdata.py`, `bb/providers.py` | the task graph | compute it, once |
| hash equivalence server | `hashserv/server.py`, `hashserv/sqlite.py`, `hashserv/client.py`, `bb/asyncrpc/` | the tables of unihashes and outhashes, the queue of the backfill, the mark of a collection | get, report, report-equiv, read-through to an upstream server, backfill, remove, mark and sweep, clean |
| lock files | `bb/utils.py` (437-530) | files and flocks | lockfile, unlockfile |
| multi-process caches | `bb/cache.py` (829-936) | the cache file, one extras file per parser, their locks | init_cache, save_extras, save_merge |
| parser processes | `bb/cooker.py` (1988-2352) | jobs, results, the pipe between, quit event and signals | parse, give results, fail, stop, save |
| server and commands | `bb/main.py`, `bb/server/process.py` | `bitbake.lock`, `bitbake.sock`, connections | start or find a server, connect, run commands, time out, terminate |
| cooker, commands, events | `bb/cooker.py`, `bb/command.py`, `bb/event.py` | configuration, recipes | the commands themselves |
| signatures, recipe cache, fetchers | `bb/siggen.py`, `bb/cache.py`, `bb/fetch2` | hashes, one cache per build directory, downloads | compute, load, save, fetch under a lock file |
| metadata language | `bb/data_smart.py`, `bb/parse`, `bb/codeparser.py`, `bb/pysh`, `ply` | the datastore | parse, expand |
| PR server, Toaster, layer index, user interfaces | `prserv`, `toaster`, `layerindexlib`, `bb/ui` | databases, screens | serve, show |

A `bitbake` command takes `bitbake.lock` and forks a server that inherits it, or connects to
the server that has it. The server parses recipes in parser processes, which leave what they
cached in files the server merges. Then the run queue hands tasks to workers: a *setscene*
task takes the output of a task from the shared state cache if its unihash is there, other
tasks are run. A task that has run reports its output to the hash server, which may answer
that an equal output has another unihash; the server then recomputes the hashes of what
depends on it and may find that something it was about to run is in the cache after all.

**What is hard here.** In the layer: two threads share a store that is unlocked during a
send that may take half a minute; signals set flags that loops test now and then; a file is
rewritten by rename with no write checked; the process may be killed between any two system
calls. In BitBake: decisions of the run queue are taken back while tasks run; two tasks may
want one object of the cache; the hash server awaits another server between a query and an
insertion, and may die between two commits; lock files are unlinked by their last holder
while others wait for them; a server that ends and a server that starts share names in the
file system; a parser blocks on a pipe that nobody reads any more. `PROJECT.json` lists
these hazards at their lines, with the property that would catch each.

**What makes each part correct.**
- delivery: no payload disappears without a reason; the queue is in order, bounded, and
  nothing acknowledged is sent again without cause; a backlog leaves.
- daemon: the store is not overrun; a payload is what the reset erases; a reading goes out
  once; derived metrics have sound inputs; URL changes and shutdowns take effect.
- camera-stream: the newest frames survive an outage; the directory is bounded; a frame is
  taken once, the newest is not lost between the threads; a lost camera is tried again;
  reloads and shutdowns take effect.
- run queue: a task runs once, after what it depends on, with its inputs really there; no
  two tasks restore one object at once; the workers are counted; every build ends, with
  all it was asked for or all that could be done.
- hash server: a unihash is justified by equal outputs; an answer stays true; equal outputs
  share a unihash; a collection deletes nothing it was told to keep; requests end.
- locks: readers and writers exclude each other whatever is unlinked or killed.
- parsing: what a parser saved is not lost; a merge reads whole files; the shutdown ends.
- server: one per build directory, its socket its own; no command waits for ever.

## 2. The modules

| module | what it is |
|---|---|
| `StoreAndForward` | the abstract promise of an offline queue: made, held, queued, arrived or gone |
| `PayloadDelivery` | the delivery path of the collector, one action per effect others can see |
| `DataCollector` | the whole daemon: both threads, sensors, updater, signals, restarts; delivers by `INSTANCE PayloadDelivery` |
| `FrameSpool` | the push thread of camera-stream and its directory of offline frames |
| `CameraStream` | both threads of camera-stream, the frame buffer, signals, restarts; extends `FrameSpool` |
| `BuildOrder` | the abstract promise of a build: a task begins once, after what it depends on |
| `SceneQueueData` | `build_scenequeue_data`: the graph of all tasks collapsed to that of setscene tasks, as functions, beside a definition by paths |
| `RunQueue` | `RunQueueExecute` and the messages of its workers |
| `HashServ` | the hash server, its upstream server, builders and administration |
| `FileLock` | the abstract promise of a lock: any number of readers or one writer |
| `LockFile` | `lockfile` and `unlockfile`, one system call at a time |
| `MultiProcessCache` | the extras files, the merge and their locks; extends `LockFile` for the lock of the cache, uses `FileLock` for those of the extras |
| `CookerParser` | parsers, queue and server of a parse; extends `MultiProcessCache` |
| `BitbakeServer` | commands and servers of a build directory; uses `FileLock` for `bitbake.lock` |
| `*_proofs` | theorems and proofs about `PayloadDelivery`, `DataCollector`, `LockFile`, `RunQueue`, `CookerParser`, `BitbakeServer`, `FrameSpool` and `CameraStream` (one module), `HashServ` |
| `MC*` | the instances TLC checks |

Definitions named `Bug_...` are forms a slip in the code could take; TLC finds the property
of the run violated when one replaces the definition it stands beside.

### PayloadDelivery

A payload is its number. `cur`, `attempt`, `spool` and `pos` are the `json` pointer, the
loop counter, the lines of `unsent.jsonl` and the lines drained so far; `phase` is where
web_sender stands. `acked`, `delivered`, `dropped` and `perished` are history: which
payloads a 200 or 201 was received for, which the server has, which were given up with a
log line, which were in memory when the process was killed.

| code | actions |
|---|---|
| `send_to_server` | `Accepted`, `Failed` (an error status, no connection, or a lost reply) |
| `send_with_retry_or_store` | `SendAccepted`, `SendFailed`, `Release` |
| `store_locally` | `CheckSpace`, `TrimLowSpace`, `RecheckSpace`, `EnsureParentDir`, `TrimToLimit`, `AppendLine` |
| `trim_offline_queue` | `TrimOfflineQueue`, one step: only the rename at its end is visible |
| `drain_offline_queue` | `OpenDrain`, `DrainSent`, `DrainStops`, `DrainCommit` (the rename or unlink) |
| SIGKILL and a new start | `Killed` |

`Faults` names what the environment may do: no space, no directory, a failed `fopen`, a
write cut short, a reply lost. A write cut short loses whole lines in the model; the code
may also tear one, which is then a line the server rejects. Files keep what was written:
nothing here models a power cut that loses unsynced data. The quotes of lines 268 to 385
of `data-collector.c` are typographic; the model reads them as the ASCII quotes they stand
for.

### DataCollector

A reading is its number in the order of sending; a store entry keeps the readings its
value was computed from, so that the payload tells what reached the server. `lpc` and `wpc`
are the positions of the two threads; between two positions lies one critical section or
one system call. `load_config` and `reload_config = 0` are two steps (`LoadConfig`,
`ClearReload`) since the signal may come between them. The updater's `echo > file` is two
steps (`TruncateConf`, `WriteConf`) since the daemon may read the empty file. `Receive`
has no exit on a signal: `signal()` restarts `recvfrom`. `HandleDatagram` and
`ComputeDerivedMetrics` are one step each, being critical sections of the same lock.

`StoreFrees` says that every reading leaves the store, so that a full one takes readings again: a
cycle of web_sender comes to its reset whatever fails in the delivery. It has two premises: that
there is not again and again no memory for a payload, which is a cycle without reset, and that the
model may still make a payload (`OutOfPayloads`; a reading that went out must leave even then).

When `malloc` fails the cycle ends with the derived metrics in the store and nothing sent, so the
next cycle appends them once more (data-collector.c:524-534): that a payload has at most one of each
metric is said of a process that has memory, that they are made of accepted readings of any.

### FrameSpool

A frame is its number in the order of capture, `cur` the copy the push thread holds, `dir`
the directory as `list_offline_frames` returns it. A file name is the wall clock in decimal,
and names are compared as strings, so of the clock the model keeps `ahead`: how many names
sort after the one the clock gives now. A step of the clock (`ClockStepped`) raises it; so
does leaving the first seconds of 1970 for the present, since `37...` sorts after `17...`.
With `ahead = 0` a new frame comes last.

| code | actions |
|---|---|
| `post_jpeg` | `Accepted`, `Failed` |
| `push_thread` | `TakeFrame`, `PostAccepted`, `PostFailed`, `CheckSpace`, `DropFrame`, `Done` |
| `offline_frames_trim` | `Trim` |
| `offline_frames_store` | `CreateFile`, `WriteFile`: between the two a kill leaves an empty file |
| `offline_frames_drain_batch` | `ListFrames`, `DrainSkips`, `DrainSent`, `DrainStops` |

`torn` holds the frames whose file is not the whole picture: `fwrite` is not checked. The
server may take such a file or answer it with an error. `Unreadable` holds the frames whose
file cannot be opened again, which the drain skips. The names leaked at the end of a batch
are not modelled, nor are two stores in one nanosecond.

### CameraStream

`CameraStream` puts `FrameSpool` into its process. `mpc` and `ppc` are the positions of the
main and the push thread, `slot` and `ready` are `frame_buf.data` and `.ready`, `camera` says
whether `cam_fd` is a descriptor or -1, `timeouts` and `attempts` are the two counters of
`main`, `conf` and `cfg` the versions of `stream.conf` on disk and in memory.

| code | actions |
|---|---|
| `main`, capture | `MainLoops`, `TimesOut`, `NothingReady`, `Captures`, `HandOver` |
| `main`, recovery and `reopen_camera` | `CaptureFails`, `Reopen`, `SetsBadDescriptor`, `ReleasesTwice` |
| `main`, reload | `Reload`, `ClearFlag`: the signal may come between the two |
| `main`, end | `Stops`, `Broadcasts`, `Exits` |
| `push_thread` | `PushLoops`, `PushLocks`, `FindsNothing`, `Waits`, `FindsEnd`, `Takes`, `Pushes` (a `PushStep` of `FrameSpool`) |
| `signal_handler` and the init script | `Term`, `Hup`, `Launch` |
| SIGKILL and a new start | `Kill9`, `Launch` |

The test of `ready` and `running` and the wait are two steps (`FindsNothing`, `Waits`) although
the mutex is held over both: a handler, or the main thread's `running = 0` and its broadcast,
take no mutex. After a failed reopen `cam_fd` is -1 and `bufs` is what was freed. What `FD_SET`
of -1 and a second release do is undefined; the model lets them go well (select times out) or
end the process (`Aborts`), as a fortified C library does. `Hup` and `Term` may interrupt
`select`, or run on the push thread. Left out: the conversion to JPEG but for its failure; a
failed `curl_easy_init`; `log_message` in the handler; the push thread reading strings of `cfg`
while `load_config` writes them, and the headers, with the API key, which are made once and do
not follow a reload; `snapshot_interval`, which is only logged.

### RunQueue and SceneQueueData

The sets keep the names of the code; those that the setscene bookkeeping changes together
are fields of `sq` (`sq_buildable`, `sq_running`, `scenequeue_covered`,
`scenequeue_notcovered`, tasks done, `sq_harddep_deferred`). `rqdata` is what preparation
hands over: the graph, hashes, stamps on disk, what the cache holds, the options. A call of
`execute()` is several actions in a row and `pc` tells how far it is; messages of workers
are read between two calls.

| code | actions |
|---|---|
| `process_possible_migrations` | `Rehash`, `Migrate` (with `TakenOut`, `PutBack`, `HaltBuild`) |
| `execute`, setscene half | `SkipUnneeded`, `DeferHard`, `SceneDecided`, `StartSetscene`, `UpdateHoldoff`, `SetsceneDone` |
| `execute`, task half | `SkipTask`, `NoexecTask`, `StartTask`, `Wait`, `ForceDeferred`, `BuildOver`, `Finish` |
| `runqueue_process_waitpid`, `runQueuePipe.read` | `TaskCompleted`, `TaskFailed`, `SceneCompleted`, `SceneFailed`, `UnihashReported` |
| `finish_runqueue` | `StopBuild` |

Seven turns of this code that one would not expect, each found as a counterexample to a stronger
property or to an invariant of the proofs; the properties are stated around them:
- a deferred setscene task that failed with a hard dependency (`DeferHard`) is *notcovered*; when
  the task it was deferred after completes and its own stamp has become current by then, it is
  taken for covered too (runqueue.py:2088, 3119). Only such a task is ever both (`CoveredApart`);
- a migration may leave a setscene task on a worker and fail it with a hard dependency; the tasks
  it covers may then start while it still unpacks (`CoveredWaits`);
- a task that is both keeps what only it needs from being needed (`NotNeeded` sees it covered), and
  yet runs when a change of hash has made its stamp old; seven tasks are needed to see it. So
  `InputsPresent` excepts what a task with hard dependencies may have lost in that way (`Spared`);
- a deferred task that fails with a hard dependency runs its real task at once, beside its twin;
- a deferred task whose stamp was there at the start is covered and completes, but stays in
  `sq_deferred`; when it comes to be the next in line, those deferred after it all start at once
  (`twins_race`). `TwinsApartAtFirst` is about builds that are `Calm`, without these;
- `ForceDeferred` breaks a deferral when nothing else can run, and with two tasks that have one
  hash starts both (`forced` is the history of that; a `Calm` build has none);
- a build of the setscene tasks only ("Only run setscene tasks, don't run any real tasks", main.py:197)
  that has none sets `sqdone` at the start (runqueue.py:1612), so it does not end where such builds do
  (2316), takes no task (2326) and fails in the sanity checks (2421-2429), which call every task never run.
  `SanityHolds` excepts it.

`present` is history: tasks whose output is there, by running, from the cache, or as their stamps
are found when they are decided about. The inner
`continue` of the check for running covered tasks (2222-2225) goes on with the inner loop,
so it has no effect and the model has none. `finish_now`, with its workers killed, the
scheduler's order, stampcache, setscene enforcement, dry runs, fakeroot workers, thread
limits per task and `dump_signatures` are left out; pressure is a flag that lets
`can_start_task` refuse while something runs.

### HashServ

A unihash is the taskhash of the first task that had it. The server runs on one asyncio loop
and its database calls block, so a handler is interleaved with others only where it awaits
the upstream server: `Handle` takes a request up to there, `UpstreamAnswers` and the rest of
the handlers go on from it. `CrashInReport` is the crash between the commit of the outhash and
that of the unihash. A client repeats a request three times over new connections (`Again`),
so the server may see it more than once. `insert_outhash` of the sqlite backend returns True
whether or not the row is new (`cursor.lastrowid` keeps its value); `Inserted` has it so,
and it is what heals a crash between the commits. A single `get` of a hash that the
upstream server does not know makes the handler raise, and the connection breaks.
`clean_unused` compares with now - (-max_age), so the age does not matter; the model keeps
that. After a crash between the commits the outhash has a row but its task no mapping; if
another report maps the task, the row becomes the oldest of its outhash and a later report of
an equal output gets another unihash than the earlier ones. Four reports and a crash suffice,
so `EqualOutputsShare` speaks of histories without one; `created` is a counter, a clock that is
not set back. Left out: users and tokens, statistics, `handle_exists_stream`, sqlalchemy.

### LockFile, MultiProcessCache, CookerParser

`LockFile` follows `open`, `flock`, the comparison of inodes, and in `unlockfile` the
promotion of a shared lock, `unlink`, unlock; `LocksGone` is what the kernel does when a
process ends. Linux replaces a shared lock by an exclusive one in one step, and gives the
shared one up when that fails; flock(2) allows other systems to do it in two, for which
nothing is claimed here. A server hands its lock to its child by `HandOver`.

`MultiProcessCache` takes the lock of the cache call by call and those of the extras
`cachefile-i` in one step of `FileLock`, which `LockFile` implements. A process that is
stopped in a call leaves a file empty, torn or locked. A torn file makes `pickle.load` raise
`UnpicklingError`, which is not among the errors caught at cache.py:919: the merge raises,
the file stays and later merges raise as well (`LoadRaises`). The merge writes the cache in
place, and writes what its own server had read at its start, so that a second server of the
same cache may undo it; it may also have read no cache at all, and then entries of earlier parses
go, which this parse did not save again (`CleanParseCaches` speaks of the others). Both caches that a parser saves are treated alike; one is modelled.

`CookerParser` has the parsers with their queue (a buffer per writer, its feeder thread, a
pipe of `PipeSize` results), and the server's `parse_next` and `shutdown`: drain the pipe,
wait, interrupt, terminate, join, merge. Every timeout may have passed at any time. A message
left half written in the pipe by a killed parser is left out.

### BitbakeServer

`cl[c]` is a command in `setup_bitbake` (lock, look for the socket, connect, ping, retry up to
eight times), `srv[s]` a server in `ProcessServer.main` (bind, listen, select, accept, commands,
timeouts, leave). Sockets, pipes and the ready message are the records' fields. `newconnections`
is popped from its end, as the code does. A build is one use of a connection. At its end a
server releases the lock and takes it again to see that nobody else has it; if it cannot, it is
meant to say "Delaying shutdown" and to wait, but `startswith` of a list (process.py:384) raises
`TypeError` when another server has written its pid, and the process ends; `LockAgain` has both.
When select returns the closed socket and a command together, the socket comes first and the
command is not run (process.py:246), so `bitbake -m` may report "Terminated bitbake server." of a
server that stays. XMLRPC, the idle thread, events and the length of the listen backlog are left
out.

The eight attempts of `setup_bitbake` suffice for few commands only: `AllServed` says it of
commands with an attempt for every other command that may end a server, beside those that
failed already or follow each other at once (`AttemptsSuffice`). With one attempt fewer TLC
finds a command that gives up. `MCBitbakeServer` has an `ASSUME` that every command of its calm
scenes has enough.

## 3. The runs

| run | instance | result |
|---|---|---|
| `delivery` | kills (2), low space, no directory, lost replies; 5 payloads, limit 2 | nothing resent without a kill; the queue at most one over its limit; `StoreAndForward` implemented, so nothing disappears and order is kept; the backlog follows a success |
| `collector_payloads` | two threads, five readings, a store of four, three payloads, one kill | the store is sound and headed by its payload; readings sent once; derived metrics sound |
| `collector_live` | SIGTERM, two URL changes, failed bind, no memory, an infinite value, failed opens, writes cut short; three readings, a store of two | sender stops, one datagram frees the listener; SIGHUP heeded outside the window; every reading leaves the store, in an outage too |
| `readings_lost` | "data from all the sensors" | violated: readings that came during a send are erased |
| `camera_stream` | three scenarios: a calm camera (three frames, limit 1, batch 1, an unreadable file, a clock step, a kill, full disks, lost replies); a rough one, which stalls, fails and cannot be reopened; signals and two changes of the configuration | directory bounded, no whole frame lost unawares, the trim takes the oldest, a live success shortens the backlog; `FrameSpool` implemented; counters and frame buffer sound; frames taken, reloads heeded, the process ends |
| `camera_lost` | the rough scenario | violated: after a failed reopen the process may be aborted |
| `runqueue` | nearly a hundred builds of five tasks: chain, diamond, fan and side branch, twins, hard dependencies, earlier stamps, options; two workers, one hash change | order and inputs right, workers counted, bookkeeping and end sound, every build ends |
| `twins_race` | four tasks of one hash, one of them with a stamp; two tasks that come to one new hash, two changes | violated: two are started at once |
| `hashserv` | nine scenarios of two builders and two or three taskhashes with an upstream server, crashes, collection and removal | rows justified, answers stay true, equal outputs share, sweeps spare, requests end |
| `equal_outputs` | two reports of one output, an upstream server | violated: two unihashes |
| `parse_cache` | two parsers and two servers of one cache; failing, hanging, killed and stopped parses, files left by killed processes | lock implements `FileLock`; merges see whole files; what is saved is kept; the outcome is what it says; the shutdown ends |
| `server` | eight scenes of up to three commands and two servers, timeouts, a kill, impatient commands | one server, a live socket, every connection in one place and nobody forgotten or slept over, every patient command served, all end |

Several properties are conjunctions of named parts (`Bookkeeping`, `EndsWell`, `StoreSound`,
`OutcomeSound`, ...), each part with its own comment.

**What the violations say.** `readings_lost`: `count = 0` erases what arrived during the
send. `camera_lost`: a failed reopen leaves descriptor -1 and freed buffers, which the next
iterations use, where the comment says "keep trying". `twins_race`: the others are deferred after the first of them even if
that is complete, and then nothing holds them (runqueue.py:2092, 2227); the run finds this one first.
Its other build, checked alone, shows a second way: `sqdata.hashes` is filled once, so tasks whose
hash changes to one that no task had at the start are not deferred after each other (2723). `equal_outputs`: `handle_report` queries
before it awaits and inserts after it. Behaviour the passing runs are stated around, and that
a reader should know: a SIGHUP between `load_config` and the reset of its flag is lost,
in both daemons; the broadcast that ends camera-stream may fall between the push thread's test
and its wait, and then the process does not end (`StreamEnds` excepts it by `missed`);
without a datagram the listener stays in `recvfrom` after SIGTERM; a line the server rejects
blocks every drain; a full disk during the drain's rewrite loses lines.

**Bounds.** Two lines of queue limit and five payloads let the queue pass its limit, be
trimmed, be drained half way and grow again; RETRY_COUNT is the real 3 there. A store of
four with five readings is filled by readings and by derived entries, also while a payload
is out. Kills come at, and after, a recovery. `MaxPayloads`, `MaxCrashes`, `MaxUrls`,
`Len(NameOf)`, `QueueLimit`, `MaxFrames`, `MaxSteps`, `MaxConfigs` bound these. Failed opens and
writes cut short are in `collector_live`, and in the theorems about the queue file for every
mix of faults. `frames` of a scenario bounds the frames captured; two timeouts and three reopens
stand for five of each, so that the counters reach and are set back from every value. A limit of
one stored frame and three frames let the directory pass its limit and be trimmed. Five tasks let a
setscene task cover a chain, depend on another, share its hash with a third, and leave a task
above and one beside; `MaxReports` bounds the hash changes, and each build starts from
stamps and cache contents chosen to take another branch. In `HashServ` `requests` and
`max_events` bound each scenario; more scenarios with few kinds of events stand for one with
all. Two inode numbers are enough to give a number out again. One result of pipe room makes
the second writer block. `Retries` and `Hurried` are the real 8 and 4; scenes begin with
some attempts used up, so that the last is reached.

**Fairness.** For the layer `FairSpec` assumes weak fairness of each thread as a whole: it is
scheduled, `sleep` returns, and a transfer ends (`CURLOPT_TIMEOUT`). `RunQueue` assumes that
the server's loop runs and that each task ends; `HashServ` that the loop of each server goes
on while anything is ready; `CookerParser` that processes are scheduled and timeouts pass;
`BitbakeServer` that each command and server is scheduled, a build ends, and a server nothing
reaches sees its timeouts pass. Nothing is assumed of users, sensors, kills, crashes or of the
order of replies. `CameraStream` assumes strong fairness once, of `HandOver`: a thread that asks
for a mutex which is free again and again gets it, as futexes do in practice; all else there is
weak fairness of the two threads.

## 4. What is proved

`PayloadDelivery_proofs`, for all retry counts, limits, payloads, kills and sets of faults:
- `TypeOKCorrect`: `TypeOK` is not inductive; `Control` says in which phases `pos` is a
  position of `spool` and `cur` a payload, and `TypeInv == TypeOK /\ Control` is.
- `OrderCorrect`, from `WrittenSuffix`: what is written of a suffix, cut short or not, is
  a slice of it. `AccountCorrect`, with `SentInv`: the lines before `pos` were delivered.
  `BoundCorrect`, with `BoundInv`; `SpoolCorrect` is it with the types. `ResentCorrect`, with `ResentInv`: without a kill the
  acknowledged lines of the file are those before `pos`.
- `PromiseKept`: without writes cut short, `Spec` implies `StoreAndForward`.

`LockFile_proofs`, for all processes, names and inodes. The invariant is `LockInv`: types;
who is past `open` has a file (`OpenFiles`); who is past `flock` has the lock it asked for
(`Flocks`); a lock that was checked is on the file of the name (`HeldIsNamed`); and flocks do
not conflict (`NoConflict`). `HeldIsNamed` is the heart: only a process that holds the file
alone unlinks it.
- `NamedCorrect`, `ExclusionCorrect`, and `LocksExclude`: every step of the calls is a step or
  a stutter of `FileLock` with the same holders.

`DataCollector_proofs`, for any readings, store size, bounds and faults. The module it delivers
by is an instance of `PayloadDelivery`; the proofs about that are taken over by an instance of
`PayloadDelivery_proofs`, whose assumptions `DeliveryAssumption` repeats.
- `DaemonKeepsPromises`: the theorems about the delivery path hold of the daemon, whose steps are
  steps of that module or leave its variables alone (`StepCarried`).
- `CollectorCorrect`, that `CollectorInv` holds: the threads' places (`WorkInv`); readings in the
  socket or in the listener's hand are not yet accepted, and each is there once (`FreshInv`);
  entries of the store are made of accepted readings, with all metrics unless the store was full
  (`StoreInv`); and a payload's entries head the store until the reset, while no other payload has
  a reading the store has (`PayloadInv`). `StoreCorrect` and `PayloadsCorrect` follow.

`RunQueue_proofs`, for every graph without cycles, set of builds and number of workers, without
further assumption. Two invariants carry each other: `OrderInv`, what is buildable or running has
all it depends on complete, and `SceneInv`, how a setscene task is decided: one way (`DecidedOnce`),
and before anything it stands for begins (`DecidedFirst`), which the hold-off sees to while it is
current (`HoldoffCurrent`); what a migration takes back was refused (`PendingRefused`); and a task
is skipped only for a setscene task that is covered (`SkippedCovered`). A failure spreads as a least
fixed point; `FailsCaused` says, as Knaster and Tarski do, that whatever fails has a cause in every
set closed under the rule.
- `StrandedCorrect`: a migration never finds a task complete that must be run again, which would
  call it failed (`HaltBuild`) though it never ran. `CoveredCorrect`: no setscene task unpacks under
  a running task it stands for.
- `InputsComplete` and `OrderCorrect` (`Spec` implements `BuildOrder`), and `WorkersCorrect`, from
  `WorkInv`: the counter is the number of tasks on workers.
- `EndpointsCorrect`: the fold of `process_endpoints` makes of every graph without cycles the graph
  of its paths, so that `Collapsed` holds from the start (`CollapsedInit`). One level of the loop
  keeps `QueueInv`: what a task is marked with has come along paths only (`AlongPaths`), a task
  that was processed has passed its marks on (`PassedOn`), and no mark that should come is missing
  unless a task above still has to be processed (`NoneForgotten`). Tasks have weights that fall
  along the edges, so after as many levels as there are tasks none is left.
- `InputsCorrect`: what a running task depends on is really there. `InputInv` says that a setscene task
  that was skipped is covered (`SkippedRightly`); what is covered without being there was not needed,
  by those above it that are covered or by what cannot be skipped (`AbsentRightly`); and what is to be
  run has a reason in the setscene queue, while no update is due (`HoldoffRight`). A task runs since
  it cannot be skipped or since a setscene task above it was refused; its dependency is then not to
  be skipped either, or is one of those that wait for that task, and was not taken for unneeded.
  That these reasons pass down the edges (`GraphFacts`) follows from `Collapsed`.
- `TwinsCorrect`, from `TwinInv`: of the tasks with one hash one leads
  (`OneLeads`), all that are deferred are undecided and wait for one that is neither deferred nor complete
  (`WaitsBehind`), and a real task is begun when its setscene variant was refused (`BegunDecided`).
  The attempt to prove it without `Calm`'s last part led to the race of `twins_race`.
- `BookkeepingCorrect`, from `TypeInv` beside the two invariants: the types of the hashes
  (`HashTypes`), of the control (`ControlTypes`) and of all the sets (`SetTypes`).
- `EndsCorrect`, from two more invariants. `TidyInv` says what is true at every step: what is decided is
  buildable and done, a setscene task with all above it decided is buildable, and a task that waits
  for hard dependencies has one that is undecided (`Tidy`) and all of them buildable (`HardNeeded`);
  `sqdone` is set when all is decided (`DoneRight`); and while no update is due, what is done is to be
  skipped or run, and nothing is held back once all is decided (`HoldoffExact`). `LoopInv` says what is
  true from turn to turn: what is to be skipped or run is buildable once all it depends on is complete
  (`OpenBuildable`), a build of the setscene tasks only begins no other (`NoneRun`), and the real tasks
  get their turn when the loop has no setscene task to act on (`TurnTaken`). At the end, of the
  undecided setscene tasks one above which all is decided could have been acted on, so none is undecided
  (`NoneWaits`); then every task is done, and to be skipped or run (`AllThere`), and each that has all
  it depends on was begun (`AllBegun`). The task of least weight that is not complete has a dependency
  that is not either: so all are complete (`AllDone`), or depend on one that failed (`AllPossible`);
  and a target that is not there would have a reason to have been run.

The recursive functions of the model are over chains and graphs (`Reach`, `Unskippable`, the folds of
`ProcessEndpoints`, `DoneClosure`). That each has a solution is proved by least sets, without induction
over an operator (`LeastClosed`, `ReachClosed`, `ChainRecursion`, `FoldSolved`), and facts about
all their values by a counterexample of least weight (`ChainInduction`, `FoldInduction`).

`CookerParser_proofs`, for every scene, number of parsers and servers:
- `ParseExclusion`, `ParseNamed`, `ParseExcludes`: the program makes only steps of `LockFile`
  (`ParseLocks`), so the theorems above hold of it.
- `MergeCorrect`: no file is being written while a server merges. It needs to know from a
  process's place in the code how it holds the lock (`Holding`).
- `SavedCorrect`, from where each process stands (`PlacesInv`) and that who holds a slot's lock has
  its file to itself (`SlotsInv`).
- `ParseCorrect`, that `ParseInv` holds, and from it `OutcomeCorrect`. While nobody was hurt every
  recipe is in a parser's list, its hand, its buffer, the pipe or with the server (`ConservedInv`),
  and a parser that has left its loop has nothing in hand (`DoneInv`), so a server that finds the
  parsers dead and the pipe empty has all results (`VerdictInv`, `GivesUpOnlyWhenKilled`). Each
  result stands for an entry its parser has added or inherited (`OldInv`, `SourcesInv`), and what a
  merge has listed and taken, or another server before it, is in the cache (`TakenInv`), which
  gives `CleanParseCaches`.

`BitbakeServer_proofs`, for any number of commands, servers and kills:
- `OneServerCorrect`, from `HoldInv`: the places in which a server or a command has
  `bitbake.lock` (`ServersHold`, `ClientsHold`) and that one process has it at a time.
- `SocketCorrect`, with `SocketInv`: from bind to unlink the socket file is the server's own,
  since whoever binds, removes or leaves it has the lock.
- `ConnectionsCorrect`, from `ConnInv`: what a server knows stands in one place of its record
  (`Placed`), no two servers know one connection (`OneKnows`), and all that servers know are earlier
  attempts of a command, or this one if it has connected (`NoneAhead`), so that the connection that
  is made next is new to all of them. A queue that is popped from either end, or joined with one it
  shares nothing with, holds each connection once (`QueueHead`, `QueueLast`, `QueueJoin`). Its last
  part, `TurnsTaken`, is from `RequestsKept`: what a command that waits has asked for is still
  unread, so a select that finds nothing has another client's connection to wait for.
- `ServedCorrect`, in scenes without kills where nobody gives up waiting. `CalmInv` says what this
  adds: a server that has not said it is ready is awaited (`ParentsWait`), the connections a server
  knows are in use or done with (`KnownUsed`), what is unread was said in one of them
  (`UnreadKnown`), and what a select found is still so when its turn comes (`ReadyRight`);
  `OnlyHolders` says that whoever has the lock is where it is had. An attempt that goes well
  (`GoesWell`) fails only if a server quits, a server quits only for a command that may end one
  (`Enders`), and each ends one server only (`Spent`). `AttemptsPaid` counts: the attempts of a
  command are at most those that had failed or hurry, and one for each command spent, and if they
  are as many, the present one goes well.

`CameraStream_proofs`, about `FrameSpool` first, for every limit, number of frames and sequence of
faults. `SpoolInv` adds to `DirSound` in which phases a frame is in hand and whether it has its file by then
(`Places`), that the drain's list holds names of the directory, each once (`Lists`), that there
is room when a file is created (`Room`), and that the directory is in the order of capture
while the clock was not stepped (`Sorted`).
- `DirCorrect`, and `TrimCorrect` from `Sorted`: what a trim removes is a prefix.

Then about the process, for all limits, scenarios and faults. `StreamInv` is the places of the
threads (`ControlInv`), the counters, with reopens left wherever one may be tried
(`CounterInv`), and the order of the frames: what is about to be handed over is newer than what
is in `frame_buf`, and that, while it is ready, newer than all that were taken (`BufferInv`).
- `StreamCorrect`, and `StreamCarries`: every step of the process is a step or a stutter of
  `FrameSpool`, since taking a frame is then `TakeFrame`. `StreamDirCorrect` carries `DirCorrect`
  and `TrimCorrect` over.

`HashServ_proofs`, for any clients, hashes, marks and scenarios. `HashInv` is the types of both
databases, of the requests and of the worker's queue (`StateInv`), `KeptInv` (what a mark must
keep is mapped and has that mark) and `ReportsSettle`. What every
statement does to a database is the relation `Grows`: mappings are added, none changes.
- `SettleCorrect`, `StayCorrect`, and `SweepCorrect` from `KeptInv`.
- `ShareCorrect`, from `ShareInv`: without upstream server nothing waits for one (`Silent`), all
  rows are mapped and have their own times of creation, and a task mapped by a report has the
  unihash of the oldest row with its output (`Consistent`), which no later row displaces.
- `RowsCorrect`, from `ReasonInv`: the links between hashes that reports and declarations make
  only grow, and every row, every hash read from the upstream server that is on its way into the
  database, and every answer has its link from the moment it is computed.

Each induction step is split by action; the last step of a temporal theorem combines the
parts by PTL.

**Only model-checked**:
- liveness under fairness, which is out of the prover's reach;
- the violations.

## 5. Plan

1. `RunQueueData`: the preparation of the task graph, as functions, to replace the builds of
   `MCRunQueue` by what it computes.
2. The bitbake-worker processes, which send the messages `RunQueue` reads, and the PR server.
3. `ImageUploader` with the camera lock; `ServiceRestart`; `SensorClients`; the HTU21D checksum
   and the DHT11 decode.

## 6. Not modelled

The map covers a small part of the repository's lines, and will: poky is 150,000 lines of
Python, most of them packaging functions, tests, tools, a text language and user interfaces,
which run in one process from start to end and have nothing to interleave. What is modelled is
the part of BitBake in which processes meet. In it, the following is left out: preparation of
the run queue, the cooker's commands, events and the idle thread (sequential parts around the
modelled ones); signature computation and the recipe cache (one writer); fetchers (their only
shared state is behind a `LockFile` lock); the metadata language and its vendored parsers; the
PR server, Toaster and layer index (not used by this image's build). OpenEmbedded-Core's
classes and libraries run inside a task, which the run queue sees start and end.

Of the layer: recipes, kernel fragments and third-party daemons (configuration); the bench
programs; logging; the arithmetic of the derived metrics beyond the test of their inputs;
JSON text and its 4096-byte buffer, which the real sensor names do not fill; a power cut that
loses unsynced data.
