----------------------------- MODULE FrameSpool -----------------------------
(***************************************************************************)
(* What the push thread of camera-stream.c does with one frame: post_jpeg, *)
(* and then offline_frames_drain_batch after a success, or                 *)
(* offline_frames_trim and offline_frames_store after a failure.           *)
(*                                                                         *)
(* A frame is its number in the order of capture.  The directory of        *)
(* offline frames is kept as list_offline_frames returns it: the sequence  *)
(* of the frames in the order of their file names, compared as strings.  A *)
(* name is the wall clock at the time of the store; of the clock it        *)
(* matters only how many of the names sort after the one it gives now:     *)
(* none, unless the clock was set back, or was set from the first seconds  *)
(* of 1970, whose shorter names sort after the longer ones of today.  That *)
(* two stores read the same nanosecond is left out.                        *)
(***************************************************************************)
EXTENDS Integers, Sequences, SequencesExt

CONSTANTS
    MAX_OFFLINE_FRAMES,  \* limit offline_frames_trim cuts to, camera-stream.h:40
    BATCH,               \* stored frames sent after a live one
    MaxFrames,           \* bound on the frames captured
    MaxSteps,            \* bound on the times the clock is stepped
    MaxCrashes,          \* bound on the times the process is killed
    Unreadable,          \* frames whose file cannot be opened again
    Faults               \* the failures the environment may inject

FaultKinds ==
    { "lowspace",   \* statvfs reports less than OFFLINE_MIN_FREE_BYTES
      "create",     \* the directory or the file cannot be created
      "short",      \* a write is cut short by a full disk, which nobody checks
      "lostreply" } \* the server has the frame, the client times out

ASSUME OfflineAssumption == MAX_OFFLINE_FRAMES \in Nat \ {0} /\ BATCH \in Nat \ {0}
ASSUME BoundsAssumption == MaxFrames \in Nat /\ MaxSteps \in Nat /\ MaxCrashes \in Nat
ASSUME FaultsAssumption == Faults \subseteq FaultKinds

VARIABLES
    taken,      \* frames the push thread has taken from the frame buffer
    cur,        \* the frame in its copy, 0 if none
    phase,      \* where push_thread stands
    dir,        \* the stored frames, in the order of their names
    torn,       \* frames whose file holds part of the picture
    ahead,      \* how many names of dir sort after the present one
    todo,       \* the names the drain has still to look at
    sent,       \* frames the drain has sent in this batch
    delivered,  \* whole frames the server has received
    dropped,    \* frames given up: trimmed, no space, no file
    perished,   \* frames that were in memory when the process was killed
    steps,      \* times the clock was stepped
    crashes,    \* times the process was killed
    server      \* "up": exchanges complete; "down": they fail

fileVars == <<dir, torn, ahead>>
fateVars == <<delivered, dropped, perished>>
worldVars == <<steps, crashes, server>>
vars == <<taken, cur, phase, fileVars, todo, sent, fateVars, worldVars>>

Frames == 1 .. MaxFrames
InMemory == {"posting", "space", "trim", "create"}
Phases == InMemory \cup {"idle", "list", "drain", "write"}

Init ==
    /\ taken = {}
    /\ cur = 0
    /\ phase = "idle"
    /\ dir = <<>>
    /\ torn = {}
    /\ ahead = 0
    /\ todo = <<>>
    /\ sent = 0
    /\ delivered = {}
    /\ dropped = {}
    /\ perished = {}
    /\ steps = 0
    /\ crashes = 0
    /\ server = "up"

-----------------------------------------------------------------------------
(* Mutants of the actions below, one for each property: every property is  *)
(* seen to fail when its mutant takes the action's place.                  *)

\* The names are not sorted as the trim expects: it removes the last ones.
Bug_TrimNewest ==
    /\ phase = "trim"
    /\ phase' = "create"
    /\ LET kept == IF Len(dir) <= MAX_OFFLINE_FRAMES THEN Len(dir) ELSE MAX_OFFLINE_FRAMES
       IN  /\ dir' = SubSeq(dir, 1, kept)
           /\ dropped' = dropped \cup ToSet(SubSeq(dir, kept + 1, Len(dir)))
           /\ ahead' = IF ahead <= kept THEN ahead ELSE kept
    /\ UNCHANGED <<taken, cur, torn, todo, sent, delivered, perished, worldVars>>

\* The file is removed whether or not the frame got through.
Bug_UnlinkOnFailure ==
    /\ phase = "drain" /\ todo # <<>> /\ sent < BATCH
    /\ Head(todo) \notin Unreadable
    /\ server = "down"
    /\ LET at == CHOOSE i \in DOMAIN dir : dir[i] = Head(todo)
       IN  dir' = RemoveAt(dir, at) /\ ahead' = IF ahead <= Len(dir') THEN ahead ELSE Len(dir')
    /\ phase' = "idle"
    /\ cur' = 0
    /\ todo' = <<>>
    /\ sent' = 0
    /\ UNCHANGED <<taken, torn, fateVars, worldVars>>

\* The first name that cannot be read ends the batch.
Bug_SkipStops ==
    /\ phase = "drain" /\ todo # <<>> /\ sent < BATCH
    /\ Head(todo) \in Unreadable
    /\ todo' = <<>>
    /\ UNCHANGED <<taken, cur, phase, fileVars, sent, fateVars, worldVars>>

-----------------------------------------------------------------------------
(* post_jpeg: 0 for a 200 or 201, -1 for anything else.  What the server   *)
(* answers to half a picture is its own affair.                            *)

Accepted(f) ==
    /\ server = "up"
    /\ delivered' = delivered \cup ({f} \ torn)

Failed(f) ==
    \/ (server = "down" \/ f \in torn) /\ delivered' = delivered
    \/ server = "down" /\ "lostreply" \in Faults /\ delivered' = delivered \cup ({f} \ torn)

ServerFlips ==
    /\ server' = IF server = "up" THEN "down" ELSE "up"
    /\ UNCHANGED <<taken, cur, phase, fileVars, todo, sent, fateVars, steps, crashes>>

-----------------------------------------------------------------------------
(* The wall clock, which chrony and timesync-http set.                     *)

ClockStepped ==
    /\ steps < MaxSteps
    /\ steps' = steps + 1
    /\ ahead' \in ahead + 1 .. Len(dir)
    /\ UNCHANGED <<taken, cur, phase, dir, torn, todo, sent, fateVars, crashes, server>>

ClockCatchesUp ==
    /\ ahead' \in 0 .. ahead - 1
    /\ UNCHANGED <<taken, cur, phase, dir, torn, todo, sent, fateVars, worldVars>>

-----------------------------------------------------------------------------
(* push_thread.                                                            *)

\* The frame is copied out of the frame buffer.
TakeFrame(f) ==
    /\ phase = "idle"
    /\ \A g \in taken : g < f
    /\ taken' = taken \cup {f}
    /\ cur' = f
    /\ phase' = "posting"
    /\ UNCHANGED <<fileVars, todo, sent, fateVars, worldVars>>

PostAccepted ==
    /\ phase = "posting"
    /\ Accepted(cur)
    /\ phase' = "list"
    /\ UNCHANGED <<taken, cur, fileVars, todo, sent, dropped, perished, worldVars>>

PostFailed ==
    /\ phase = "posting"
    /\ Failed(cur)
    /\ phase' = "space"
    /\ UNCHANGED <<taken, cur, fileVars, todo, sent, dropped, perished, worldVars>>

\* free(copy), and back to the top of the loop.
Done == phase' = "idle" /\ cur' = 0

DropFrame == dropped' = dropped \cup {cur} /\ Done

CheckSpace ==
    /\ phase = "space"
    /\ \/ phase' = "trim" /\ UNCHANGED <<cur, dropped>>
       \/ "lowspace" \in Faults /\ DropFrame
    /\ UNCHANGED <<taken, fileVars, todo, sent, delivered, perished, worldVars>>

\* offline_frames_trim.  Its list has room for 64 names above the limit, which
\* DirBounded shows to be enough.
Trim ==
    /\ phase = "trim"
    /\ phase' = "create"
    /\ LET excess == IF Len(dir) <= MAX_OFFLINE_FRAMES THEN 0
                     ELSE Len(dir) - MAX_OFFLINE_FRAMES
       IN  /\ dir' = SubSeq(dir, excess + 1, Len(dir))
           /\ dropped' = dropped \cup ToSet(SubSeq(dir, 1, excess))
           /\ ahead' = IF ahead <= Len(dir') THEN ahead ELSE Len(dir')
    /\ UNCHANGED <<taken, cur, torn, todo, sent, delivered, perished, worldVars>>

\* offline_frames_store: the file is created under its name ...
CreateFile ==
    /\ phase = "create"
    /\ \/ /\ dir' = InsertAt(dir, Len(dir) - ahead + 1, cur)
          /\ torn' = torn \cup {cur}
          /\ phase' = "write"
          /\ UNCHANGED <<cur, dropped>>
       \/ "create" \in Faults /\ DropFrame /\ UNCHANGED <<dir, torn>>
    /\ UNCHANGED <<taken, ahead, todo, sent, delivered, perished, worldVars>>

\* ... and filled by an fwrite whose result is not looked at.
WriteFile ==
    /\ phase = "write"
    /\ \/ torn' = torn \ {cur}
       \/ "short" \in Faults /\ torn' = torn
    /\ Done
    /\ UNCHANGED <<taken, dir, ahead, todo, sent, fateVars, worldVars>>

-----------------------------------------------------------------------------
(* offline_frames_drain_batch.                                             *)

ListFrames ==
    /\ phase = "list"
    /\ todo' = dir
    /\ IF dir = <<>> THEN Done ELSE phase' = "drain" /\ cur' = cur
    /\ sent' = 0
    /\ UNCHANGED <<taken, fileVars, fateVars, worldVars>>

Draining == phase = "drain" /\ todo # <<>> /\ sent < BATCH

DrainSkips ==
    /\ Draining
    /\ Head(todo) \in Unreadable
    /\ todo' = Tail(todo)
    /\ UNCHANGED <<taken, cur, phase, fileVars, sent, fateVars, worldVars>>

DrainSent ==
    /\ Draining
    /\ Head(todo) \notin Unreadable
    /\ Accepted(Head(todo))
    /\ LET at == CHOOSE i \in DOMAIN dir : dir[i] = Head(todo)
       IN  /\ dir' = RemoveAt(dir, at)
           /\ ahead' = IF at > Len(dir) - ahead THEN ahead - 1 ELSE ahead
    /\ todo' = Tail(todo)
    /\ sent' = sent + 1
    /\ UNCHANGED <<taken, cur, phase, torn, dropped, perished, worldVars>>

DrainStops ==
    /\ \/ Draining /\ Head(todo) \notin Unreadable /\ Failed(Head(todo))
       \/ phase = "drain" /\ ~Draining /\ delivered' = delivered
    /\ todo' = <<>>
    /\ sent' = 0
    /\ Done
    /\ UNCHANGED <<taken, fileVars, dropped, perished, worldVars>>

-----------------------------------------------------------------------------
\* The process is killed: what it held in memory is gone.
Killed ==
    /\ crashes < MaxCrashes
    /\ crashes' = crashes + 1
    /\ perished' = perished \cup IF phase \in InMemory THEN {cur} ELSE {}
    /\ Done
    /\ todo' = <<>>
    /\ sent' = 0
    /\ UNCHANGED <<taken, fileVars, delivered, dropped, steps, server>>

PushStep ==
    \/ PostAccepted \/ PostFailed
    \/ CheckSpace \/ Trim \/ CreateFile \/ WriteFile
    \/ ListFrames \/ DrainSkips \/ DrainSent \/ DrainStops

World == ServerFlips \/ ClockStepped \/ ClockCatchesUp

Next == (\E f \in Frames : TakeFrame(f)) \/ PushStep \/ Killed \/ World

Spec == Init /\ [][Next]_vars

-----------------------------------------------------------------------------
(* Properties                                                              *)

TypeOK ==
    /\ taken \subseteq Frames
    /\ cur \in 0 .. MaxFrames
    /\ phase \in Phases
    /\ dir \in Seq(taken)
    /\ torn \subseteq taken
    /\ ahead \in 0 .. Len(dir)
    /\ todo \in Seq(taken)
    /\ sent \in 0 .. BATCH
    /\ delivered \subseteq taken
    /\ dropped \subseteq taken
    /\ perished \subseteq taken
    /\ steps \in 0 .. MaxSteps
    /\ crashes \in 0 .. MaxCrashes
    /\ server \in {"up", "down"}

\* The directory holds at most one file above the limit, also when the process
\* is killed between the trim and the store, so the names fit the array of
\* MAX_OFFLINE_FRAMES + 64 entries that the trim and the drain list them in.
DirBounded == Len(dir) <= MAX_OFFLINE_FRAMES + 1

\* No frame the push thread has taken disappears: it is in memory, in the
\* directory, at the server, given up by the trim or for lack of space, lost
\* in a kill, or one of those whose file was cut short (push_thread).
FramesAccounted ==
    taken \ torn \subseteq
        (IF phase \in InMemory THEN {cur} ELSE {}) \cup ToSet(dir)
            \cup delivered \cup dropped \cup perished

\* The offline directory is bounded and loses nothing unawares
\* (offline_frames_trim, offline_frames_store, offline_frames_drain_batch).
DirSound == TypeOK /\ DirBounded /\ FramesAccounted

\* "removed %d oldest frames" (offline_frames_trim): the names are sorted as
\* strings of the wall clock, so as long as the clock was never stepped the
\* frames the trim removes are older than all it keeps.
TrimDropsOldest ==
    [][phase = "trim" /\ steps = 0 =>
          \A old \in ToSet(dir) \ ToSet(dir'), new \in ToSet(dir') : old < new]_vars

\* "Live send succeeded -- drain stored offline frames" (push_thread): once the
\* process is killed no more, the directory gets shorter after every live
\* success, also when some of its files cannot be read, unless the server goes
\* down again or a torn file is there for it to answer with an error.
BacklogShrinks ==
    \A n \in 1 .. MAX_OFFLINE_FRAMES + 1 :
        (phase = "list" /\ Len(dir) = n /\ ~(ToSet(dir) \subseteq Unreadable) /\ crashes = MaxCrashes)
            ~> (Len(dir) < n \/ server = "down" \/ ToSet(dir) \cap torn # {})

=============================================================================
