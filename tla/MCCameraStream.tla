--------------------------- MODULE MCCameraStream ---------------------------
(***************************************************************************)
(* Scenarios for small instances of CameraStream.                          *)
(***************************************************************************)
EXTENDS CameraStream

\* The camera works, and the world of FrameSpool does its worst.
Calm == [frames |-> MaxFrames, world |-> TRUE, signals |-> FALSE, hardware |-> {}]

\* The camera fails in every way; the server answers.
Rough == [frames |-> 2, world |-> FALSE, signals |-> FALSE,
          hardware |-> {"stall", "dqbuf", "open", "encode", "nomem"}]

\* Signals reach a process whose camera stalls and is lost.
Signalled == [frames |-> 1, world |-> FALSE, signals |-> TRUE, hardware |-> {"stall", "open"}]

All == {Calm, Rough, Signalled}
OnlyRough == {Rough}

=============================================================================
