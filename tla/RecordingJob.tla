---------------------------- MODULE RecordingJob ----------------------------
(***************************************************************************)
(* What the recording pipeline promises of one recording, whatever threads *)
(* and queues do the work: frames are captured while it records; once it   *)
(* is ended its clip is made of all of them, then its completion is        *)
(* reported; a recording that is given up yields no clip and no report.    *)
(* The process may stop at any time, and then nothing more happens.        *)
(***************************************************************************)
EXTENDS Naturals

CONSTANT Jobs

VARIABLES
  phase,     \* of each recording
  captured,  \* video frames captured for it
  clip,      \* video frames in the clip the muxer was given
  stopped    \* the process has stopped

vars == <<phase, captured, clip, stopped>>

Phases == {"none", "recording", "ended", "given_up", "muxing", "reported"}

Init ==
  /\ phase = [j \in Jobs |-> "none"]
  /\ captured = [j \in Jobs |-> 0]
  /\ clip = [j \in Jobs |-> 0]
  /\ stopped = FALSE

Advance(j, from, to) ==
  ~stopped /\ phase[j] = from /\ phase' = [phase EXCEPT ![j] = to]

Start(j) == Advance(j, "none", "recording") /\ UNCHANGED <<captured, clip, stopped>>

Capture(j) ==
  /\ ~stopped /\ phase[j] = "recording"
  /\ captured' = [captured EXCEPT ![j] = @ + 1]
  /\ UNCHANGED <<phase, clip, stopped>>

End(j) == Advance(j, "recording", "ended") /\ UNCHANGED <<captured, clip, stopped>>

GiveUp(j) == Advance(j, "recording", "given_up") /\ UNCHANGED <<captured, clip, stopped>>

Mux(j) ==
  /\ Advance(j, "ended", "muxing")
  /\ clip' = [clip EXCEPT ![j] = captured[j]]
  /\ UNCHANGED <<captured, stopped>>

Report(j) == Advance(j, "muxing", "reported") /\ UNCHANGED <<captured, clip, stopped>>

Stop == stopped' = TRUE /\ UNCHANGED <<phase, captured, clip>>

Next ==
  \/ \E j \in Jobs : Start(j) \/ Capture(j) \/ End(j) \/ GiveUp(j) \/ Mux(j) \/ Report(j)
  \/ Stop

Spec ==
  /\ Init /\ [][Next]_vars
  /\ \A j \in Jobs : WF_vars(Mux(j)) /\ WF_vars(Report(j))
=============================================================================
