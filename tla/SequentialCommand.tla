-------------------------- MODULE SequentialCommand --------------------------
(***************************************************************************)
(* What a command promises: the copy of FfmpegCommand as ffmpeg makes it      *)
(* without threads, where get_input_packet reads the file of the chosen       *)
(* stream itself.  No reader, no queue and nothing to stop or to join.        *)
(***************************************************************************)
EXTENDS Integers, Sequences

CONSTANTS NbInputs, Period, KeyAt, Packets, Commands, Failures  \* as in FfmpegCommand

Inputs == 1 .. NbInputs

VARIABLES
  phase,             \* "idle", "copying", "fault"
  runs,              \* commands begun
  main_return_code,
  length, key,       \* packets of each input, number of its first key packet
  finished,          \* output streams that are finished
  taken,             \* packets read from each input
  written,           \* packets written to each output stream
  failed,            \* a packet of this command was not written
  trailer            \* the trailer of the last command was written

vars == <<phase, runs, main_return_code, length, key, finished, taken, written, failed, trailer>>

Init ==
  /\ phase = "idle" /\ runs = 0 /\ main_return_code = 0
  /\ length = [f \in Inputs |-> 0] /\ key = [f \in Inputs |-> 1]
  /\ finished = [f \in Inputs |-> FALSE] /\ taken = [f \in Inputs |-> 0]
  /\ written = [f \in Inputs |-> <<>>] /\ failed = FALSE /\ trailer = FALSE

(* A command begins with some inputs, or fails to.                           *)
Open ==
  /\ phase = "idle" /\ runs < Commands
  /\ phase' = "copying" /\ runs' = runs + 1
  /\ length' \in [Inputs -> 0 .. Packets]
  /\ key' \in {k \in [Inputs -> UNION {KeyAt[f] : f \in Inputs}] : \A f \in Inputs : k[f] \in KeyAt[f]}
  /\ finished' = [f \in Inputs |-> FALSE] /\ taken' = [f \in Inputs |-> 0]
  /\ written' = [f \in Inputs |-> <<>>] /\ failed' = FALSE /\ trailer' = FALSE
  /\ UNCHANGED main_return_code

OpenFails ==
  /\ phase = "idle" /\ runs < Commands /\ "open" \in Failures
  /\ phase' = "fault" /\ runs' = runs + 1
  /\ UNCHANGED <<main_return_code, length, key, finished, taken, written, failed, trailer>>

Unfinished == {f \in Inputs : ~finished[f]}
cur_dts(f) == IF written[f] = <<>> THEN -1 ELSE Period[f] * written[f][Len(written[f])]

(* The unfinished stream that is behind the others, the first of them.       *)
choose_output(f) ==
  f \in Unfinished /\ \A g \in Unfinished :
    cur_dts(f) < cur_dts(g) \/ (cur_dts(f) = cur_dts(g) /\ f <= g)

Skips(f, packet) == written[f] = <<>> /\ packet < key[f]

(* One round of the loop with a packet: read, then dropped before the first  *)
(* key packet, written, or lost with the muxer's error that ends the copy.   *)
CopyPacket(f) ==
  /\ phase = "copying" /\ choose_output(f) /\ taken[f] < length[f]
  /\ taken' = [taken EXCEPT ![f] = @ + 1]
  /\ \/ /\ Skips(f, taken[f] + 1)
        /\ UNCHANGED <<finished, written, failed, main_return_code>>
     \/ /\ ~Skips(f, taken[f] + 1)
        /\ written' = [written EXCEPT ![f] = Append(@, taken[f] + 1)]
        /\ UNCHANGED <<finished, failed, main_return_code>>
     \/ /\ ~Skips(f, taken[f] + 1) /\ "write" \in Failures
        /\ finished' = [g \in Inputs |-> TRUE]
        /\ failed' = TRUE /\ main_return_code' = 1
        /\ UNCHANGED written
  /\ UNCHANGED <<phase, runs, length, key, trailer>>

(* One round without: the input is at its end, or cannot be read further.    *)
InputEnds(f) ==
  /\ phase = "copying" /\ choose_output(f)
  /\ taken[f] = length[f] \/ "read" \in Failures
  /\ finished' = [finished EXCEPT ![f] = TRUE]
  /\ UNCHANGED <<phase, runs, main_return_code, length, key, taken, written, failed, trailer>>

(* Every stream is finished: the trailer, and the command returns.           *)
Finish ==
  /\ phase = "copying" /\ Unfinished = {} /\ phase' = "idle"
  /\ \/ trailer' = TRUE
     \/ "trailer" \in Failures /\ trailer' = FALSE
  /\ UNCHANGED <<runs, main_return_code, length, key, finished, taken, written, failed>>

Next == Open \/ OpenFails \/ Finish \/ \E f \in Inputs : CopyPacket(f) \/ InputEnds(f)
Spec == Init /\ [][Next]_vars

=============================================================================
