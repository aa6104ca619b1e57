---------------------------- MODULE FfmpegCommand ----------------------------
(***************************************************************************)
(* The command that muxes a recording: ffmpeg -i video -i audio -c copy.    *)
(* It runs inside the application, as ffmpeg.c turned into a function.      *)
(* One reader thread per input sends packets through a queue of its own     *)
(* (libavutil/threadmessage.c) to the thread that runs the command.         *)
(* Output stream f copies input f.  Inputs are local files, so a queue       *)
(* blocks on both sides.                                                     *)
(***************************************************************************)
EXTENDS Integers, Sequences

CONSTANTS
  NbInputs,   \* nb_input_files of a command, at least two: there are threads
  Period,     \* Period[f]: time from one packet of input f to the next
  KeyAt,      \* KeyAt[f]: numbers the first key packet of input f may have
  Packets,    \* bound: packets of one input
  QueueSize,  \* thread_queue_size
  Commands,   \* bound: commands, one after the other
  Failures    \* what may fail: "open", "read", "write", "trailer"

Inputs == 1 .. NbInputs

ASSUME SizesAssumption ==
  /\ NbInputs \in Nat \ {0, 1} /\ QueueSize \in Nat \ {0}
  /\ Packets \in Nat /\ Commands \in Nat
ASSUME StreamsAssumption ==
  /\ Period \in [Inputs -> Nat \ {0}]
  /\ KeyAt \in [Inputs -> SUBSET (Nat \ {0})]
ASSUME FailuresAssumption == Failures \subseteq {"open", "read", "write", "trailer"}

Main == 0   \* the thread that runs the command, beside the readers 1 .. NbInputs

VARIABLES
  pc,                \* where Main is
  cur,               \* the input Main waits for, or stops
  runs,              \* commands begun
  main_return_code,
  length, key,       \* packets of each input, number of its first key packet
  reader,            \* where each input_thread is
  nread,             \* packets a reader has read
  fifo, err_send, err_recv,  \* the queues
  alive,             \* inputs whose in_thread_queue is allocated
  asleep,            \* threads inside pthread_cond_wait
  finished,          \* output streams that are finished
  taken,             \* history: packets Main has taken to copy them
  written,           \* history: packets written to each output stream
  failed,            \* history: a packet of this command was not written
  trailer            \* history: the trailer of the last command was written

data     == <<length, key>>
queues   == <<fifo, err_send, err_recv>>
output   == <<finished, taken, written, failed, main_return_code>>
vars == <<pc, cur, runs, data, reader, nread, queues, alive, asleep, output, trailer>>

Init ==
  /\ pc = "idle" /\ cur = 1 /\ runs = 0 /\ main_return_code = 0
  /\ length = [f \in Inputs |-> 0] /\ key = [f \in Inputs |-> 1]
  /\ reader = [f \in Inputs |-> "ended"] /\ nread = [f \in Inputs |-> 0]
  /\ fifo = [f \in Inputs |-> <<>>]
  /\ err_send = [f \in Inputs |-> FALSE] /\ err_recv = [f \in Inputs |-> "none"]
  /\ alive = {} /\ asleep = {}
  /\ finished = [f \in Inputs |-> FALSE] /\ taken = [f \in Inputs |-> 0]
  /\ written = [f \in Inputs |-> <<>>] /\ failed = FALSE /\ trailer = FALSE

-----------------------------------------------------------------------------
(* jxRun up to the loop of transcode: inputs and output opened, header       *)
(* written, one queue and one thread per input.  main_return_code is set     *)
(* once, when the library is loaded, and not by a new command.               *)
Open ==
  /\ pc = "idle" /\ runs < Commands
  /\ pc' = "loop" /\ runs' = runs + 1
  /\ length' \in [Inputs -> 0 .. Packets]
  /\ key' \in {k \in [Inputs -> UNION {KeyAt[f] : f \in Inputs}] : \A f \in Inputs : k[f] \in KeyAt[f]}
  /\ reader' = [f \in Inputs |-> "read"] /\ nread' = [f \in Inputs |-> 0]
  /\ fifo' = [f \in Inputs |-> <<>>]
  /\ err_send' = [f \in Inputs |-> FALSE] /\ err_recv' = [f \in Inputs |-> "none"]
  /\ alive' = Inputs /\ asleep' = {}
  /\ finished' = [f \in Inputs |-> FALSE] /\ taken' = [f \in Inputs |-> 0]
  /\ written' = [f \in Inputs |-> <<>>] /\ failed' = FALSE /\ trailer' = FALSE
  /\ UNCHANGED <<cur, main_return_code>>

(* A missing input, an output that exists, a header that cannot be written:  *)
(* exit_program cleans up and returns, and the code that counted on it to    *)
(* end the process goes on with what was freed.                              *)
OpenFails ==
  /\ pc = "idle" /\ runs < Commands /\ "open" \in Failures
  /\ pc' = "fault" /\ runs' = runs + 1
  /\ UNCHANGED <<cur, main_return_code, data, reader, nread, queues, alive,
                 asleep, finished, taken, written, failed, trailer>>

-----------------------------------------------------------------------------
(* The limits of size and of frames that need_output also looks at are none:  *)
(* the commands of the application set no limit.                              *)
Unfinished == {f \in Inputs : ~finished[f]}
need_output == Unfinished # {}

(* cur_dts of an output stream: nothing (before every time) or the time of   *)
(* the packet last written.                                                  *)
cur_dts(f) == IF written[f] = <<>> THEN -1 ELSE Period[f] * written[f][Len(written[f])]

(* Mutant: the first unfinished stream, whatever its time.                    *)
choose_outputFirst(f) == f \in Unfinished /\ \A g \in Unfinished : f <= g

(* The unfinished stream with the least cur_dts, the first of them.          *)
choose_output(f) ==
  f \in Unfinished /\ \A g \in Unfinished :
    cur_dts(f) < cur_dts(g) \/ (cur_dts(f) = cur_dts(g) /\ f <= g)

TranscodeStep ==
  /\ pc = "loop"
  /\ \/ \E f \in Inputs : choose_output(f) /\ pc' = "recv" /\ cur' = f
     \/ ~need_output /\ pc' = "stop" /\ cur' = 1
  /\ UNCHANGED <<runs, data, reader, nread, queues, alive, asleep, output, trailer>>

(* av_thread_message_queue_recv: wait while nothing is there and no error    *)
(* is set; take a packet and signal the sender; or learn of the error.       *)
RecvWait ==
  /\ pc \in {"recv", "drain"} /\ Main \notin asleep
  /\ fifo[cur] = <<>> /\ err_recv[cur] = "none"
  /\ asleep' = asleep \cup {Main}
  /\ UNCHANGED <<pc, cur, runs, data, reader, nread, queues, alive, output, trailer>>

Recv ==
  /\ Main \notin asleep /\ fifo[cur] # <<>>
  /\ fifo' = [fifo EXCEPT ![cur] = Tail(@)]
  /\ asleep' = asleep \ {cur}
  /\ UNCHANGED <<err_send, err_recv>>

(* Mutant: the error is looked at before the messages.                        *)
RecvErrorFirst == Main \notin asleep /\ err_recv[cur] # "none"

RecvError == Main \notin asleep /\ fifo[cur] = <<>> /\ err_recv[cur] # "none"

(* Mutant: the key packet itself is dropped as well.                          *)
SkipsKey(f, packet) == written[f] = <<>> /\ packet <= key[f]

(* do_streamcopy: packets before the first key packet are dropped.           *)
Skips(f, packet) == written[f] = <<>> /\ packet < key[f]

(* process_input and write_packet.  An error of the muxer is remembered in   *)
(* main_return_code and finishes every stream.                               *)
CopyPacket ==
  /\ pc = "recv" /\ Recv
  /\ pc' = "loop"
  /\ taken' = [taken EXCEPT ![cur] = @ + 1]
  /\ LET packet == Head(fifo[cur]) IN
       \/ /\ Skips(cur, packet)
          /\ UNCHANGED <<finished, written, failed, main_return_code>>
       \/ /\ ~Skips(cur, packet)
          /\ written' = [written EXCEPT ![cur] = Append(@, packet)]
          /\ UNCHANGED <<finished, failed, main_return_code>>
       \/ /\ ~Skips(cur, packet) /\ "write" \in Failures
          /\ finished' = [f \in Inputs |-> TRUE]
          /\ failed' = TRUE /\ main_return_code' = 1
          /\ UNCHANGED written
  /\ UNCHANGED <<cur, runs, data, reader, nread, alive, trailer>>

InputEnds ==
  /\ pc = "recv" /\ RecvError
  /\ pc' = "loop" /\ finished' = [finished EXCEPT ![cur] = TRUE]
  /\ UNCHANGED <<cur, runs, data, reader, nread, queues, alive, asleep,
                 taken, written, failed, main_return_code, trailer>>

-----------------------------------------------------------------------------
(* free_input_threads, input after input: tell the sender, drain, join, free. *)
(* Mutant: err_send is set without the broadcast.                             *)
StopReaderQuietly ==
  /\ pc = "stop" /\ pc' = "drain"
  /\ err_send' = [err_send EXCEPT ![cur] = TRUE]
  /\ UNCHANGED <<cur, runs, data, reader, nread, fifo, err_recv, alive, asleep, output, trailer>>

StopReader ==
  /\ pc = "stop"
  /\ err_send' = [err_send EXCEPT ![cur] = TRUE]
  /\ asleep' = asleep \ {cur}
  /\ pc' = "drain"
  /\ UNCHANGED <<cur, runs, data, reader, nread, fifo, err_recv, alive, output, trailer>>

Drain ==
  /\ pc = "drain" /\ Recv
  /\ UNCHANGED <<pc, cur, runs, data, reader, nread, alive, output, trailer>>

Drained ==
  /\ pc = "drain" /\ RecvError
  /\ pc' = "join"
  /\ UNCHANGED <<cur, runs, data, reader, nread, queues, alive, asleep, output, trailer>>

(* Mutant: the queue is freed without joining its thread.                     *)
JoinReaderFirst ==
  /\ pc = "join" /\ alive' = alive \ {cur}
  /\ IF cur < NbInputs THEN cur' = cur + 1 /\ pc' = "stop"
                       ELSE cur' = 1 /\ pc' = "trailer"
  /\ UNCHANGED <<runs, data, reader, nread, queues, asleep, output, trailer>>

JoinReader ==
  /\ pc = "join" /\ reader[cur] = "ended"
  /\ alive' = alive \ {cur}
  /\ IF cur < NbInputs THEN cur' = cur + 1 /\ pc' = "stop"
                       ELSE cur' = 1 /\ pc' = "trailer"
  /\ UNCHANGED <<runs, data, reader, nread, queues, asleep, output, trailer>>

(* The end of transcode and of jxRun: an error of av_write_trailer is logged, *)
(* everything is freed, main_return_code is returned.                         *)
Finish ==
  /\ pc = "trailer" /\ pc' = "idle"
  /\ \/ trailer' = TRUE
     \/ "trailer" \in Failures /\ trailer' = FALSE
  /\ UNCHANGED <<cur, runs, data, reader, nread, queues, alive, asleep, output>>

-----------------------------------------------------------------------------
(* input_thread: read a packet, or learn that there is none, or fail.         *)
ReadFrame(f) ==
  /\ reader[f] = "read"
  /\ \/ /\ nread[f] < length[f]
        /\ nread' = [nread EXCEPT ![f] = @ + 1]
        /\ reader' = [reader EXCEPT ![f] = "send"]
     \/ /\ nread[f] = length[f]
        /\ reader' = [reader EXCEPT ![f] = "eof"] /\ UNCHANGED nread
     \/ /\ "read" \in Failures
        /\ reader' = [reader EXCEPT ![f] = "error"] /\ UNCHANGED nread
  /\ UNCHANGED <<pc, cur, runs, data, queues, alive, asleep, output, trailer>>

(* av_thread_message_queue_send: wait while there is no room and no error;    *)
(* an error comes first; a packet wakes Main if it waits for this input.      *)
SendWait(f) ==
  /\ reader[f] = "send" /\ f \notin asleep
  /\ ~err_send[f] /\ Len(fifo[f]) = QueueSize
  /\ asleep' = asleep \cup {f}
  /\ UNCHANGED <<pc, cur, runs, data, reader, nread, queues, alive, output, trailer>>

(* Mutant: room is tested off by one.                                         *)
SendOverfull(f) ==
  /\ reader[f] = "send" /\ f \notin asleep
  /\ ~err_send[f] /\ Len(fifo[f]) <= QueueSize
  /\ fifo' = [fifo EXCEPT ![f] = Append(@, nread[f])]
  /\ asleep' = IF cur = f THEN asleep \ {Main} ELSE asleep
  /\ reader' = [reader EXCEPT ![f] = "read"]
  /\ UNCHANGED <<pc, cur, runs, data, nread, err_send, err_recv, alive, output, trailer>>

Send(f) ==
  /\ reader[f] = "send" /\ f \notin asleep
  /\ ~err_send[f] /\ Len(fifo[f]) < QueueSize
  /\ fifo' = [fifo EXCEPT ![f] = Append(@, nread[f])]
  /\ asleep' = IF cur = f THEN asleep \ {Main} ELSE asleep
  /\ reader' = [reader EXCEPT ![f] = "read"]
  /\ UNCHANGED <<pc, cur, runs, data, nread, err_send, err_recv, alive, output, trailer>>

(* Mutant: the thread returns without set_err_recv.                           *)
SendErrorReturns(f) ==
  /\ reader[f] = "send" /\ f \notin asleep /\ err_send[f]
  /\ reader' = [reader EXCEPT ![f] = "ended"]
  /\ UNCHANGED <<pc, cur, runs, data, nread, queues, alive, asleep, output, trailer>>

SendError(f) ==
  /\ reader[f] = "send" /\ f \notin asleep /\ err_send[f]
  /\ reader' = [reader EXCEPT ![f] = "eof"]
  /\ UNCHANGED <<pc, cur, runs, data, nread, queues, alive, asleep, output, trailer>>

(* av_thread_message_queue_set_err_recv, the last thing a reader does.        *)
CloseReader(f) ==
  /\ reader[f] \in {"eof", "error"}
  /\ err_recv' = [err_recv EXCEPT ![f] = reader[f]]
  /\ asleep' = IF cur = f THEN asleep \ {Main} ELSE asleep
  /\ reader' = [reader EXCEPT ![f] = "leaving"]
  /\ UNCHANGED <<pc, cur, runs, data, nread, fifo, err_send, alive, output, trailer>>

(* Only now has the thread let go of the queue's lock.                        *)
ReaderReturns(f) ==
  /\ reader[f] = "leaving"
  /\ reader' = [reader EXCEPT ![f] = "ended"]
  /\ UNCHANGED <<pc, cur, runs, data, nread, queues, alive, asleep, output, trailer>>

MainNext ==
  \/ TranscodeStep \/ RecvWait \/ CopyPacket \/ InputEnds
  \/ StopReader \/ Drain \/ Drained \/ JoinReader \/ Finish
ReaderNext(f) == ReadFrame(f) \/ SendWait(f) \/ Send(f) \/ SendError(f)
                 \/ CloseReader(f) \/ ReaderReturns(f)
Next == Open \/ OpenFails \/ MainNext \/ \E f \in Inputs : ReaderNext(f)

Fairness == WF_vars(MainNext) /\ \A f \in Inputs : WF_vars(ReaderNext(f))
Spec == Init /\ [][Next]_vars /\ Fairness

-----------------------------------------------------------------------------
(* Types of all variables.                                                    *)
MainOK ==
  /\ pc \in {"idle", "loop", "recv", "stop", "drain", "join", "trailer", "fault"}
  /\ cur \in Inputs /\ runs \in 0 .. Commands /\ main_return_code \in {0, 1}
  /\ length \in [Inputs -> 0 .. Packets] /\ key \in [Inputs -> Nat \ {0}]
FlagsOK == failed \in BOOLEAN /\ trailer \in BOOLEAN
ThreadsOK ==
  /\ reader \in [Inputs -> {"read", "send", "eof", "error", "leaving", "ended"}]
  /\ nread \in [Inputs -> Nat]
  /\ fifo \in [Inputs -> Seq(Nat)] /\ \A f \in Inputs : Len(fifo[f]) <= QueueSize
  /\ err_send \in [Inputs -> BOOLEAN] /\ err_recv \in [Inputs -> {"none", "eof", "error"}]
  /\ alive \subseteq Inputs /\ asleep \subseteq Inputs \cup {Main}
OutputOK ==
  /\ finished \in [Inputs -> BOOLEAN]
  /\ taken \in [Inputs -> Nat] /\ written \in [Inputs -> Seq(Nat)]
CommandTypeOK == MainOK /\ FlagsOK /\ ThreadsOK /\ OutputOK

(* No wake-up is lost: whoever sleeps in a queue still has nothing to do       *)
(* there.  A reader sleeps only on a full queue it may still send to, the       *)
(* command only on an empty queue whose reader has not reported its end.        *)
SleepersMustWait ==
  /\ \A f \in Inputs \cap asleep :
       reader[f] = "send" /\ ~err_send[f] /\ Len(fifo[f]) = QueueSize
  /\ Main \in asleep =>
       pc \in {"recv", "drain"} /\ fifo[cur] = <<>> /\ err_recv[cur] = "none"

(* A queue is freed only after the thread that sends to it has ended.           *)
QueueOutlivesReader == \A f \in Inputs : reader[f] # "ended" => f \in alive

(* What an output stream has got is a gapless stretch of its input, from the    *)
(* first key packet on, and all of what was taken unless a write failed.        *)
CopiedInOrder ==
  \A f \in Inputs :
    /\ \A i \in 1 .. Len(written[f]) : written[f][i] = key[f] + i - 1
    /\ ~failed => Len(written[f]) = IF taken[f] < key[f] THEN 0 ELSE taken[f] - key[f] + 1

(* When the command stops reading and no write has failed, every input that     *)
(* was read to its end has been copied to its end; and so is the output that    *)
(* the command leaves behind with its trailer written.                          *)
Stopped == pc \in {"stop", "drain", "join", "trailer"} \/ (pc = "idle" /\ trailer)
CopyComplete ==
  ~failed /\ Stopped =>
    \A f \in Inputs : err_recv[f] # "none" /\ (err_recv[f] = "eof" => taken[f] = length[f])

(* The streams advance together: while both go on, none is ahead of another     *)
(* by more than the packet just written (its first packets up to the key        *)
(* packet count as one).  This is what keeps the muxer's interleaving queue     *)
(* short.                                                                       *)
StreamsInterleaved ==
  \A f, g \in Unfinished :
    cur_dts(g) <= (IF cur_dts(f) < 0 THEN 0 ELSE cur_dts(f)) + Period[g] * key[g]

(* A command that was begun ends: no thread and no queue can hold it up, with   *)
(* whatever failures of reads and writes.                                       *)
CommandEnds == pc # "idle" ~> pc \in {"idle", "fault"}

-----------------------------------------------------------------------------
(* The command without its threads: between idle and idle it copies.           *)
Sequential == INSTANCE SequentialCommand WITH
  phase <- IF pc \in {"idle", "fault"} THEN pc ELSE "copying"

(* Readers and queues change nothing that is seen of a command: the streams, the *)
(* packets dropped and written, their order, the ends, failures and results are  *)
(* those of a command that reads each packet when it needs it (get_input_packet, *)
(* with and without HAVE_PTHREADS).                                              *)
CopiesAsOneThread == Sequential!Spec

=============================================================================
