------------------------- MODULE FfmpegCommandProofs -------------------------
(***************************************************************************)
(* Safety of the muxing command for any number of inputs and packets, any   *)
(* size of the queues and whatever fails.                                   *)
(***************************************************************************)
EXTENDS FfmpegCommand, SequenceTheorems, WellFoundedInduction, TLAPS

USE DEF Main, Inputs

Reading == pc \in {"loop", "recv"}

\* While packets are copied, a queue holds the packets after those taken, and
\* the reader is one ahead if it has one in its hands.
Flow == Reading =>
  \A f \in Inputs :
    /\ ~err_send[f]
    /\ \A i \in 1 .. Len(fifo[f]) : fifo[f][i] = taken[f] + i
    /\ nread[f] = taken[f] + Len(fifo[f]) + (IF reader[f] = "send" THEN 1 ELSE 0)

\* What a reader reports: the end of its file only when it has read it all.
Reports == Reading =>
  \A f \in Inputs :
    /\ reader[f] = "eof" => nread[f] = length[f]
    /\ err_recv[f] # "none" => reader[f] \in {"leaving", "ended"}
    /\ err_recv[f] = "eof" => nread[f] = length[f]

\* A stream that ended by itself has taken all its input had to give.
Endings ==
  /\ failed => \A f \in Inputs : finished[f]
  /\ pc = "recv" => ~finished[cur]
  /\ Stopped => \A f \in Inputs : finished[f]
  /\ ~failed /\ (pc \notin {"idle", "fault"} \/ (pc = "idle" /\ trailer)) =>
       \A f \in Inputs : finished[f] =>
         /\ reader[f] \in {"leaving", "ended"} /\ err_recv[f] # "none"
         /\ err_recv[f] = "eof" => taken[f] = length[f]

CommandInv == CommandTypeOK /\ SleepersMustWait /\ QueueOutlivesReader
              /\ CopiedInOrder /\ Flow /\ Reports /\ Endings

USE SizesAssumption

\* A command has not begun: everything is in place.
LEMMA CommandStart == Init => CommandInv
<1> SUFFICES ASSUME Init PROVE CommandInv
  OBVIOUS
<1>1. <<>> \in Seq(Nat)
  OBVIOUS
<1>2. MainOK
  BY DEF Init, MainOK
<1>6. FlagsOK
  BY DEF Init, FlagsOK
<1>3. ThreadsOK /\ OutputOK
  BY <1>1 DEF Init, ThreadsOK, OutputOK
<1>4. SleepersMustWait /\ QueueOutlivesReader /\ CopiedInOrder
  BY DEF Init, SleepersMustWait, QueueOutlivesReader, CopiedInOrder
<1>5. Flow /\ Reports /\ Endings
  BY DEF Init, Flow, Reports, Endings, Stopped, Reading
<1> QED BY <1>2, <1>3, <1>4, <1>5, <1>6 DEF CommandInv, CommandTypeOK

\* Receiving takes the first packet of one queue and moves the others up.
LEMMA RecvQueue ==
  ASSUME CommandTypeOK, Recv
  PROVE  /\ ThreadsOK' \/ reader' # reader \/ nread' # nread \/ alive' # alive
         /\ Len(fifo[cur]) > 0 /\ fifo[cur][1] \in Nat /\ Head(fifo[cur]) = fifo[cur][1]
         /\ \A f \in Inputs :
              /\ Len(fifo'[f]) = IF f = cur THEN Len(fifo[f]) - 1 ELSE Len(fifo[f])
              /\ \A i \in 1 .. Len(fifo'[f]) :
                   fifo'[f][i] = IF f = cur THEN fifo[f][i + 1] ELSE fifo[f][i]
<1> USE DEF CommandTypeOK, MainOK, ThreadsOK
<1>1. fifo[cur] \in Seq(Nat) /\ fifo[cur] # <<>>
  BY DEF Recv
<1>2. /\ Tail(fifo[cur]) \in Seq(Nat) /\ Len(Tail(fifo[cur])) = Len(fifo[cur]) - 1
      /\ \A i \in 1 .. Len(Tail(fifo[cur])) : Tail(fifo[cur])[i] = fifo[cur][i + 1]
  BY <1>1, HeadTailProperties
<1>3. Len(fifo[cur]) > 0 /\ fifo[cur][1] \in Nat /\ Head(fifo[cur]) = fifo[cur][1]
  BY <1>1, SMTT(60)
<1>4. fifo' = [fifo EXCEPT ![cur] = Tail(fifo[cur])]
  BY DEF Recv
<1>5. fifo' \in [Inputs -> Seq(Nat)]
  BY <1>2, <1>4
<1>6. \A f \in Inputs : fifo'[f] = IF f = cur THEN Tail(fifo[f]) ELSE fifo[f]
  BY <1>4
<1>7. \A f \in Inputs : Len(fifo'[f]) = IF f = cur THEN Len(fifo[f]) - 1 ELSE Len(fifo[f])
  BY <1>2, <1>6
<1>8. \A f \in Inputs : Len(fifo'[f]) <= QueueSize
  <2> TAKE f \in Inputs
  <2>1. Len(fifo[f]) <= QueueSize /\ fifo[f] \in Seq(Nat)
    OBVIOUS
  <2>2. Len(fifo[f]) \in Nat
    BY <2>1, LenProperties
  <2>3. Len(fifo'[f]) \in {Len(fifo[f]), Len(fifo[f]) - 1}
    BY <1>7
  <2> QED BY <2>1, <2>2, <2>3, SMTT(60)
<1>9. reader' = reader /\ nread' = nread /\ alive' = alive => ThreadsOK'
  BY <1>5, <1>8 DEF Recv
<1> QED BY <1>2, <1>3, <1>6, <1>7, <1>9

\* Sending appends the packet read last to one queue, for which there is room.
LEMMA SendQueue ==
  ASSUME CommandTypeOK, NEW f \in Inputs, Send(f)
  PROVE  /\ ThreadsOK'
         /\ \A g \in Inputs :
              /\ Len(fifo'[g]) = IF g = f THEN Len(fifo[g]) + 1 ELSE Len(fifo[g])
              /\ \A i \in 1 .. Len(fifo'[g]) :
                   fifo'[g][i] = IF g = f /\ i = Len(fifo[f]) + 1 THEN nread[f] ELSE fifo[g][i]
<1> USE DEF CommandTypeOK, MainOK, ThreadsOK
<1>1. fifo[f] \in Seq(Nat) /\ nread[f] \in Nat /\ Len(fifo[f]) < QueueSize
  BY DEF Send
<1>2. /\ Append(fifo[f], nread[f]) \in Seq(Nat)
      /\ Len(Append(fifo[f], nread[f])) = Len(fifo[f]) + 1
      /\ \A i \in 1 .. Len(fifo[f]) + 1 :
           Append(fifo[f], nread[f])[i] = IF i = Len(fifo[f]) + 1 THEN nread[f] ELSE fifo[f][i]
  BY <1>1, AppendProperties, SMTT(60)
<1>3. fifo' = [fifo EXCEPT ![f] = Append(fifo[f], nread[f])]
  BY DEF Send
<1>4. \A g \in Inputs : fifo'[g] = IF g = f THEN Append(fifo[f], nread[f]) ELSE fifo[g]
  BY <1>3
<1>5. fifo' \in [Inputs -> Seq(Nat)]
  BY <1>2, <1>3
<1>6. \A g \in Inputs : Len(fifo'[g]) <= QueueSize
  <2> TAKE g \in Inputs
  <2>1. Len(fifo[f]) \in Nat /\ Len(fifo[g]) <= QueueSize
    BY <1>1, LenProperties
  <2>2. CASE g = f
    <3>1. Len(fifo'[g]) = Len(fifo[f]) + 1
      BY <1>2, <1>4, <2>2
    <3> QED BY <1>1, <2>1, <3>1
  <2>3. CASE g # f
    BY <1>4, <2>1, <2>3
  <2> QED BY <2>2, <2>3
<1>7. /\ reader' \in [Inputs -> {"read", "send", "eof", "error", "leaving", "ended"}]
      /\ asleep' \subseteq Inputs \cup {Main} /\ UNCHANGED <<nread, err_send, err_recv, alive>>
  BY DEF Send
<1> QED BY <1>2, <1>4, <1>5, <1>6, <1>7

\* What appending a number to a sequence of numbers makes.
LEMMA Appended ==
  ASSUME NEW q \in Seq(Nat), NEW p \in Nat
  PROVE  /\ Append(q, p) \in Seq(Nat)
         /\ Len(q) \in Nat /\ Len(Append(q, p)) = Len(q) + 1
         /\ \A i \in 1 .. Len(q) + 1 : Append(q, p)[i] = IF i = Len(q) + 1 THEN p ELSE q[i]
<1>1. /\ Append(q, p) \in Seq(Nat) /\ Len(q) \in Nat
      /\ Len(Append(q, p)) = Len(q) + 1
  BY AppendProperties, LenProperties
<1>2. ASSUME NEW i \in 1 .. Len(q) + 1
      PROVE  Append(q, p)[i] = IF i = Len(q) + 1 THEN p ELSE q[i]
  <2>1. CASE i = Len(q) + 1
    BY <2>1, AppendProperties
  <2>2. CASE i # Len(q) + 1
    <3>1. i \in 1 .. Len(q)
      BY <1>1, <2>2
    <3>2. Append(q, p)[i] = q[i]
      BY <3>1, AppendProperties
    <3> QED BY <2>2, <3>2
  <2> QED BY <2>1, <2>2
<1> QED BY <1>1, <1>2

\* A packet that is written goes to the end of one output stream.
LEMMA WriteOut ==
  ASSUME CommandTypeOK, NEW p \in Nat, written' = [written EXCEPT ![cur] = Append(@, p)]
  PROVE  /\ written' \in [Inputs -> Seq(Nat)]
         /\ \A g \in Inputs : g # cur => written'[g] = written[g]
         /\ Len(written'[cur]) = Len(written[cur]) + 1
         /\ \A i \in 1 .. Len(written[cur]) + 1 : written'[cur][i] =
               IF i = Len(written[cur]) + 1 THEN p ELSE written[cur][i]
<1> DEFINE longer == Append(written[cur], p)
<1>1. /\ cur \in Inputs /\ written \in [Inputs -> Seq(Nat)] /\ written[cur] \in Seq(Nat)
      /\ written' = [written EXCEPT ![cur] = longer]
  BY DEF CommandTypeOK, MainOK, OutputOK
<1>2. /\ longer \in Seq(Nat)
      /\ Len(longer) = Len(written[cur]) + 1
      /\ \A i \in 1 .. Len(written[cur]) + 1 :
           longer[i] = IF i = Len(written[cur]) + 1 THEN p ELSE written[cur][i]
  BY <1>1, Appended
<1> HIDE DEF longer
<1>3. /\ written' \in [Inputs -> Seq(Nat)] /\ written'[cur] = longer
      /\ \A g \in Inputs : g # cur => written'[g] = written[g]
  BY <1>1, <1>2
<1> QED BY <1>2, <1>3

\* Every step keeps every variable in its range.
LEMMA TypeStep == CommandTypeOK /\ [Next]_vars => CommandTypeOK'
<1> SUFFICES ASSUME CommandTypeOK, [Next]_vars PROVE CommandTypeOK'
  OBVIOUS
<1> USE DEF CommandTypeOK
<1>1. CASE Open
  <2>1. FlagsOK'
    BY <1>1 DEF FlagsOK, Open, data, queues, output
  <2>2. MainOK'
    <3>1. key' \in [Inputs -> Nat \ {0}]
      BY <1>1, StreamsAssumption DEF Open
    <3>2. pc' = "loop" /\ cur' = cur /\ main_return_code' = main_return_code
      BY <1>1 DEF Open
    <3>3. runs < Commands /\ runs' = runs + 1 /\ length' \in [Inputs -> 0 .. Packets]
      BY <1>1 DEF Open
    <3>4. runs' \in 0 .. Commands
      BY <3>3, SizesAssumption DEF MainOK
    <3> QED BY <3>1, <3>2, <3>3, <3>4 DEF MainOK
  <2>3. ThreadsOK'
    BY <1>1 DEF MainOK, ThreadsOK, Open, data, queues, output
  <2>4. OutputOK'
    BY <1>1 DEF MainOK, ThreadsOK, OutputOK, Open, data, queues, output
  <2> QED BY <2>1, <2>2, <2>3, <2>4
<1>2. CASE OpenFails
  <2>1. FlagsOK'
    BY <1>2 DEF FlagsOK, OpenFails, queues, data
  <2>2. MainOK'
    BY <1>2 DEF MainOK, OpenFails, queues, data
  <2>3. ThreadsOK'
    BY <1>2 DEF MainOK, ThreadsOK, OpenFails, queues, data
  <2>4. OutputOK'
    BY <1>2 DEF MainOK, ThreadsOK, OutputOK, OpenFails, queues, data
  <2> QED BY <2>1, <2>2, <2>3, <2>4
<1>3. CASE TranscodeStep
  <2>1. FlagsOK'
    BY <1>3 DEF FlagsOK, TranscodeStep, queues, data, output
  <2>2. MainOK'
    BY <1>3 DEF MainOK, TranscodeStep, queues, data, output
  <2>3. ThreadsOK'
    BY <1>3 DEF MainOK, ThreadsOK, TranscodeStep, queues, data, output
  <2>4. OutputOK'
    BY <1>3 DEF MainOK, ThreadsOK, OutputOK, TranscodeStep, queues, data, output
  <2> QED BY <2>1, <2>2, <2>3, <2>4
<1>4. CASE RecvWait
  <2>1. FlagsOK'
    BY <1>4 DEF FlagsOK, RecvWait, queues, data, output
  <2>2. MainOK'
    BY <1>4 DEF MainOK, RecvWait, queues, data, output
  <2>3. ThreadsOK'
    BY <1>4 DEF MainOK, ThreadsOK, RecvWait, queues, data, output
  <2>4. OutputOK'
    BY <1>4 DEF MainOK, ThreadsOK, OutputOK, RecvWait, queues, data, output
  <2> QED BY <2>1, <2>2, <2>3, <2>4
<1>5. CASE CopyPacket
  <2>1. FlagsOK'
    BY <1>5 DEF FlagsOK, CopyPacket, Recv, queues, data, output
  <2>2. MainOK'
    BY <1>5 DEF MainOK, CopyPacket, Recv, queues, data, output
  <2>3. ThreadsOK'
    BY <1>5, RecvQueue DEF CopyPacket
  <2>4. OutputOK'
    <3> DEFINE p == fifo[cur][1]
    <3>1. Recv /\ p \in Nat /\ Head(fifo[cur]) = p
      BY <1>5, RecvQueue DEF CopyPacket
    <3>2. \/ written' = written
          \/ written' = [written EXCEPT ![cur] = Append(@, p)]
      BY <1>5, <3>1 DEF CopyPacket
    <3>3. written' \in [Inputs -> Seq(Nat)]
      BY <3>1, <3>2, WriteOut DEF OutputOK
    <3>4. taken[cur] + 1 \in Nat
      BY SMTT(30) DEF OutputOK, MainOK
    <3>5. taken' \in [Inputs -> Nat]
      BY <1>5, <3>4 DEF OutputOK, CopyPacket
    <3>6. finished' \in [Inputs -> BOOLEAN]
      BY <1>5 DEF OutputOK, CopyPacket
    <3> QED BY <3>3, <3>5, <3>6 DEF OutputOK
  <2> QED BY <2>1, <2>2, <2>3, <2>4
<1>6. CASE InputEnds
  <2>1. FlagsOK'
    BY <1>6 DEF FlagsOK, InputEnds, RecvError, queues, data, output
  <2>2. MainOK'
    BY <1>6 DEF MainOK, InputEnds, RecvError, queues, data, output
  <2>3. ThreadsOK'
    BY <1>6 DEF MainOK, ThreadsOK, InputEnds, RecvError, queues, data, output
  <2>4. OutputOK'
    BY <1>6 DEF MainOK, ThreadsOK, OutputOK, InputEnds, RecvError, queues, data, output
  <2> QED BY <2>1, <2>2, <2>3, <2>4
<1>7. CASE StopReader
  <2>1. FlagsOK'
    BY <1>7 DEF FlagsOK, StopReader, queues, data, output
  <2>2. MainOK'
    BY <1>7 DEF MainOK, StopReader, queues, data, output
  <2>3. ThreadsOK'
    BY <1>7 DEF MainOK, ThreadsOK, StopReader, queues, data, output
  <2>4. OutputOK'
    BY <1>7 DEF MainOK, ThreadsOK, OutputOK, StopReader, queues, data, output
  <2> QED BY <2>1, <2>2, <2>3, <2>4
<1>8. CASE Drain
  <2>1. FlagsOK'
    BY <1>8 DEF FlagsOK, Drain, Recv, queues, data, output
  <2>2. MainOK'
    BY <1>8 DEF MainOK, Drain, Recv, queues, data, output
  <2>3. ThreadsOK'
    BY <1>8, RecvQueue DEF Drain
  <2>4. OutputOK'
    BY <1>8 DEF MainOK, ThreadsOK, OutputOK, Drain, Recv, queues, data, output
  <2> QED BY <2>1, <2>2, <2>3, <2>4
<1>9. CASE Drained
  <2>1. FlagsOK'
    BY <1>9 DEF FlagsOK, Drained, RecvError, queues, data, output
  <2>2. MainOK'
    BY <1>9 DEF MainOK, Drained, RecvError, queues, data, output
  <2>3. ThreadsOK'
    BY <1>9 DEF MainOK, ThreadsOK, Drained, RecvError, queues, data, output
  <2>4. OutputOK'
    BY <1>9 DEF MainOK, ThreadsOK, OutputOK, Drained, RecvError, queues, data, output
  <2> QED BY <2>1, <2>2, <2>3, <2>4
<1>10. CASE JoinReader
  <2>1. FlagsOK'
    BY <1>10 DEF FlagsOK, JoinReader, queues, data, output
  <2>2. MainOK'
    BY <1>10, SMTT(60) DEF MainOK, JoinReader, queues, data, output
  <2>3. ThreadsOK'
    BY <1>10 DEF MainOK, ThreadsOK, JoinReader, queues, data, output
  <2>4. OutputOK'
    BY <1>10 DEF MainOK, ThreadsOK, OutputOK, JoinReader, queues, data, output
  <2> QED BY <2>1, <2>2, <2>3, <2>4
<1>11. CASE Finish
  <2>1. FlagsOK'
    BY <1>11 DEF FlagsOK, Finish, queues, data, output
  <2>2. MainOK'
    BY <1>11 DEF MainOK, Finish, queues, data, output
  <2>3. ThreadsOK'
    BY <1>11 DEF MainOK, ThreadsOK, Finish, queues, data, output
  <2>4. OutputOK'
    BY <1>11 DEF MainOK, ThreadsOK, OutputOK, Finish, queues, data, output
  <2> QED BY <2>1, <2>2, <2>3, <2>4
<1>12. ASSUME NEW f \in Inputs, ReaderNext(f) PROVE CommandTypeOK'
  <2>1. UNCHANGED <<data, cur, pc, runs, alive, output, trailer>>
    BY <1>12 DEF ReaderNext, ReadFrame, SendWait, Send, SendError, CloseReader, ReaderReturns
  <2>2. MainOK' /\ FlagsOK' /\ OutputOK'
    BY <2>1 DEF MainOK, FlagsOK, OutputOK, data, output
  <2>3. CASE ReadFrame(f)
    <3>4. nread[f] + 1 \in Nat
      BY DEF ThreadsOK
    <3>5. nread' \in [Inputs -> Nat]
      BY <2>3, <3>4 DEF ReadFrame, ThreadsOK
    <3>6. reader' \in [Inputs -> {"read", "send", "eof", "error", "leaving", "ended"}]
      BY <2>3 DEF ReadFrame, ThreadsOK
    <3>1. /\ reader' \in [Inputs -> {"read", "send", "eof", "error", "leaving", "ended"}]
          /\ nread' \in [Inputs -> Nat]
      BY <3>5, <3>6
    <3>2. UNCHANGED <<fifo, err_send, err_recv, alive, asleep>>
      BY <2>3 DEF ReadFrame, queues
    <3>3. ThreadsOK'
      BY <3>1, <3>2 DEF ThreadsOK
    <3> QED BY <2>2, <3>3
  <2>4. CASE SendWait(f)
    <3>1. ThreadsOK'
      BY <2>4 DEF SendWait, ThreadsOK, MainOK, queues
    <3> QED BY <2>2, <3>1
  <2>5. CASE Send(f)
    BY <2>2, <2>5, SendQueue
  <2>6. CASE SendError(f)
    <3>1. ThreadsOK'
      BY <2>6 DEF SendError, ThreadsOK, MainOK, queues
    <3> QED BY <2>2, <3>1
  <2>7. CASE CloseReader(f)
    <3>1. ThreadsOK'
      BY <2>7 DEF CloseReader, ThreadsOK, MainOK, queues
    <3> QED BY <2>2, <3>1
  <2>8. CASE ReaderReturns(f)
    <3>1. ThreadsOK'
      BY <2>8 DEF ReaderReturns, ThreadsOK, MainOK, queues
    <3> QED BY <2>2, <3>1
  <2> QED BY <1>12, <2>3, <2>4, <2>5, <2>6, <2>7, <2>8 DEF ReaderNext
<1>13. CASE UNCHANGED vars
  BY <1>13 DEF vars, queues, data, output, MainOK, FlagsOK, ThreadsOK, OutputOK
<1> QED BY <1>1, <1>2, <1>3, <1>4, <1>5, <1>6, <1>7, <1>8, <1>9, <1>10, <1>11, <1>12, <1>13 DEF Next, MainNext
\* A thread that sleeps goes on having nothing to do until it is woken.
LEMMA SleepersStep ==
  ASSUME CommandTypeOK, SleepersMustWait, [Next]_vars
  PROVE  SleepersMustWait'
<1> USE DEF CommandTypeOK, MainOK, ThreadsOK, OutputOK, SleepersMustWait
<1>1. CASE Open
  BY <1>1 DEF Open, data, queues, output
<1>2. CASE OpenFails
  BY <1>2 DEF OpenFails, data, queues, output
<1>3. CASE TranscodeStep
  BY <1>3 DEF TranscodeStep, choose_output, need_output, Unfinished, data, queues, output
<1>4. CASE RecvWait
  <2>1. \A f \in Inputs : f \in asleep' => f \in asleep
    BY <1>4 DEF RecvWait
  <2>2. UNCHANGED <<pc, cur, reader, fifo, err_send, err_recv>>
    BY <1>4 DEF RecvWait, queues
  <2>3. pc \in {"recv", "drain"} /\ fifo[cur] = <<>> /\ err_recv[cur] = "none"
    BY <1>4 DEF RecvWait
  <2> QED BY <2>1, <2>2, <2>3
<1>5. CASE CopyPacket
  BY <1>5 DEF CopyPacket, Recv, data, queues, output
<1>6. CASE InputEnds
  BY <1>6 DEF InputEnds, RecvError, data, queues, output
<1>7. CASE StopReader
  BY <1>7 DEF StopReader, data, queues, output
<1>8. CASE Drain
  BY <1>8 DEF Drain, Recv, data, queues, output
<1>9. CASE Drained
  BY <1>9 DEF Drained, RecvError, data, queues, output
<1>10. CASE JoinReader
  BY <1>10 DEF JoinReader, data, queues, output
<1>11. CASE Finish
  BY <1>11 DEF Finish, data, queues, output
<1>12. ASSUME NEW f \in Inputs, ReadFrame(f) PROVE SleepersMustWait'
  BY <1>12 DEF ReadFrame, data, queues, output
<1>13. ASSUME NEW f \in Inputs, SendWait(f) PROVE SleepersMustWait'
  <2>1. asleep' = asleep \cup {f} /\ f # Main
    BY <1>13 DEF SendWait
  <2>2. UNCHANGED <<pc, cur, reader, fifo, err_send, err_recv>>
    BY <1>13 DEF SendWait, queues
  <2>3. reader[f] = "send" /\ ~err_send[f] /\ Len(fifo[f]) = QueueSize
    BY <1>13 DEF SendWait
  <2> QED BY <2>1, <2>2, <2>3
<1>14. ASSUME NEW f \in Inputs, Send(f) PROVE SleepersMustWait'
  BY <1>14 DEF Send, data, queues, output
<1>15. ASSUME NEW f \in Inputs, SendError(f) PROVE SleepersMustWait'
  BY <1>15 DEF SendError, data, queues, output
<1>16. ASSUME NEW f \in Inputs, CloseReader(f) PROVE SleepersMustWait'
  BY <1>16 DEF CloseReader, data, queues, output
<1>18. ASSUME NEW f \in Inputs, ReaderReturns(f) PROVE SleepersMustWait'
  BY <1>18 DEF ReaderReturns, data, queues, output
<1>17. CASE UNCHANGED vars
  BY <1>17 DEF vars, data, queues, output
<1> QED
  BY <1>1, <1>2, <1>3, <1>4, <1>5, <1>6, <1>7, <1>8, <1>9, <1>10, <1>11, <1>12, <1>13, <1>14, <1>15, <1>16, <1>17, <1>18
     DEF Next, MainNext, ReaderNext

\* A queue is freed only by a join.
LEMMA QueueStep ==
  ASSUME CommandTypeOK, QueueOutlivesReader, [Next]_vars
  PROVE  QueueOutlivesReader'
<1> USE DEF CommandTypeOK, MainOK, ThreadsOK, OutputOK, QueueOutlivesReader
<1>1. CASE Open
  BY <1>1 DEF Open, data, queues, output
<1>2. CASE OpenFails
  BY <1>2 DEF OpenFails, data, queues, output
<1>3. CASE TranscodeStep
  BY <1>3 DEF TranscodeStep, choose_output, need_output, Unfinished, data, queues, output
<1>4. CASE RecvWait
  BY <1>4 DEF RecvWait, data, queues, output
<1>5. CASE CopyPacket
  BY <1>5 DEF CopyPacket, Recv, data, queues, output
<1>6. CASE InputEnds
  BY <1>6 DEF InputEnds, RecvError, data, queues, output
<1>7. CASE StopReader
  BY <1>7 DEF StopReader, data, queues, output
<1>8. CASE Drain
  BY <1>8 DEF Drain, Recv, data, queues, output
<1>9. CASE Drained
  BY <1>9 DEF Drained, RecvError, data, queues, output
<1>10. CASE JoinReader
  BY <1>10 DEF JoinReader, data, queues, output
<1>11. CASE Finish
  BY <1>11 DEF Finish, data, queues, output
<1>12. ASSUME NEW f \in Inputs, ReadFrame(f) PROVE QueueOutlivesReader'
  BY <1>12 DEF ReadFrame, data, queues, output
<1>13. ASSUME NEW f \in Inputs, SendWait(f) PROVE QueueOutlivesReader'
  BY <1>13 DEF SendWait, data, queues, output
<1>14. ASSUME NEW f \in Inputs, Send(f) PROVE QueueOutlivesReader'
  BY <1>14 DEF Send, data, queues, output
<1>15. ASSUME NEW f \in Inputs, SendError(f) PROVE QueueOutlivesReader'
  BY <1>15 DEF SendError, data, queues, output
<1>16. ASSUME NEW f \in Inputs, CloseReader(f) PROVE QueueOutlivesReader'
  BY <1>16 DEF CloseReader, data, queues, output
<1>18. ASSUME NEW f \in Inputs, ReaderReturns(f) PROVE QueueOutlivesReader'
  BY <1>18 DEF ReaderReturns, data, queues, output
<1>17. CASE UNCHANGED vars
  BY <1>17 DEF vars, data, queues, output
<1> QED
  BY <1>1, <1>2, <1>3, <1>4, <1>5, <1>6, <1>7, <1>8, <1>9, <1>10, <1>11, <1>12, <1>13, <1>14, <1>15, <1>16, <1>17, <1>18
     DEF Next, MainNext, ReaderNext

\* Packets flow from reader to command in order, none lost and none twice.
LEMMA FlowStep ==
  ASSUME CommandTypeOK, Flow, [Next]_vars
  PROVE  Flow'
<1> USE DEF CommandTypeOK, MainOK, ThreadsOK, OutputOK, Flow, Reading
<1>1. CASE Open
  BY <1>1 DEF Open, data, queues, output
<1>2. CASE OpenFails
  BY <1>2 DEF OpenFails, data, queues, output
<1>3. CASE TranscodeStep
  BY <1>3 DEF TranscodeStep, choose_output, need_output, Unfinished, data, queues, output
<1>4. CASE RecvWait
  BY <1>4 DEF RecvWait, data, queues, output
<1>5. CASE CopyPacket
  <2>1. /\ Reading /\ UNCHANGED <<nread, reader, err_send>>
        /\ taken' = [taken EXCEPT ![cur] = @ + 1] /\ Recv
    BY <1>5 DEF CopyPacket, Recv
  <2> SUFFICES ASSUME NEW f \in Inputs
               PROVE  /\ ~err_send[f]
                      /\ \A i \in 1 .. Len(fifo'[f]) : fifo'[f][i] = taken'[f] + i
                      /\ nread[f] = taken'[f] + Len(fifo'[f]) + (IF reader[f] = "send" THEN 1 ELSE 0)
    BY <2>1
  <2>2. Len(fifo[f]) \in Nat /\ taken[f] \in Nat /\ nread[f] \in Nat
    BY LenProperties
  <2>5. /\ ~err_send[f] /\ \A i \in 1 .. Len(fifo[f]) : fifo[f][i] = taken[f] + i
        /\ nread[f] = taken[f] + Len(fifo[f]) + (IF reader[f] = "send" THEN 1 ELSE 0)
    BY <2>1
  <2>6. taken'[f] = IF f = cur THEN taken[f] + 1 ELSE taken[f]
    BY <2>1
  <2> HIDE DEF CommandTypeOK, MainOK, ThreadsOK, OutputOK, Flow, Inputs
  <2>3. CASE f = cur
    <3>1. Len(fifo'[f]) = Len(fifo[f]) - 1 /\ taken'[f] = taken[f] + 1
      BY <2>1, <2>3, <2>6, RecvQueue
    <3>2. \A i \in 1 .. Len(fifo'[f]) : fifo'[f][i] = fifo[f][i + 1] /\ i + 1 \in 1 .. Len(fifo[f])
      <4>1. \A i \in 1 .. Len(fifo'[f]) : fifo'[f][i] = fifo[f][i + 1]
        BY <2>1, <2>3, RecvQueue
      <4> QED BY <2>2, <3>1, <4>1
    <3>4. \A i \in 1 .. Len(fifo'[f]) : fifo'[f][i] = taken'[f] + i
      <4> TAKE i \in 1 .. Len(fifo'[f])
      <4>1. fifo'[f][i] = fifo[f][i + 1] /\ fifo[f][i + 1] = taken[f] + (i + 1)
        BY <2>5, <3>2
      <4>2. i \in Nat
        BY <2>2, <3>1
      <4> QED BY <2>2, <3>1, <4>1, <4>2
    <3>5. nread[f] = taken'[f] + Len(fifo'[f]) + (IF reader[f] = "send" THEN 1 ELSE 0)
      <4> DEFINE e == IF reader[f] = "send" THEN 1 ELSE 0
      <4>1. e \in {0, 1} /\ nread[f] = taken[f] + Len(fifo[f]) + e
        BY <2>5
      <4> HIDE DEF e
      <4>2. taken'[f] + Len(fifo'[f]) = taken[f] + Len(fifo[f])
        BY <2>2, <3>1, SMTT(60)
      <4>3. nread[f] = (taken'[f] + Len(fifo'[f])) + e
        BY <4>1, <4>2
      <4> QED BY <4>3 DEF e
    <3> QED BY <2>5, <3>4, <3>5
  <2>4. CASE f # cur
    <3>1. Len(fifo'[f]) = Len(fifo[f]) /\ taken'[f] = taken[f]
      BY <2>1, <2>4, <2>6, RecvQueue
    <3>2. \A i \in 1 .. Len(fifo'[f]) : fifo'[f][i] = fifo[f][i]
      BY <2>1, <2>4, RecvQueue
    <3> QED BY <2>5, <3>1, <3>2
  <2> QED BY <2>3, <2>4
<1>6. CASE InputEnds
  BY <1>6 DEF InputEnds, RecvError, data, queues, output
<1>7. CASE StopReader
  BY <1>7 DEF StopReader, data, queues, output
<1>8. CASE Drain
  BY <1>8 DEF Drain, Recv, data, queues, output
<1>9. CASE Drained
  BY <1>9 DEF Drained, RecvError, data, queues, output
<1>10. CASE JoinReader
  BY <1>10 DEF JoinReader, data, queues, output
<1>11. CASE Finish
  BY <1>11 DEF Finish, data, queues, output
<1>12. ASSUME NEW f \in Inputs, ReadFrame(f) PROVE Flow'
  <2>1. UNCHANGED <<pc, fifo, err_send, taken>>
    BY <1>12 DEF ReadFrame, queues, output
  <2>2. \A g \in Inputs \ {f} : UNCHANGED <<reader[g], nread[g]>>
    BY <1>12 DEF ReadFrame
  <2>3. /\ reader[f] = "read"
        /\ \/ reader'[f] = "send" /\ nread'[f] = nread[f] + 1
           \/ reader'[f] \in {"eof", "error"} /\ nread'[f] = nread[f]
    BY <1>12 DEF ReadFrame
  <2>4. taken[f] \in Nat /\ Len(fifo[f]) \in Nat
    BY LenProperties
  <2>5. Reading => nread'[f] = taken[f] + Len(fifo[f]) + (IF reader'[f] = "send" THEN 1 ELSE 0)
    <3>1. Reading => nread[f] = taken[f] + Len(fifo[f])
      <4>1. Reading => nread[f] = taken[f] + Len(fifo[f]) + (IF reader[f] = "send" THEN 1 ELSE 0)
        OBVIOUS
      <4>2. reader[f] # "send"
        BY <2>3
      <4> HIDE DEF CommandTypeOK, MainOK, ThreadsOK, OutputOK, Flow, Inputs
      <4> QED BY <2>4, <4>1, <4>2
    <3> HIDE DEF CommandTypeOK, MainOK, ThreadsOK, OutputOK, Flow, Inputs
    <3>3. nread[f] \in Nat
      BY DEF CommandTypeOK, ThreadsOK
    <3> QED BY <2>3, <2>4, <3>1, <3>3
  <2>6. \A g \in Inputs : Reading =>
          /\ nread'[g] = taken[g] + Len(fifo[g]) + (IF reader'[g] = "send" THEN 1 ELSE 0)
          /\ ~err_send[g] /\ \A i \in 1 .. Len(fifo[g]) : fifo[g][i] = taken[g] + i
    BY <2>2, <2>5
  <2> QED BY <2>1, <2>6
<1>13. ASSUME NEW f \in Inputs, SendWait(f) PROVE Flow'
  BY <1>13 DEF SendWait, data, queues, output
<1>14. ASSUME NEW f \in Inputs, Send(f) PROVE Flow'
  <2>1. UNCHANGED <<pc, nread, err_send, taken>> /\ reader[f] = "send"
        /\ reader' = [reader EXCEPT ![f] = "read"]
    BY <1>14 DEF Send, queues, output
  <2> SUFFICES ASSUME Reading, NEW g \in Inputs
               PROVE  /\ ~err_send[g]
                      /\ \A i \in 1 .. Len(fifo'[g]) : fifo'[g][i] = taken[g] + i
                      /\ nread[g] = taken[g] + Len(fifo'[g]) + (IF reader'[g] = "send" THEN 1 ELSE 0)
    BY <2>1
  <2>2. Len(fifo[g]) \in Nat /\ taken[g] \in Nat
    BY LenProperties
  <2>3. /\ ~err_send[g] /\ \A i \in 1 .. Len(fifo[g]) : fifo[g][i] = taken[g] + i
        /\ nread[g] = taken[g] + Len(fifo[g]) + (IF reader[g] = "send" THEN 1 ELSE 0)
    OBVIOUS
  <2> HIDE DEF CommandTypeOK, MainOK, ThreadsOK, OutputOK, Flow, Inputs
  <2>4. CASE g = f
    <3>1. Len(fifo'[g]) = Len(fifo[g]) + 1 /\ nread[g] = taken[g] + Len(fifo[g]) + 1
      BY <1>14, <2>1, <2>3, <2>4, SendQueue
    <3>2. \A i \in 1 .. Len(fifo'[g]) :
            fifo'[g][i] = IF i = Len(fifo[g]) + 1 THEN nread[g] ELSE fifo[g][i]
      BY <1>14, <2>4, SendQueue
    <3>3. \A i \in 1 .. Len(fifo'[g]) : fifo'[g][i] = taken[g] + i
      <4> TAKE i \in 1 .. Len(fifo'[g])
      <4>1. CASE i = Len(fifo[g]) + 1
        <5>1. fifo'[g][i] = nread[g]
          BY <3>2, <4>1
        <5> QED BY <2>2, <3>1, <4>1, <5>1
      <4>2. CASE i # Len(fifo[g]) + 1
        BY <2>2, <2>3, <3>1, <3>2, <4>2
      <4> QED BY <4>1, <4>2
    <3>4. reader'[g] = "read"
      BY <2>1, <2>4 DEF CommandTypeOK, ThreadsOK
    <3>5. nread[g] = taken[g] + Len(fifo'[g])
      BY <2>2, <3>1
    <3> QED BY <2>2, <2>3, <3>3, <3>4, <3>5
  <2>5. CASE g # f
    <3>1. Len(fifo'[g]) = Len(fifo[g]) /\ reader'[g] = reader[g]
      BY <1>14, <2>1, <2>5, SendQueue
    <3>2. \A i \in 1 .. Len(fifo'[g]) : fifo'[g][i] = fifo[g][i]
      BY <1>14, <2>5, SendQueue
    <3> QED BY <2>3, <3>1, <3>2
  <2> QED BY <2>4, <2>5
<1>15. ASSUME NEW f \in Inputs, SendError(f) PROVE Flow'
  BY <1>15 DEF SendError, data, queues, output
<1>16. ASSUME NEW f \in Inputs, CloseReader(f) PROVE Flow'
  BY <1>16 DEF CloseReader, data, queues, output
<1>18. ASSUME NEW f \in Inputs, ReaderReturns(f) PROVE Flow'
  BY <1>18 DEF ReaderReturns, data, queues, output
<1>17. CASE UNCHANGED vars
  BY <1>17 DEF vars, data, queues, output
<1> QED
  BY <1>1, <1>2, <1>3, <1>4, <1>5, <1>6, <1>7, <1>8, <1>9, <1>10, <1>11, <1>12, <1>13, <1>14, <1>15, <1>16, <1>17, <1>18
     DEF Next, MainNext, ReaderNext

\* A reader reports the end of its input only at its end.
LEMMA ReportsStep ==
  ASSUME CommandTypeOK, Reports, Flow, [Next]_vars
  PROVE  Reports'
<1> USE DEF CommandTypeOK, MainOK, ThreadsOK, OutputOK, Flow, Reports, Reading
<1>1. CASE Open
  BY <1>1 DEF Open, data, queues, output
<1>2. CASE OpenFails
  BY <1>2 DEF OpenFails, data, queues, output
<1>3. CASE TranscodeStep
  BY <1>3 DEF TranscodeStep, choose_output, need_output, Unfinished, data, queues, output
<1>4. CASE RecvWait
  BY <1>4 DEF RecvWait, data, queues, output
<1>5. CASE CopyPacket
  BY <1>5 DEF CopyPacket, Recv, data, queues, output
<1>6. CASE InputEnds
  BY <1>6 DEF InputEnds, RecvError, data, queues, output
<1>7. CASE StopReader
  BY <1>7 DEF StopReader, data, queues, output
<1>8. CASE Drain
  BY <1>8 DEF Drain, Recv, data, queues, output
<1>9. CASE Drained
  BY <1>9 DEF Drained, RecvError, data, queues, output
<1>10. CASE JoinReader
  BY <1>10 DEF JoinReader, data, queues, output
<1>11. CASE Finish
  BY <1>11 DEF Finish, data, queues, output
<1>12. ASSUME NEW f \in Inputs, ReadFrame(f) PROVE Reports'
  BY <1>12 DEF ReadFrame, data, queues, output
<1>13. ASSUME NEW f \in Inputs, SendWait(f) PROVE Reports'
  BY <1>13 DEF SendWait, data, queues, output
<1>14. ASSUME NEW f \in Inputs, Send(f) PROVE Reports'
  BY <1>14 DEF Send, data, queues, output
<1>15. ASSUME NEW f \in Inputs, SendError(f) PROVE Reports'
  BY <1>15 DEF SendError, data, queues, output
<1>16. ASSUME NEW f \in Inputs, CloseReader(f) PROVE Reports'
  BY <1>16 DEF CloseReader, data, queues, output
<1>18. ASSUME NEW f \in Inputs, ReaderReturns(f) PROVE Reports'
  BY <1>18 DEF ReaderReturns, data, queues, output
<1>17. CASE UNCHANGED vars
  BY <1>17 DEF vars, data, queues, output
<1> QED
  BY <1>1, <1>2, <1>3, <1>4, <1>5, <1>6, <1>7, <1>8, <1>9, <1>10, <1>11, <1>12, <1>13, <1>14, <1>15, <1>16, <1>17, <1>18
     DEF Next, MainNext, ReaderNext

\* A stream that has ended stays as it is.
LEMMA EndingsStep ==
  ASSUME CommandTypeOK, Endings, Reports, Flow, [Next]_vars
  PROVE  Endings'
<1> USE DEF CommandTypeOK, MainOK, ThreadsOK, OutputOK, Flow, Reports, Endings, Stopped, Reading
<1>1. CASE Open
  BY <1>1 DEF Open, data, queues, output
<1>2. CASE OpenFails
  BY <1>2 DEF OpenFails, data, queues, output
<1>3. CASE TranscodeStep
  BY <1>3 DEF TranscodeStep, choose_output, need_output, Unfinished, data, queues, output
<1>4. CASE RecvWait
  BY <1>4 DEF RecvWait, data, queues, output
<1>5. CASE CopyPacket
  <2>1. /\ pc = "recv" /\ pc' = "loop" /\ ~finished[cur] /\ ~failed
        /\ UNCHANGED <<cur, reader, err_recv, length>>
        /\ taken' = [taken EXCEPT ![cur] = @ + 1]
    BY <1>5 DEF CopyPacket, Recv, data
  <2>2. \/ UNCHANGED <<finished, failed>>
        \/ failed' = TRUE /\ finished' = [f \in Inputs |-> TRUE]
    BY <1>5 DEF CopyPacket
  <2>3. CASE UNCHANGED <<finished, failed>>
    BY <2>1, <2>3
  <2>4. CASE failed' = TRUE /\ finished' = [f \in Inputs |-> TRUE]
    BY <2>1, <2>4
  <2> QED BY <2>2, <2>3, <2>4
<1>6. CASE InputEnds
  <2>1. /\ pc = "recv" /\ pc' = "loop" /\ ~finished[cur] /\ ~failed
        /\ fifo[cur] = <<>> /\ err_recv[cur] # "none"
        /\ UNCHANGED <<cur, reader, err_recv, length, taken, failed>>
        /\ finished' = [finished EXCEPT ![cur] = TRUE]
    BY <1>6 DEF InputEnds, RecvError, data, queues
  <2>2. reader[cur] \in {"leaving", "ended"} /\ Len(fifo[cur]) = 0 /\ taken[cur] \in Nat
    BY <2>1
  <2>4. nread[cur] = taken[cur] + Len(fifo[cur]) /\ (err_recv[cur] = "eof" => nread[cur] = length[cur])
    <3>1. cur \in Inputs /\ Reading
      BY <2>1
    <3>2. nread[cur] = taken[cur] + Len(fifo[cur]) + (IF reader[cur] = "send" THEN 1 ELSE 0)
      BY <3>1
    <3>3. reader[cur] # "send"
      BY <2>2
    <3>4. err_recv[cur] = "eof" => nread[cur] = length[cur]
      BY <3>1
    <3> QED BY <3>2, <3>3, <3>4, SMTT(60)
  <2>3. err_recv[cur] = "eof" => taken[cur] = length[cur]
    BY <2>2, <2>4
  <2> QED BY <2>1, <2>2, <2>3, ZenonT(60)
<1>7. CASE StopReader
  BY <1>7 DEF StopReader, data, queues, output
<1>8. CASE Drain
  BY <1>8 DEF Drain, Recv, data, queues, output
<1>9. CASE Drained
  BY <1>9 DEF Drained, RecvError, data, queues, output
<1>10. CASE JoinReader
  BY <1>10 DEF JoinReader, data, queues, output
<1>11. CASE Finish
  BY <1>11 DEF Finish, data, queues, output
<1>12. ASSUME NEW f \in Inputs, ReadFrame(f) PROVE Endings'
  BY <1>12 DEF ReadFrame, data, queues, output
<1>13. ASSUME NEW f \in Inputs, SendWait(f) PROVE Endings'
  BY <1>13 DEF SendWait, data, queues, output
<1>14. ASSUME NEW f \in Inputs, Send(f) PROVE Endings'
  BY <1>14 DEF Send, data, queues, output
<1>15. ASSUME NEW f \in Inputs, SendError(f) PROVE Endings'
  BY <1>15 DEF SendError, data, queues, output
<1>16. ASSUME NEW f \in Inputs, CloseReader(f) PROVE Endings'
  BY <1>16 DEF CloseReader, data, queues, output
<1>18. ASSUME NEW f \in Inputs, ReaderReturns(f) PROVE Endings'
  BY <1>18 DEF ReaderReturns, data, queues, output
<1>17. CASE UNCHANGED vars
  BY <1>17 DEF vars, data, queues, output
<1> QED
  BY <1>1, <1>2, <1>3, <1>4, <1>5, <1>6, <1>7, <1>8, <1>9, <1>10, <1>11, <1>12, <1>13, <1>14, <1>15, <1>16, <1>17, <1>18
     DEF Next, MainNext, ReaderNext

\* Only packets that follow what was written are written.
LEMMA CopiedStep ==
  ASSUME CommandTypeOK, CopiedInOrder, Endings, Flow, [Next]_vars
  PROVE  CopiedInOrder'
<1> USE DEF CommandTypeOK, MainOK, ThreadsOK, OutputOK
<1>1. ASSUME UNCHANGED <<key, taken, written, failed>> PROVE CopiedInOrder'
  BY <1>1 DEF CopiedInOrder
<1>2. CASE Open
  <2>1. /\ failed' = FALSE /\ key' \in [Inputs -> Nat \ {0}]
        /\ \A f \in Inputs : written'[f] = <<>> /\ taken'[f] = 0
    BY <1>2, StreamsAssumption DEF Open
  <2> HIDE DEF CommandTypeOK, MainOK, ThreadsOK, OutputOK
  <2>2. \A f \in Inputs : Len(written'[f]) = 0 /\ key'[f] > 0
    <3>1. Len(<<>>) = 0
      OBVIOUS
    <3>2. \A f \in Inputs : key'[f] \in Nat \ {0}
      BY <2>1
    <3> QED BY <2>1, <3>1, <3>2
  <2> QED BY <2>1, <2>2 DEF CopiedInOrder
<1>3. CASE CopyPacket
  <2> DEFINE p == fifo[cur][1]
  <2>1. /\ ~failed /\ UNCHANGED key /\ Recv
        /\ taken' = [taken EXCEPT ![cur] = @ + 1]
    BY <1>3 DEF CopyPacket, data, Endings
  <2>2. p \in Nat /\ Head(fifo[cur]) = p /\ Len(fifo[cur]) > 0
    BY <2>1, RecvQueue
  <2>3. p = taken[cur] + 1
    <3>1. pc = "recv" /\ cur \in Inputs /\ Len(fifo[cur]) \in Nat
      BY <1>3, LenProperties DEF CopyPacket
    <3> QED BY <2>2, <3>1 DEF Flow, Reading
  <2>4. \A f \in Inputs :
          /\ Len(written[f]) \in Nat /\ taken[f] \in Nat /\ key[f] \in Nat \ {0}
          /\ written[f] = <<>> <=> Len(written[f]) = 0
    BY LenProperties, EmptySeq
  <2>5. \A f \in Inputs :
          /\ \A i \in 1 .. Len(written[f]) : written[f][i] = key[f] + i - 1
          /\ Len(written[f]) = IF taken[f] < key[f] THEN 0 ELSE taken[f] - key[f] + 1
    BY <2>1 DEF CopiedInOrder
  <2>9. cur \in Inputs /\ \A f \in Inputs : taken'[f] = IF f = cur THEN taken[f] + 1 ELSE taken[f]
    BY <2>1
  <2> HIDE DEF CommandTypeOK, MainOK, ThreadsOK, OutputOK, Inputs
  <2>6. CASE Skips(cur, p) /\ UNCHANGED <<written, failed>>
    <3>1. taken[cur] + 1 < key[cur]
      BY <2>3, <2>6 DEF Skips
    <3>2. \A f \in Inputs :
            Len(written[f]) = IF taken'[f] < key[f] THEN 0 ELSE taken'[f] - key[f] + 1
      BY <2>4, <2>5, <2>9, <3>1
    <3> QED BY <2>1, <2>5, <2>6, <3>2 DEF CopiedInOrder
  <2>7. CASE ~Skips(cur, p) /\ written' = [written EXCEPT ![cur] = Append(@, p)] /\ UNCHANGED failed
    <3>1. Len(written'[cur]) = Len(written[cur]) + 1
      BY <2>2, <2>7, WriteOut
    <3>2. \A i \in 1 .. Len(written[cur]) + 1 : written'[cur][i] =
            IF i = Len(written[cur]) + 1 THEN p ELSE written[cur][i]
      BY <2>2, <2>7, WriteOut
    <3>3. \A g \in Inputs : g # cur => written'[g] = written[g] /\ taken'[g] = taken[g]
      BY <2>1, <2>2, <2>7, WriteOut
    <3>4. p = key[cur] + Len(written[cur])
      BY <2>3, <2>4, <2>5, <2>7, <2>9 DEF Skips
    <3>5. \A i \in 1 .. Len(written'[cur]) : written'[cur][i] = key[cur] + i - 1
      <4>1. \A i \in 1 .. Len(written[cur]) : written[cur][i] = key[cur] + i - 1
        BY <2>5, <2>9
      <4>2. Len(written[cur]) \in Nat /\ key[cur] \in Nat
        BY <2>4, <2>9
      <4> QED BY <3>1, <3>2, <3>4, <4>1, <4>2
    <3>6. taken'[cur] = taken[cur] + 1 /\ Len(written'[cur]) = taken'[cur] - key[cur] + 1
          /\ taken'[cur] >= key[cur]
      <4>1. Len(written[cur]) \in Nat /\ key[cur] \in Nat /\ taken[cur] \in Nat
        BY <2>4, <2>9
      <4>2. taken'[cur] = taken[cur] + 1
        BY <2>9
      <4> QED BY <2>3, <3>1, <3>4, <4>1, <4>2
    <3>7. \A f \in Inputs :
            /\ \A i \in 1 .. Len(written'[f]) : written'[f][i] = key[f] + i - 1
            /\ Len(written'[f]) = IF taken'[f] < key[f] THEN 0 ELSE taken'[f] - key[f] + 1
      <4> TAKE f \in Inputs
      <4>1. CASE f = cur
        BY <2>4, <2>9, <3>5, <3>6, <4>1
      <4>2. CASE f # cur
        BY <2>5, <3>3, <4>2
      <4> QED BY <4>1, <4>2
    <3> QED BY <2>1, <3>7 DEF CopiedInOrder
  <2>8. CASE failed' = TRUE /\ UNCHANGED written
    BY <2>1, <2>5, <2>8 DEF CopiedInOrder
  <2> QED BY <1>3, <2>2, <2>6, <2>7, <2>8 DEF CopyPacket
<1>4. CASE OpenFails
  BY <1>1, <1>4 DEF OpenFails, data, queues, output
<1>5. CASE TranscodeStep
  BY <1>1, <1>5 DEF TranscodeStep, data, queues, output
<1>6. CASE RecvWait
  BY <1>1, <1>6 DEF RecvWait, data, queues, output
<1>7. CASE InputEnds
  BY <1>1, <1>7 DEF InputEnds, data, queues, output
<1>8. CASE StopReader
  BY <1>1, <1>8 DEF StopReader, data, queues, output
<1>9. CASE Drain
  BY <1>1, <1>9 DEF Drain, data, queues, output
<1>10. CASE Drained
  BY <1>1, <1>10 DEF Drained, data, queues, output
<1>11. CASE JoinReader
  BY <1>1, <1>11 DEF JoinReader, data, queues, output
<1>12. CASE Finish
  BY <1>1, <1>12 DEF Finish, data, queues, output
<1>13. ASSUME NEW f \in Inputs, ReaderNext(f) PROVE CopiedInOrder'
  BY <1>1, <1>13 DEF ReaderNext, ReadFrame, SendWait, Send, SendError, CloseReader, ReaderReturns, data, queues, output
<1>14. CASE UNCHANGED vars
  BY <1>1, <1>14 DEF vars, data, queues, output
<1> QED
  BY <1>2, <1>3, <1>4, <1>5, <1>6, <1>7, <1>8, <1>9, <1>10, <1>11, <1>12, <1>13, <1>14
     DEF Next, MainNext

\* Every step keeps the inductive invariant.
LEMMA CommandStep == CommandInv /\ [Next]_vars => CommandInv'
  BY TypeStep, SleepersStep, QueueStep, FlowStep, ReportsStep, EndingsStep, CopiedStep
     DEF CommandInv

LEMMA CommandInvariant == Spec => []CommandInv
  BY CommandStart, CommandStep, PTL DEF Spec

\* Every variable of the command stays in its range.
THEOREM CommandTypeCorrect == Spec => []CommandTypeOK
  BY CommandInvariant, PTL DEF CommandInv

\* No thread sleeps in a queue of the command when there is something for it to do.
THEOREM SleepersMustWaitHolds == Spec => []SleepersMustWait
  BY CommandInvariant, PTL DEF CommandInv

\* The command frees the queue of an input only after its reader has ended.
THEOREM QueueOutlivesReaderHolds == Spec => []QueueOutlivesReader
  BY CommandInvariant, PTL DEF CommandInv

\* The streams of the output are gapless copies of the inputs.
THEOREM CopiedInOrderHolds == Spec => []CopiedInOrder
  BY CommandInvariant, PTL DEF CommandInv

\* A command that has stopped reading without a failed write has copied all.
THEOREM CopyCompleteHolds == Spec => []CopyComplete
<1>1. CommandInv => CopyComplete
  BY DEF CommandInv, Endings, Stopped, CopyComplete
<1> QED BY <1>1, CommandInvariant, PTL
-----------------------------------------------------------------------------
(* The streams advance together.                                            *)

\* While the command waits for a packet it waits for the stream behind the others.
Chosen == pc = "recv" => choose_output(cur)

\* A gapless stream that has begun ends with the packet its length tells.
LEMMA LastPacket ==
  ASSUME NEW w \in Seq(Nat), NEW k \in Nat \ {0},
         \A i \in 1 .. Len(w) : w[i] = k + i - 1
  PROVE  /\ Len(w) \in Nat /\ (w = <<>> <=> Len(w) = 0)
         /\ Len(w) > 0 => w[Len(w)] = k + (Len(w) - 1)
<1>1. Len(w) \in Nat /\ (w = <<>> <=> Len(w) = 0)
  BY LenProperties, EmptySeq
<1>2. ASSUME Len(w) > 0 PROVE w[Len(w)] = k + (Len(w) - 1)
  <2> DEFINE n == Len(w)
  <2>1. n \in Nat /\ n > 0 /\ n \in 1 .. n
    BY <1>1, <1>2
  <2>2. w[n] = k + n - 1
    BY <2>1
  <2> HIDE DEF n
  <2>3. k + n - 1 = k + (n - 1)
    BY <2>1
  <2> QED BY <2>2, <2>3 DEF n
<1> QED BY <1>1, <1>2

\* Times of packets: one period from one to the next, at least one to the first.
LEMMA Times ==
  ASSUME NEW d \in Nat \ {0}, NEW k \in Nat \ {0}
  PROVE  /\ d * k \in Nat /\ d <= d * k
         /\ \A m \in Nat : d * m \in Nat /\ d * (m + 1) = d * m + d
<1>1. \A m \in Nat : d * m \in Nat /\ d * (m + 1) = d * m + d
  OBVIOUS
<1>2. PICK j \in Nat : k = j + 1
  <2>1. k - 1 \in Nat /\ k = (k - 1) + 1
    OBVIOUS
  <2> QED BY <2>1
<1>3. d * j \in Nat /\ d * k = d * j + d
  BY <1>1, <1>2
<1>4. d * k \in Nat /\ d <= d * k
  BY <1>3
<1> QED BY <1>1, <1>4

\* One more packet of the stream behind the others keeps them together.
LEMMA OnePacketAhead ==
  ASSUME CommandTypeOK, CommandTypeOK', CopiedInOrder, CopiedInOrder', StreamsInterleaved,
         choose_output(cur), UNCHANGED <<finished, key, cur>>,
         Len(written'[cur]) = Len(written[cur]) + 1,
         \A g \in Inputs : g # cur => written'[g] = written[g]
  PROVE  StreamsInterleaved'
<1> DEFINE n == Len(written[cur])
           ahead(g) == Period[g] * key[g]
<1>1. \A g \in Inputs : /\ Period[g] \in Nat \ {0} /\ key[g] \in Nat \ {0}
                        /\ written[g] \in Seq(Nat) /\ written'[g] \in Seq(Nat)
  BY StreamsAssumption DEF CommandTypeOK, MainOK, OutputOK
<1>2. \A g \in Inputs : /\ \A i \in 1 .. Len(written[g]) : written[g][i] = key[g] + i - 1
                        /\ \A i \in 1 .. Len(written'[g]) : written'[g][i] = key[g] + i - 1
  BY DEF CopiedInOrder
<1>3. cur \in Inputs /\ cur \in Unfinished /\ Unfinished \subseteq Inputs /\ Unfinished' = Unfinished
  BY DEF choose_output, Unfinished
<1>4. \A g \in Inputs : cur_dts(g) \in Int /\ ahead(g) \in Nat
  <2> TAKE g \in Inputs
  <2>1. Period[g] \in Nat \ {0} /\ key[g] \in Nat \ {0}
    BY <1>1
  <2>2. Len(written[g]) \in Nat /\ (written[g] # <<>> => written[g][Len(written[g])] \in Nat)
    <3>1. /\ Len(written[g]) \in Nat /\ (written[g] = <<>> <=> Len(written[g]) = 0)
          /\ Len(written[g]) > 0 => written[g][Len(written[g])] = key[g] + (Len(written[g]) - 1)
      BY <1>1, <1>2, LastPacket
    <3> QED BY <2>1, <3>1
  <2> QED BY <2>1, <2>2, Times DEF cur_dts
<1>5. /\ cur_dts(cur)' \in Nat
      /\ cur_dts(cur) <= cur_dts(cur)'
      /\ cur_dts(cur)' <= (IF cur_dts(cur) < 0 THEN 0 ELSE cur_dts(cur)) + ahead(cur)
  <2> DEFINE d == Period[cur]
             k == key[cur]
  <2>1. d \in Nat \ {0} /\ k \in Nat \ {0} /\ ahead(cur) = d * k /\ d * k \in Nat /\ d <= d * k
    BY <1>1, <1>3, Times
  <2>2. n \in Nat /\ (written[cur] = <<>> <=> n = 0)
        /\ (n > 0 => written[cur][n] = k + (n - 1))
    BY <1>1, <1>2, <1>3, LastPacket
  <2>3. /\ written'[cur] # <<>> /\ written'[cur][Len(written'[cur])] = k + n
    <3>1. /\ (written'[cur] = <<>> <=> Len(written'[cur]) = 0)
          /\ Len(written'[cur]) > 0 =>
               written'[cur][Len(written'[cur])] = k + (Len(written'[cur]) - 1)
      BY <1>1, <1>2, <1>3, LastPacket
    <3>2. Len(written'[cur]) = n + 1
      OBVIOUS
    <3> HIDE DEF n
    <3>3. n + 1 > 0 /\ (n + 1) - 1 = n
      BY <2>2
    <3> QED BY <3>1, <3>2, <3>3
  <2>4. cur_dts(cur)' = d * (k + n)
    <3>1. cur_dts(cur)' = Period[cur] * written'[cur][Len(written'[cur])]
      BY <2>3 DEF cur_dts
    <3> QED BY <2>3, <3>1
  <2> HIDE DEF d, k, n, ahead
  <2>5. CASE n = 0
    <3>1. cur_dts(cur) = -1
      BY <2>2, <2>5 DEF cur_dts
    <3>2. k + n = k
      BY <2>1, <2>5
    <3>3. cur_dts(cur)' = d * k
      BY <2>4, <3>2
    <3> QED BY <2>1, <3>1, <3>3
  <2>6. CASE n # 0
    <3> DEFINE m == k + (n - 1)
    <3>1. m \in Nat /\ k + n = m + 1
      BY <2>1, <2>2, <2>6
    <3>2. written[cur] # <<>> /\ written[cur][n] = m
      BY <2>2, <2>6
    <3>3. cur_dts(cur) = d * m
      BY <3>2 DEF cur_dts, d, n
    <3> HIDE DEF m
    <3>4. d * m \in Nat /\ d * (m + 1) = d * m + d
      BY <2>1, <3>1, Times
    <3>5. cur_dts(cur)' = d * m + d
      BY <2>4, <3>1, <3>4
    <3>6. cur_dts(cur) \in Nat /\ cur_dts(cur)' = cur_dts(cur) + d
      BY <3>3, <3>4, <3>5
    <3> QED BY <2>1, <3>6
  <2> QED BY <2>5, <2>6
<1>6. \A g \in Inputs : g # cur => cur_dts(g)' = cur_dts(g)
  BY DEF cur_dts
<1>7. \A g \in Unfinished : cur_dts(cur) <= cur_dts(g)
  BY <1>3, <1>4 DEF choose_output
<1>8. \A f, g \in Unfinished :
        cur_dts(g) <= (IF cur_dts(f) < 0 THEN 0 ELSE cur_dts(f)) + ahead(g)
  BY DEF StreamsInterleaved
<1> HIDE DEF ahead, n
<1>9. ASSUME NEW f \in Unfinished, NEW g \in Unfinished
      PROVE  cur_dts(g)' <= (IF cur_dts(f)' < 0 THEN 0 ELSE cur_dts(f)') + ahead(g)
  <2>1. f \in Inputs /\ g \in Inputs
    BY <1>3
  <2>2. cur_dts(f) \in Int /\ cur_dts(g) \in Int /\ ahead(g) \in Nat /\ cur_dts(cur) \in Int
    BY <1>3, <1>4, <2>1
  <2>0. cur_dts(cur)' \in Int /\ \A h : h = cur => cur_dts(h)' = cur_dts(cur)'
    BY <1>5
  <2>3. CASE f = cur /\ g = cur
    <3>1. cur_dts(f)' = cur_dts(cur)' /\ cur_dts(g)' = cur_dts(cur)'
      BY <2>0, <2>3
    <3> QED BY <1>5, <2>2, <3>1
  <2>4. CASE f = cur /\ g # cur
    <3>1. cur_dts(g)' = cur_dts(g)
      BY <1>6, <2>1, <2>4
    <3>2. cur_dts(g) <= (IF cur_dts(cur) < 0 THEN 0 ELSE cur_dts(cur)) + ahead(g)
      BY <1>3, <1>8
    <3>3. cur_dts(f)' = cur_dts(cur)'
      BY <2>0, <2>4
    <3> QED BY <1>5, <2>2, <3>1, <3>2, <3>3
  <2>5. CASE f # cur /\ g = cur
    <3>1. cur_dts(f)' = cur_dts(f) /\ cur_dts(cur) <= cur_dts(f)
      BY <1>6, <1>7, <2>1, <2>5
    <3>2. cur_dts(g)' = cur_dts(cur)' /\ ahead(g) = ahead(cur)
      BY <2>0, <2>5
    <3> QED BY <1>5, <2>2, <3>1, <3>2
  <2>6. CASE f # cur /\ g # cur
    <3>1. cur_dts(f)' = cur_dts(f) /\ cur_dts(g)' = cur_dts(g)
      BY <1>6, <2>1, <2>6
    <3> QED BY <1>8, <3>1
  <2> QED BY <2>3, <2>4, <2>5, <2>6
<1> QED BY <1>3, <1>9 DEF StreamsInterleaved, ahead

\* The command keeps to the stream it has chosen until that one has its packet
\* or its end, and so the streams stay together.
LEMMA TogetherStep ==
  ASSUME CommandInv, CommandInv', Chosen, StreamsInterleaved, [Next]_vars
  PROVE  Chosen' /\ StreamsInterleaved'
<1>1. /\ CommandTypeOK /\ CommandTypeOK' /\ CopiedInOrder /\ CopiedInOrder'
  BY DEF CommandInv
<1>2. ASSUME UNCHANGED <<finished, written, key>>
      PROVE  /\ StreamsInterleaved'
             /\ pc' # "recv" \/ UNCHANGED <<pc, cur>> => Chosen'
  <2>1. Unfinished' = Unfinished /\ \A f : cur_dts(f)' = cur_dts(f)
    BY <1>2 DEF Unfinished, cur_dts
  <2>2. StreamsInterleaved'
    BY <1>2, <2>1 DEF StreamsInterleaved
  <2>3. pc' # "recv" \/ UNCHANGED <<pc, cur>> => Chosen'
    BY <2>1 DEF Chosen, choose_output
  <2> QED BY <2>2, <2>3
<1>3. CASE Open
  <2>1. pc' = "loop" /\ \A f \in Inputs : cur_dts(f)' = -1
    BY <1>3 DEF Open, cur_dts
  <2>2. \A g \in Inputs : Period[g] * key'[g] \in Nat
    <3>1. \A g \in Inputs : Period[g] \in Nat \ {0} /\ key'[g] \in Nat \ {0}
      BY <1>1, StreamsAssumption DEF CommandTypeOK, MainOK
    <3> QED BY <3>1, Times
  <2> QED BY <2>1, <2>2 DEF Chosen, StreamsInterleaved, Unfinished
<1>4. CASE TranscodeStep
  <2>1. UNCHANGED <<finished, written, key>>
    BY <1>4 DEF TranscodeStep, data, output
  <2>2. pc' = "recv" => choose_output(cur')
    BY <1>4 DEF TranscodeStep
  <2>3. Unfinished' = Unfinished /\ \A f : cur_dts(f)' = cur_dts(f)
    BY <2>1 DEF Unfinished, cur_dts
  <2>4. Chosen'
    BY <2>2, <2>3 DEF Chosen, choose_output
  <2> QED BY <1>2, <2>1, <2>4
<1>5. CASE CopyPacket
  <2> DEFINE p == Head(fifo[cur])
  <2>1. pc = "recv" /\ pc' = "loop" /\ UNCHANGED <<cur, key>> /\ Recv
    BY <1>5 DEF CopyPacket, data
  <2>2. choose_output(cur) /\ p \in Nat
    BY <1>1, <2>1, RecvQueue DEF Chosen
  <2>3. CASE UNCHANGED <<finished, written>>
    BY <1>2, <2>1, <2>3
  <2>4. CASE written' = [written EXCEPT ![cur] = Append(@, p)] /\ UNCHANGED finished
    <3>1. /\ Len(written'[cur]) = Len(written[cur]) + 1
          /\ \A g \in Inputs : g # cur => written'[g] = written[g]
      BY <1>1, <2>2, <2>4, WriteOut
    <3> QED BY <1>1, <2>1, <2>2, <2>4, <3>1, OnePacketAhead DEF Chosen
  <2>5. CASE finished' = [f \in Inputs |-> TRUE]
    <3>1. Unfinished' = {}
      BY <2>5 DEF Unfinished
    <3> QED BY <2>1, <3>1 DEF Chosen, StreamsInterleaved
  <2> QED BY <1>5, <2>3, <2>4, <2>5 DEF CopyPacket
<1>6. CASE InputEnds
  <2>1. pc' = "loop" /\ UNCHANGED <<written, key>> /\ Unfinished' \subseteq Unfinished
    BY <1>1, <1>6 DEF InputEnds, data, Unfinished, CommandTypeOK, OutputOK
  <2>2. \A f : cur_dts(f)' = cur_dts(f)
    BY <2>1 DEF cur_dts
  <2> QED BY <2>1, <2>2 DEF Chosen, StreamsInterleaved
<1>7. CASE \/ OpenFails \/ RecvWait \/ StopReader \/ Drain \/ Drained \/ JoinReader \/ Finish
           \/ (\E f \in Inputs : ReaderNext(f)) \/ UNCHANGED vars
  <2>1. UNCHANGED <<finished, written, key>> /\ (pc' # "recv" \/ UNCHANGED <<pc, cur>>)
    BY <1>7 DEF OpenFails, RecvWait, StopReader, Drain, Drained, JoinReader, Finish, ReaderNext,
       ReadFrame, SendWait, Send, SendError, CloseReader, ReaderReturns, vars, data, output
  <2> QED BY <1>2, <2>1
<1> QED BY <1>3, <1>4, <1>5, <1>6, <1>7 DEF Next, MainNext

\* Nothing is written before the first command.
LEMMA TogetherAtStart == Init => Chosen /\ StreamsInterleaved
<1> SUFFICES ASSUME Init PROVE Chosen /\ StreamsInterleaved
  OBVIOUS
<1>1. pc # "recv" /\ \A f \in Inputs : cur_dts(f) = -1
  BY DEF Init, cur_dts
<1>2. \A g \in Inputs : Period[g] * key[g] \in Nat
  BY StreamsAssumption, Times DEF Init
<1> QED BY <1>1, <1>2 DEF Chosen, StreamsInterleaved, Unfinished

\* While two streams go on, neither runs ahead of the other by more than the
\* packet written last, for any number of inputs, periods and key packets.
THEOREM StreamsInterleavedHolds == Spec => []StreamsInterleaved
  BY CommandInvariant, TogetherAtStart, TogetherStep, PTL DEF Spec
-----------------------------------------------------------------------------
(* The end of a command.  Nothing it began outlives it, its threads never   *)
(* all wait for one another, and every step of theirs uses up some of the   *)
(* work it was given, so that it ends as soon as they are scheduled.        *)

Active == pc \notin {"idle", "fault"}
Stopping == pc \in {"stop", "drain", "join"}

\* The queues of the inputs not yet joined are allocated, the one that is drained
\* or joined refuses packets, a reader that has reported its end is about to return.
EndInv ==
  /\ Reading => alive = Inputs
  /\ Stopping => alive = cur .. NbInputs
  /\ ~Reading /\ ~Stopping => alive = {}
  /\ pc \in {"drain", "join"} => err_send[cur]
  /\ Active => \A f \in Inputs : err_recv[f] = "none" <=> reader[f] \notin {"leaving", "ended"}
  /\ \A f \in Inputs : nread[f] <= length[f]

\* Every step keeps it.
LEMMA EndStep ==
  ASSUME CommandTypeOK, EndInv, [Next]_vars
  PROVE  EndInv'
<1> USE DEF CommandTypeOK, MainOK, ThreadsOK, EndInv, Reading, Stopping, Active
<1>1. CASE Open
  BY <1>1 DEF Open, data, queues, output
<1>2. CASE OpenFails
  BY <1>2 DEF OpenFails, data, queues, output
<1>3. CASE TranscodeStep
  <2>1. Reading /\ UNCHANGED <<alive, data, reader, nread, queues>>
    BY <1>3 DEF TranscodeStep
  <2>2. pc' = "recv" \/ (pc' = "stop" /\ cur' = 1)
    BY <1>3 DEF TranscodeStep
  <2>3. UNCHANGED <<err_send, err_recv, reader, nread, length, alive>>
    BY <2>1 DEF data, queues
  <2>4. alive = 1 .. NbInputs
    BY <2>1
  <2>5. Active /\ (Reading' => alive' = Inputs) /\ (Stopping' => alive' = cur' .. NbInputs)
    BY <2>1, <2>2, <2>3, <2>4
  <2>6. pc' \notin {"drain", "join"} /\ (Reading' \/ Stopping')
    BY <2>2
  <2> QED BY <2>3, <2>5, <2>6
<1>4. CASE RecvWait
  BY <1>4 DEF RecvWait, data, queues, output
<1>5. CASE CopyPacket
  BY <1>5 DEF CopyPacket, Recv, data, queues, output
<1>6. CASE InputEnds
  BY <1>6 DEF InputEnds, RecvError, data, queues, output
<1>7. CASE StopReader
  BY <1>7 DEF StopReader, data, queues, output
<1>8. CASE Drain
  BY <1>8 DEF Drain, Recv, data, queues, output
<1>9. CASE Drained
  BY <1>9 DEF Drained, RecvError, data, queues, output
<1>10. CASE JoinReader
  <2>1. alive = cur .. NbInputs /\ alive' = alive \ {cur} /\ cur \in 1 .. NbInputs /\ NbInputs \in Nat
    <3>1. pc = "join" /\ alive' = alive \ {cur}
      BY <1>10 DEF JoinReader
    <3>2. Stopping
      BY <3>1
    <3> QED BY <3>1, <3>2
  <2>2. alive' = IF cur < NbInputs THEN cur + 1 .. NbInputs ELSE {}
    <3> HIDE DEF CommandTypeOK, MainOK, ThreadsOK, EndInv
    <3>1. \A i : i \in cur .. NbInputs /\ i # cur <=> i \in cur + 1 .. NbInputs
      BY <2>1
    <3>2. alive' = cur + 1 .. NbInputs
      BY <2>1, <3>1
    <3>3. ~(cur < NbInputs) => cur + 1 .. NbInputs = {}
      BY <2>1
    <3> QED BY <3>2, <3>3
  <2>3. UNCHANGED <<data, reader, nread, queues>>
    BY <1>10 DEF JoinReader
  <2>4. IF cur < NbInputs THEN cur' = cur + 1 /\ pc' = "stop" ELSE cur' = 1 /\ pc' = "trailer"
    BY <1>10 DEF JoinReader
  <2>5. /\ Active /\ ~Reading'
        /\ (Stopping' => alive' = cur' .. NbInputs) /\ (~Stopping' => alive' = {})
    BY <1>10, <2>2, <2>4 DEF JoinReader
  <2> QED BY <2>3, <2>4, <2>5 DEF data, queues
<1>11. CASE Finish
  BY <1>11 DEF Finish, data, queues, output
<1>12. ASSUME NEW f \in Inputs, ReaderNext(f) PROVE EndInv'
  <2>1. UNCHANGED <<pc, cur, alive, length>>
    BY <1>12 DEF ReaderNext, ReadFrame, SendWait, Send, SendError, CloseReader, ReaderReturns, data
  <2>2. CASE ReadFrame(f)
    <3>1. /\ \A g \in Inputs \ {f} : UNCHANGED <<reader[g], nread[g]>>
          /\ UNCHANGED queues
      BY <2>2 DEF ReadFrame
    <3>2. /\ reader[f] = "read" /\ reader'[f] \in {"send", "eof", "error"}
          /\ nread'[f] = nread[f] \/ (nread[f] < length[f] /\ nread'[f] = nread[f] + 1)
      BY <2>2 DEF ReadFrame
    <3>3. nread[f] \in Nat /\ length[f] \in Nat /\ nread[f] <= length[f]
      OBVIOUS
    <3>4. nread'[f] <= length[f]
      BY <3>2, <3>3
    <3>5. \A g \in Inputs : nread'[g] <= length[g]
      BY <3>1, <3>4
    <3>6. Active => \A g \in Inputs : err_recv[g] = "none" <=> reader'[g] \notin {"leaving", "ended"}
      BY <3>1, <3>2
    <3> QED BY <2>1, <3>1, <3>5, <3>6 DEF queues
  <2>3. CASE SendWait(f)
    BY <2>1, <2>3 DEF SendWait, queues
  <2>4. CASE Send(f)
    BY <2>1, <2>4 DEF Send
  <2>5. CASE SendError(f)
    BY <2>1, <2>5 DEF SendError, queues
  <2>6. CASE CloseReader(f)
    BY <2>1, <2>6 DEF CloseReader
  <2>7. CASE ReaderReturns(f)
    BY <2>1, <2>7 DEF ReaderReturns, queues
  <2> QED BY <1>12, <2>2, <2>3, <2>4, <2>5, <2>6, <2>7 DEF ReaderNext
<1>13. CASE UNCHANGED vars
  BY <1>13 DEF vars, data, queues
<1> QED
  BY <1>1, <1>2, <1>3, <1>4, <1>5, <1>6, <1>7, <1>8, <1>9, <1>10, <1>11, <1>12, <1>13
     DEF Next, MainNext

LEMMA EndInvariant == Spec => []EndInv
<1>1. Init => EndInv
  BY DEF Init, EndInv, Reading, Stopping, Active
<1>2. CommandInv /\ EndInv /\ [Next]_vars => EndInv'
  BY EndStep DEF CommandInv
<1> QED BY <1>1, <1>2, CommandInvariant, PTL DEF Spec

\* Between commands, and after a failed open, no thread of a command runs or
\* sleeps and none of its queues is left (the clean-up of transcode).
NothingLeft ==
  pc \in {"idle", "fault", "trailer"} =>
    alive = {} /\ asleep = {} /\ \A f \in Inputs : reader[f] = "ended"

\* What free_input_threads and the end of transcode leave: nothing, for any number
\* of inputs and whatever failed.
THEOREM NothingLeftHolds == Spec => []NothingLeft
<1>1. CommandInv /\ EndInv => NothingLeft
  <2> SUFFICES ASSUME CommandInv, EndInv, pc \in {"idle", "fault", "trailer"}
               PROVE  alive = {} /\ asleep = {} /\ \A f \in Inputs : reader[f] = "ended"
    BY DEF NothingLeft
  <2>1. alive = {}
    BY DEF EndInv, Reading, Stopping
  <2>2. \A f \in Inputs : reader[f] = "ended"
    BY <2>1 DEF CommandInv, QueueOutlivesReader
  <2>3. asleep = {}
    BY <2>2 DEF CommandInv, CommandTypeOK, ThreadsOK, SleepersMustWait
  <2> QED BY <2>1, <2>2, <2>3
<1> QED BY <1>1, CommandInvariant, EndInvariant, PTL
-----------------------------------------------------------------------------
\* Every set of natural numbers that is not empty has a least member.
LEMMA Least ==
  ASSUME NEW T, T \subseteq Nat, T # {}
  PROVE  \E x \in T : \A y \in T : x <= y
<1> DEFINE R == OpToRel(<, Nat)
<1>1. IsWellFoundedOn(R, Nat)
  BY NatLessThanWellFounded
<1> HIDE DEF R
<1>2. PICK x \in T : \A y \in T : <<y, x>> \notin R
  BY <1>1, WFMin
<1>3. \A y \in Nat : y < x => <<y, x>> \in R
  BY DEF R, OpToRel
<1>4. x \in Nat /\ \A y \in T : y \in Nat /\ ~(y < x)
  BY <1>2, <1>3
<1>5. \A y \in Nat : ~(y < x) => x <= y
  BY <1>4
<1> QED BY <1>4, <1>5

\* A stream has written nothing, or its last packet is at a time from 0 on.
LEMMA DtsRange ==
  ASSUME CommandTypeOK, NEW f \in Inputs
  PROVE  cur_dts(f) + 1 \in Nat /\ cur_dts(f) \in Int
<1> DEFINE w == written[f]
<1>1. Period[f] \in Nat /\ w \in Seq(Nat)
  BY StreamsAssumption DEF CommandTypeOK, OutputOK
<1>2. CASE w = <<>>
  BY <1>2 DEF cur_dts
<1>3. CASE w # <<>>
  <2>1. Len(w) \in 1 .. Len(w)
    <3>1. Len(w) \in Nat /\ Len(w) # 0
      BY <1>1, <1>3, LenProperties, EmptySeq
    <3> HIDE DEF w
    <3> QED BY <3>1
  <2>2. w[Len(w)] \in Nat
    <3> HIDE DEF w
    <3> QED BY <1>1, <2>1, ElementOfSeq
  <2>3. \A a, b \in Nat : a * b \in Nat
    OBVIOUS
  <2>4. cur_dts(f) \in Nat
    BY <1>1, <1>3, <2>2, <2>3 DEF cur_dts
  <2> QED BY <2>4
<1> QED BY <1>2, <1>3

\* choose_output finds a stream as long as one is unfinished.
LEMMA StreamToChoose ==
  ASSUME CommandTypeOK, need_output
  PROVE  \E f \in Inputs : choose_output(f)
<1>1. Unfinished \subseteq Inputs /\ Unfinished # {}
  BY DEF need_output, Unfinished
<1>2. PICK f \in Unfinished : \A g \in Unfinished : cur_dts(f) <= cur_dts(g)
  <2> DEFINE T == {cur_dts(g) + 1 : g \in Unfinished}
  <2>1. T \subseteq Nat /\ T # {}
    BY <1>1, DtsRange
  <2>2. PICK t \in T : \A u \in T : t <= u
    BY <2>1, Least
  <2>3. PICK f \in Unfinished : t = cur_dts(f) + 1
    BY <2>2
  <2>4. \A g \in Unfinished : cur_dts(f) + 1 <= cur_dts(g) + 1 /\ cur_dts(f) \in Int /\ cur_dts(g) \in Int
    BY <1>1, <2>2, <2>3, DtsRange
  <2>5. \A a, b \in Int : a + 1 <= b + 1 => a <= b
    OBVIOUS
  <2> QED BY <2>3, <2>4, <2>5
<1>3. PICK e \in Unfinished : /\ cur_dts(e) = cur_dts(f)
                             /\ \A g \in Unfinished : cur_dts(g) = cur_dts(f) => e <= g
  <2> DEFINE T == {g \in Unfinished : cur_dts(g) = cur_dts(f)}
  <2>1. T \subseteq Nat /\ T # {}
    <3>1. f \in T
      BY <1>2
    <3>2. T \subseteq Unfinished /\ Inputs \subseteq Nat
      OBVIOUS
    <3> QED BY <1>1, <3>1, <3>2
  <2> QED BY <2>1, Least
<1>4. \A g \in Unfinished : cur_dts(e) \in Int /\ cur_dts(g) \in Int
  BY <1>1, DtsRange
<1>5. \A a, b \in Int : a <= b => a < b \/ a = b
  OBVIOUS
<1>6. choose_output(e)
  BY <1>2, <1>3, <1>4, <1>5 DEF choose_output
<1> QED BY <1>1, <1>6

\* Where the guards of MainNext hold: whatever the queue of cur holds, one of
\* RecvWait, CopyPacket or Drain, InputEnds or Drained is possible to whoever is awake.
MainMayStep ==
  \/ pc = "loop" /\ (need_output => \E f \in Inputs : choose_output(f))
  \/ pc \in {"recv", "drain"} /\ Main \notin asleep
  \/ pc \in {"stop", "trailer"}
  \/ pc = "join" /\ reader[cur] = "ended"

\* Where the guards of ReaderNext(f) hold.
ReaderMayStep(f) ==
  \/ reader[f] = "read" /\ nread[f] <= length[f]
  \/ reader[f] = "send" /\ f \notin asleep
  \/ reader[f] \in {"eof", "error", "leaving"}

\* The command's thread, or the one reader it waits for, always has a step: the
\* two never sleep in a queue, or wait for a thread to end, both at once.
NeverStuck == Active => MainMayStep \/ ReaderMayStep(cur)

\* A command cannot block itself, for any number of inputs and size of the queues.
THEOREM NeverStuckHolds == Spec => []NeverStuck
<1>1. CommandInv /\ EndInv => NeverStuck
  <2> SUFFICES ASSUME CommandInv, EndInv, Active PROVE MainMayStep \/ ReaderMayStep(cur)
    BY DEF NeverStuck
  <2> USE DEF CommandInv, CommandTypeOK, MainOK, ThreadsOK
  <2>1. CASE pc \in {"loop", "stop", "trailer"}
    BY <2>1, StreamToChoose DEF MainMayStep
  <2>2. CASE pc \in {"recv", "drain"}
    <3>1. CASE Main \notin asleep
      BY <2>2, <3>1 DEF MainMayStep
    <3>2. CASE Main \in asleep
      <4>1. fifo[cur] = <<>> /\ err_recv[cur] = "none" /\ reader[cur] \notin {"leaving", "ended"}
        BY <3>2 DEF SleepersMustWait, EndInv
      <4>2. cur \notin asleep
        <5>1. Len(fifo[cur]) = 0
          BY <4>1
        <5> QED BY <5>1 DEF SleepersMustWait
      <4> QED BY <4>1, <4>2 DEF ReaderMayStep, EndInv
    <3> QED BY <3>1, <3>2
  <2>3. CASE pc = "join"
    <3>1. cur \notin asleep
      BY <2>3 DEF SleepersMustWait, EndInv
    <3> QED BY <2>3, <3>1 DEF MainMayStep, ReaderMayStep, EndInv
  <2> QED BY <2>1, <2>2, <2>3 DEF Active
<1> QED BY <1>1, CommandInvariant, EndInvariant, PTL
-----------------------------------------------------------------------------
\* What is left to do for input f: packets to read and to take from the queue,
\* the way of its reader to its end, the way of the command to the join of f.
\* A thread that falls asleep has used up its turn, one that is woken gets it back.
PacketsLeft(f) == 6 * (length[f] - nread[f]) + 3 * Len(fifo[f])

ReaderLeft(f) ==
  IF reader[f] = "read" THEN 4
  ELSE IF reader[f] = "send" THEN 9
  ELSE IF reader[f] = "leaving" THEN 1
  ELSE IF reader[f] = "ended" THEN 0
  ELSE 3

MainLeft(f) ==
  IF Reading
    THEN 4 + (IF finished[f] THEN 0 ELSE 2) + (IF pc = "recv" /\ cur = f THEN 0 ELSE 1)
  ELSE IF pc = "trailer" \/ f < cur THEN 0
  ELSE IF pc = "stop" \/ f > cur THEN 4
  ELSE IF pc = "drain" THEN 2
  ELSE 1

SleepingAt(f) == (IF f \in asleep THEN 1 ELSE 0) + (IF Main \in asleep /\ cur = f THEN 1 ELSE 0)

WorkLeft(f) == PacketsLeft(f) + ReaderLeft(f) + MainLeft(f) - SleepingAt(f)

\* Every step of a command but its last brings one input nearer to its end and
\* none further from it.
UsesUpWork ==
  /\ \A f \in Inputs : WorkLeft(f)' <= WorkLeft(f)
  /\ \E f \in Inputs : WorkLeft(f)' < WorkLeft(f)

\* The parts of the work are numbers, and the whole is never negative.
LEMMA WorkIsNat ==
  ASSUME CommandTypeOK, SleepersMustWait, EndInv, NEW f \in Inputs
  PROVE  /\ PacketsLeft(f) \in Nat /\ ReaderLeft(f) \in 0 .. 9
         /\ MainLeft(f) \in 0 .. 7 /\ SleepingAt(f) \in 0 .. 2
         /\ WorkLeft(f) \in Nat
<1> USE DEF CommandTypeOK, MainOK, ThreadsOK
<1>1. PacketsLeft(f) \in Nat
  <2>1. nread[f] \in Nat /\ length[f] \in Nat /\ nread[f] <= length[f] /\ Len(fifo[f]) \in Nat
    BY LenProperties DEF EndInv
  <2> HIDE DEF CommandTypeOK, MainOK, ThreadsOK, Inputs
  <2> QED BY <2>1 DEF PacketsLeft
<1>2. ReaderLeft(f) \in 0 .. 9
  BY DEF ReaderLeft
<1>3. MainLeft(f) \in 0 .. 7
  <2> DEFINE a == IF finished[f] THEN 0 ELSE 2
             b == IF pc = "recv" /\ cur = f THEN 0 ELSE 1
  <2>1. a \in 0 .. 2 /\ b \in 0 .. 1
    OBVIOUS
  <2>2. MainLeft(f) \in {4 + a + b, 0, 4, 2, 1}
    BY DEF MainLeft
  <2> HIDE DEF a, b, CommandTypeOK, MainOK, ThreadsOK, Inputs
  <2> QED BY <2>1, <2>2
<1>4. /\ SleepingAt(f) \in 0 .. 2
      /\ f \notin asleep => SleepingAt(f) <= 1
      /\ f \notin asleep /\ ~(Main \in asleep /\ cur = f) => SleepingAt(f) = 0
  <2> DEFINE a == IF f \in asleep THEN 1 ELSE 0
             b == IF Main \in asleep /\ cur = f THEN 1 ELSE 0
  <2>1. a \in 0 .. 1 /\ b \in 0 .. 1 /\ (f \notin asleep => a = 0)
        /\ (~(Main \in asleep /\ cur = f) => b = 0)
    OBVIOUS
  <2>2. SleepingAt(f) = a + b
    BY DEF SleepingAt
  <2> HIDE DEF a, b, CommandTypeOK, MainOK, ThreadsOK, Inputs
  <2> QED BY <2>1, <2>2
<1>5. f \in asleep => ReaderLeft(f) = 9
  BY DEF SleepersMustWait, ReaderLeft
<1>6. Main \in asleep /\ cur = f => MainLeft(f) >= 2
  <2> SUFFICES ASSUME Main \in asleep, cur = f PROVE MainLeft(f) >= 2
    OBVIOUS
  <2>1. pc = "recv" \/ pc = "drain"
    BY DEF SleepersMustWait
  <2>2. CASE pc = "recv"
    BY <2>2 DEF MainLeft, Reading
  <2>3. CASE pc = "drain"
    <3>1. f \in Int /\ ~(f < cur) /\ ~(f > cur)
      OBVIOUS
    <3> QED BY <2>3, <3>1 DEF MainLeft, Reading
  <2> QED BY <2>1, <2>2, <2>3
<1>7. SleepingAt(f) <= ReaderLeft(f) + MainLeft(f)
  <2> HIDE DEF CommandTypeOK, MainOK, ThreadsOK, Inputs
  <2>1. CASE f \in asleep
    BY <1>2, <1>3, <1>4, <1>5, <2>1
  <2>2. CASE f \notin asleep
    BY <1>2, <1>3, <1>4, <1>6, <2>2
  <2> QED BY <2>1, <2>2
<1> HIDE DEF CommandTypeOK, MainOK, ThreadsOK, Inputs
<1>8. WorkLeft(f) \in Nat
  BY <1>1, <1>2, <1>3, <1>4, <1>7 DEF WorkLeft
<1> QED BY <1>1, <1>2, <1>3, <1>4, <1>8

\* What a step adds to the parts of the work.
PacketsGain(f) == PacketsLeft(f)' - PacketsLeft(f)
ReaderGain(f) == ReaderLeft(f)' - ReaderLeft(f)
MainGain(f) == MainLeft(f)' - MainLeft(f)
SleepGain(f) == SleepingAt(f)' - SleepingAt(f)

LEMMA WorkMoves ==
  ASSUME CommandTypeOK, CommandTypeOK', NEW f \in Inputs, length'[f] = length[f]
  PROVE  /\ PacketsGain(f) \in Int /\ ReaderGain(f) \in Int /\ MainGain(f) \in Int /\ SleepGain(f) \in Int
         /\ WorkLeft(f) \in Int /\ WorkLeft(f)' \in Int
         /\ WorkLeft(f)' = WorkLeft(f) + (PacketsGain(f) + ReaderGain(f) + MainGain(f) - SleepGain(f))
         /\ nread'[f] = nread[f] /\ fifo'[f] = fifo[f] => PacketsGain(f) = 0
         /\ nread'[f] = nread[f] /\ Len(fifo'[f]) = Len(fifo[f]) - 1 => PacketsGain(f) = -3
         /\ nread'[f] = nread[f] /\ Len(fifo'[f]) = Len(fifo[f]) + 1 => PacketsGain(f) = 3
         /\ nread'[f] = nread[f] + 1 /\ fifo'[f] = fifo[f] => PacketsGain(f) = -6
<1>1. /\ length[f] \in Int /\ nread[f] \in Int /\ nread'[f] \in Int
      /\ Len(fifo[f]) \in Int /\ Len(fifo'[f]) \in Int
  BY LenProperties DEF CommandTypeOK, MainOK, ThreadsOK
<1>2. ReaderLeft(f) \in Int /\ ReaderLeft(f)' \in Int
  BY DEF ReaderLeft
<1>3. MainLeft(f) \in Int /\ MainLeft(f)' \in Int
  BY DEF MainLeft
<1>4. SleepingAt(f) \in Int /\ SleepingAt(f)' \in Int
  BY DEF SleepingAt
<1>5. /\ PacketsLeft(f) = 6 * (length[f] - nread[f]) + 3 * Len(fifo[f])
      /\ PacketsLeft(f)' = 6 * (length[f] - nread'[f]) + 3 * Len(fifo'[f])
  BY DEF PacketsLeft
<1>6. PacketsLeft(f) \in Int /\ PacketsLeft(f)' \in Int
  BY <1>1, <1>5
<1>7. PacketsGain(f) \in Int /\ ReaderGain(f) \in Int /\ MainGain(f) \in Int /\ SleepGain(f) \in Int
  BY <1>2, <1>3, <1>4, <1>6 DEF PacketsGain, ReaderGain, MainGain, SleepGain
<1>8. /\ PacketsLeft(f)' = PacketsLeft(f) + PacketsGain(f) /\ ReaderLeft(f)' = ReaderLeft(f) + ReaderGain(f)
      /\ MainLeft(f)' = MainLeft(f) + MainGain(f) /\ SleepingAt(f)' = SleepingAt(f) + SleepGain(f)
  BY <1>2, <1>3, <1>4, <1>6 DEF PacketsGain, ReaderGain, MainGain, SleepGain
<1>9. /\ WorkLeft(f) = PacketsLeft(f) + ReaderLeft(f) + MainLeft(f) - SleepingAt(f)
      /\ WorkLeft(f)' = PacketsLeft(f)' + ReaderLeft(f)' + MainLeft(f)' - SleepingAt(f)'
      /\ WorkLeft(f) \in Int /\ WorkLeft(f)' \in Int
  BY <1>2, <1>3, <1>4, <1>6 DEF WorkLeft
<1>10. WorkLeft(f)' = WorkLeft(f) + (PacketsGain(f) + ReaderGain(f) + MainGain(f) - SleepGain(f))
  BY <1>2, <1>3, <1>4, <1>6, <1>7, <1>8, <1>9
<1>11. ASSUME NEW d \in {0, 1}, NEW e \in {-1, 0, 1},
              nread'[f] = nread[f] + d, Len(fifo'[f]) = Len(fifo[f]) + e
       PROVE  PacketsGain(f) = 3 * e - 6 * d
  <2> DEFINE l == length[f]
             n == nread[f]
             q == Len(fifo[f])
  <2>1. PacketsLeft(f) = 6 * (l - n) + 3 * q /\ PacketsLeft(f)' = 6 * (l - (n + d)) + 3 * (q + e)
    BY <1>5, <1>11
  <2>2. l \in Int /\ n \in Int /\ q \in Int /\ d \in Int /\ e \in Int
    BY <1>1
  <2> HIDE DEF l, n, q
  <2> QED BY <2>1, <2>2 DEF PacketsGain
<1>12. /\ nread'[f] = nread[f] /\ fifo'[f] = fifo[f] => PacketsGain(f) = 0
       /\ nread'[f] = nread[f] /\ Len(fifo'[f]) = Len(fifo[f]) - 1 => PacketsGain(f) = -3
       /\ nread'[f] = nread[f] /\ Len(fifo'[f]) = Len(fifo[f]) + 1 => PacketsGain(f) = 3
       /\ nread'[f] = nread[f] + 1 /\ fifo'[f] = fifo[f] => PacketsGain(f) = -6
  <2>1. nread'[f] = nread[f] => nread'[f] = nread[f] + 0
    BY <1>1
  <2>2. fifo'[f] = fifo[f] => Len(fifo'[f]) = Len(fifo[f]) + 0
    BY <1>1
  <2>3. Len(fifo'[f]) = Len(fifo[f]) - 1 => Len(fifo'[f]) = Len(fifo[f]) + (-1)
    BY <1>1
  <2>4. nread'[f] = nread[f] /\ fifo'[f] = fifo[f] => PacketsGain(f) = 0
    BY <1>11, <2>1, <2>2
  <2>5. nread'[f] = nread[f] /\ Len(fifo'[f]) = Len(fifo[f]) - 1 => PacketsGain(f) = -3
    BY <1>11, <2>1, <2>3
  <2>6. nread'[f] = nread[f] /\ Len(fifo'[f]) = Len(fifo[f]) + 1 => PacketsGain(f) = 3
    BY <1>11, <2>1
  <2>7. nread'[f] = nread[f] + 1 /\ fifo'[f] = fifo[f] => PacketsGain(f) = -6
    BY <1>11, <2>2
  <2> QED BY <2>4, <2>5, <2>6, <2>7
<1> QED BY <1>7, <1>9, <1>10, <1>12

\* A step of a reader uses up work of its own input and leaves the others alone.
LEMMA ReaderUsesUpWork ==
  ASSUME CommandTypeOK, CommandTypeOK', NEW f \in Inputs, ReaderNext(f)
  PROVE  /\ \A g \in Inputs \ {f} : WorkLeft(g)' = WorkLeft(g)
         /\ WorkLeft(f)' < WorkLeft(f)
<1>1. UNCHANGED <<pc, cur, finished, length>>
  BY DEF ReaderNext, ReadFrame, SendWait, Send, SendError, CloseReader, ReaderReturns, data, output
<1>2. \A g \in Inputs : MainLeft(g)' = MainLeft(g)
  BY <1>1 DEF MainLeft, Reading
<1>3. \A g \in Inputs \ {f} : reader'[g] = reader[g] /\ nread'[g] = nread[g] /\ fifo'[g] = fifo[g]
  BY DEF ReaderNext, ReadFrame, SendWait, Send, SendError, CloseReader, ReaderReturns, queues,
         CommandTypeOK, ThreadsOK
<1>4. asleep' \in {asleep, asleep \cup {f}, IF cur = f THEN asleep \ {Main} ELSE asleep}
  BY DEF ReaderNext, ReadFrame, SendWait, Send, SendError, CloseReader, ReaderReturns
<1>5. \A g \in Inputs \ {f} : WorkLeft(g)' = WorkLeft(g)
  <2>1. \A g \in Inputs \ {f} : SleepingAt(g)' = SleepingAt(g)
    BY <1>1, <1>4 DEF SleepingAt
  <2> QED BY <1>1, <1>2, <1>3, <2>1 DEF WorkLeft, PacketsLeft, ReaderLeft
<1>6. /\ PacketsGain(f) \in Int /\ ReaderGain(f) \in Int /\ MainGain(f) = 0 /\ SleepGain(f) \in Int
      /\ WorkLeft(f) \in Int /\ WorkLeft(f)' \in Int
      /\ WorkLeft(f)' = WorkLeft(f) + (PacketsGain(f) + ReaderGain(f) + MainGain(f) - SleepGain(f))
  <2>1. MainGain(f) = 0
    BY <1>2 DEF MainGain, MainLeft
  <2> QED BY <1>1, <2>1, WorkMoves
<1>7. /\ UNCHANGED asleep => SleepGain(f) = 0
      /\ asleep' = (IF cur = f THEN asleep \ {Main} ELSE asleep) => SleepGain(f) \in {0, -1}
      /\ f \notin asleep /\ asleep' = asleep \cup {f} => SleepGain(f) = 1
  BY <1>1 DEF SleepGain, SleepingAt
<1>8. ASSUME ReadFrame(f) PROVE WorkLeft(f)' < WorkLeft(f)
  <2>1. fifo' = fifo /\ UNCHANGED asleep /\ ReaderLeft(f) = 4
    BY <1>8 DEF ReadFrame, queues, ReaderLeft
  <2>2. \/ ReaderLeft(f)' = 9 /\ nread'[f] = nread[f] + 1
        \/ ReaderLeft(f)' = 3 /\ nread'[f] = nread[f]
    BY <1>8 DEF ReadFrame, CommandTypeOK, ThreadsOK, ReaderLeft
  <2>3. \/ ReaderGain(f) = 5 /\ PacketsGain(f) = -6
        \/ ReaderGain(f) = -1 /\ PacketsGain(f) = 0
    BY <1>1, <2>1, <2>2, WorkMoves DEF ReaderGain
  <2> QED BY <1>6, <1>7, <2>1, <2>3
<1>9. ASSUME SendWait(f) PROVE WorkLeft(f)' < WorkLeft(f)
  <2>1. UNCHANGED <<fifo, nread, reader>> /\ f \notin asleep /\ asleep' = asleep \cup {f}
    BY <1>9 DEF SendWait, queues
  <2>2. PacketsGain(f) = 0 /\ ReaderGain(f) = 0
    BY <1>1, <2>1, WorkMoves DEF ReaderGain, ReaderLeft
  <2> QED BY <1>6, <1>7, <2>1, <2>2
<1>10. ASSUME Send(f) PROVE WorkLeft(f)' < WorkLeft(f)
  <2>1. /\ Len(fifo'[f]) = Len(fifo[f]) + 1 /\ nread' = nread
        /\ asleep' = IF cur = f THEN asleep \ {Main} ELSE asleep
    BY <1>10, SendQueue DEF Send
  <2>2. ReaderLeft(f) = 9 /\ ReaderLeft(f)' = 4
    BY <1>10 DEF Send, ReaderLeft, CommandTypeOK, ThreadsOK
  <2>3. PacketsGain(f) = 3 /\ ReaderGain(f) = -5
    BY <1>1, <2>1, <2>2, WorkMoves DEF ReaderGain
  <2> QED BY <1>6, <1>7, <2>1, <2>3
<1>11. ASSUME SendError(f) PROVE WorkLeft(f)' < WorkLeft(f)
  <2>1. fifo' = fifo /\ nread' = nread /\ UNCHANGED asleep
    BY <1>11 DEF SendError, queues
  <2>2. ReaderLeft(f) = 9 /\ ReaderLeft(f)' = 3
    BY <1>11 DEF SendError, ReaderLeft, CommandTypeOK, ThreadsOK
  <2>3. PacketsGain(f) = 0 /\ ReaderGain(f) = -6
    BY <1>1, <2>1, <2>2, WorkMoves DEF ReaderGain
  <2> QED BY <1>6, <1>7, <2>1, <2>3
<1>12. ASSUME CloseReader(f) PROVE WorkLeft(f)' < WorkLeft(f)
  <2>1. fifo' = fifo /\ nread' = nread /\ asleep' = IF cur = f THEN asleep \ {Main} ELSE asleep
    BY <1>12 DEF CloseReader
  <2>2. ReaderLeft(f) = 3 /\ ReaderLeft(f)' = 1
    BY <1>12 DEF CloseReader, ReaderLeft, CommandTypeOK, ThreadsOK
  <2>3. PacketsGain(f) = 0 /\ ReaderGain(f) = -2
    BY <1>1, <2>1, <2>2, WorkMoves DEF ReaderGain
  <2> QED BY <1>6, <1>7, <2>1, <2>3
<1>13. ASSUME ReaderReturns(f) PROVE WorkLeft(f)' < WorkLeft(f)
  <2>1. fifo' = fifo /\ nread' = nread /\ UNCHANGED asleep
    BY <1>13 DEF ReaderReturns, queues
  <2>2. ReaderLeft(f) = 1 /\ ReaderLeft(f)' = 0
    BY <1>13 DEF ReaderReturns, ReaderLeft, CommandTypeOK, ThreadsOK
  <2>3. PacketsGain(f) = 0 /\ ReaderGain(f) = -1
    BY <1>1, <2>1, <2>2, WorkMoves DEF ReaderGain
  <2> QED BY <1>6, <1>7, <2>1, <2>3
<1> QED BY <1>5, <1>8, <1>9, <1>10, <1>11, <1>12, <1>13 DEF ReaderNext

\* A step of the command other than its last uses up work of the input it is
\* about, and adds to none.
LEMMA MainUsesUpWork ==
  ASSUME CommandTypeOK, CommandTypeOK', SleepersMustWait, Endings, MainNext, ~Finish
  PROVE  UsesUpWork
<1>1. UNCHANGED <<length, reader, nread>>
  BY DEF MainNext, TranscodeStep, RecvWait, CopyPacket, InputEnds, StopReader, Drain, Drained,
         JoinReader, data
<1>2. cur \in Inputs /\ cur' \in Inputs /\ \A g \in Inputs : finished[g] \in BOOLEAN /\ finished'[g] \in BOOLEAN
  <2> HIDE DEF Inputs
  <2> QED BY DEF CommandTypeOK, MainOK, OutputOK
<1>3. \A g \in Inputs :
        /\ PacketsGain(g) \in Int /\ MainGain(g) \in Int /\ SleepGain(g) \in Int
        /\ WorkLeft(g) \in Int /\ WorkLeft(g)' \in Int
        /\ WorkLeft(g)' = WorkLeft(g) + (PacketsGain(g) + MainGain(g) - SleepGain(g))
  <2> TAKE g \in Inputs
  <2>1. ReaderGain(g) = 0
    BY <1>1 DEF ReaderGain, ReaderLeft
  <2> QED BY <1>1, <2>1, WorkMoves
<1>4. \A g \in Inputs :
        /\ fifo'[g] = fifo[g] => PacketsGain(g) = 0
        /\ Len(fifo'[g]) = Len(fifo[g]) - 1 => PacketsGain(g) = -3
  BY <1>1, WorkMoves
<1>5. Main \notin asleep /\ UNCHANGED asleep => \A g \in Inputs : SleepGain(g) = 0
  BY DEF SleepGain, SleepingAt
<1>6. PICK c \in Inputs : c = cur
  BY <1>2
<1>7. ASSUME Main \notin asleep, cur' = cur, asleep' = asleep \ {cur}
      PROVE  SleepGain(c) \in {0, -1} /\ \A g \in Inputs \ {c} : SleepGain(g) = 0
  <2>1. \A g \in Inputs : /\ SleepingAt(g) = IF g \in asleep THEN 1 ELSE 0
                          /\ SleepingAt(g)' = IF g \in asleep /\ g # c THEN 1 ELSE 0
    <3> TAKE g \in Inputs
    <3>1. /\ g \in asleep' <=> g \in asleep /\ g # c
          /\ Main \notin asleep'
      BY <1>6, <1>7
    <3>2. SleepingAt(g) = (IF g \in asleep THEN 1 ELSE 0) + 0
      BY <1>7 DEF SleepingAt
    <3>3. SleepingAt(g)' = (IF g \in asleep /\ g # c THEN 1 ELSE 0) + 0
      BY <3>1 DEF SleepingAt
    <3> QED BY <3>2, <3>3
  <2>2. \A g \in Inputs \ {c} : SleepGain(g) = 0
    BY <2>1 DEF SleepGain
  <2>3. SleepingAt(c)' = 0 /\ SleepingAt(c) \in {0, 1}
    BY <2>1
  <2>4. SleepGain(c) \in {0, -1}
    BY <2>3 DEF SleepGain
  <2> QED BY <2>2, <2>4
\* It is enough that one input gains less than nothing and no other more than that.
<1>8. ASSUME NEW d \in Inputs, PacketsGain(d) + MainGain(d) - SleepGain(d) < 0,
             \A g \in Inputs \ {d} : PacketsGain(g) + MainGain(g) - SleepGain(g) <= 0
      PROVE  UsesUpWork
  <2>1. WorkLeft(d)' < WorkLeft(d)
    BY <1>3, <1>8
  <2>2. WorkLeft(d)' <= WorkLeft(d)
    BY <1>3, <2>1
  <2>3. \A g \in Inputs \ {d} : WorkLeft(g)' <= WorkLeft(g)
    <3> TAKE g \in Inputs \ {d}
    <3>1. PacketsGain(g) + MainGain(g) - SleepGain(g) <= 0
      BY <1>8
    <3> QED BY <1>3, <3>1
  <2> QED BY <2>1, <2>2, <2>3 DEF UsesUpWork
\* Where the command is, and with it what is left of its own way.
<1>9. ASSUME pc \in {"loop", "recv"}, NEW g \in Inputs
      PROVE  MainLeft(g) = 4 + (IF finished[g] THEN 0 ELSE 2) + (IF pc = "recv" /\ c = g THEN 0 ELSE 1)
  BY <1>6, <1>9 DEF MainLeft, Reading
<1>10. ASSUME pc' \in {"loop", "recv"}, cur' = c, NEW g \in Inputs
       PROVE  MainLeft(g)' = 4 + (IF finished'[g] THEN 0 ELSE 2) + (IF pc' = "recv" /\ c = g THEN 0 ELSE 1)
  BY <1>10 DEF MainLeft, Reading
<1>11. ASSUME RecvWait PROVE UsesUpWork
  <2>1. UNCHANGED <<pc, cur, fifo, finished>> /\ Main \notin asleep /\ asleep' = asleep \cup {Main}
    BY <1>11 DEF RecvWait, queues, output
  <2>2. \A g \in Inputs : MainGain(g) = 0 /\ PacketsGain(g) = 0
    <3>1. \A g \in Inputs : MainLeft(g)' = MainLeft(g) /\ MainLeft(g) \in Int
      BY <2>1 DEF MainLeft, Reading
    <3> QED BY <1>4, <2>1, <3>1 DEF MainGain
  <2>3. \A g \in Inputs : SleepGain(g) = IF g = c THEN 1 ELSE 0
    <3> TAKE g \in Inputs
    <3>1. g \in asleep' <=> g \in asleep
      BY <2>1
    <3>2. SleepingAt(g) = (IF g \in asleep THEN 1 ELSE 0) + 0
      BY <2>1 DEF SleepingAt
    <3>3. SleepingAt(g)' = (IF g \in asleep THEN 1 ELSE 0) + (IF g = c THEN 1 ELSE 0)
      BY <1>6, <2>1, <3>1 DEF SleepingAt
    <3> QED BY <3>2, <3>3 DEF SleepGain
  <2>4. /\ PacketsGain(c) + MainGain(c) - SleepGain(c) < 0
        /\ \A g \in Inputs \ {c} : PacketsGain(g) + MainGain(g) - SleepGain(g) <= 0
    BY <2>2, <2>3
  <2> QED BY <1>8, <2>4
<1>12. ASSUME CopyPacket PROVE UsesUpWork
  <2>1. /\ pc = "recv" /\ pc' = "loop" /\ cur' = cur /\ Main \notin asleep /\ fifo[cur] # <<>>
        /\ fifo' = [fifo EXCEPT ![cur] = Tail(@)] /\ asleep' = asleep \ {cur}
        /\ finished' = finished \/ finished' = [g \in Inputs |-> TRUE]
    BY <1>12 DEF CopyPacket, Recv
  <2>2. PacketsGain(c) = -3 /\ \A g \in Inputs \ {c} : PacketsGain(g) = 0
    <3>1. Len(fifo'[c]) = Len(fifo[c]) - 1
      BY <1>6, <1>12, RecvQueue DEF CopyPacket
    <3>2. \A g \in Inputs \ {c} : fifo'[g] = fifo[g]
      BY <1>6, <2>1 DEF CommandTypeOK, ThreadsOK
    <3> QED BY <1>4, <3>1, <3>2
  <2>3. \A g \in Inputs : finished[g] => finished'[g]
    BY <2>1
  <2>4. MainGain(c) \in {1, -1} /\ \A g \in Inputs \ {c} : MainGain(g) \in {0, -2}
    <3>1. ASSUME NEW g \in Inputs
          PROVE  MainGain(g) = (IF finished'[g] THEN 0 ELSE 2) - (IF finished[g] THEN 0 ELSE 2)
                               + (IF c = g THEN 1 ELSE 0)
      <4>1. MainLeft(g) = 4 + (IF finished[g] THEN 0 ELSE 2) + (IF c = g THEN 0 ELSE 1)
        BY <1>9, <2>1
      <4>2. MainLeft(g)' = 4 + (IF finished'[g] THEN 0 ELSE 2) + 1
        BY <1>6, <1>10, <2>1
      <4> QED BY <4>1, <4>2 DEF MainGain
    <3> QED BY <2>3, <3>1
  <2>5. SleepGain(c) \in {0, -1} /\ \A g \in Inputs \ {c} : SleepGain(g) = 0
    BY <1>7, <2>1
  <2>6. /\ PacketsGain(c) + MainGain(c) - SleepGain(c) < 0
        /\ \A g \in Inputs \ {c} : PacketsGain(g) + MainGain(g) - SleepGain(g) <= 0
    BY <2>2, <2>4, <2>5
  <2> QED BY <1>8, <2>6
<1>13. ASSUME InputEnds PROVE UsesUpWork
  <2>1. /\ pc = "recv" /\ pc' = "loop" /\ UNCHANGED <<cur, fifo, asleep>> /\ Main \notin asleep
        /\ finished' = [finished EXCEPT ![cur] = TRUE]
    BY <1>13 DEF InputEnds, RecvError, queues
  <2>2. ~finished[c] /\ finished'[c] /\ \A g \in Inputs \ {c} : finished'[g] = finished[g]
    BY <1>6, <2>1 DEF Endings, CommandTypeOK, OutputOK
  <2>3. MainGain(c) = -1 /\ \A g \in Inputs \ {c} : MainGain(g) = 0
    <3>1. ASSUME NEW g \in Inputs
          PROVE  MainGain(g) = (IF finished'[g] THEN 0 ELSE 2) - (IF finished[g] THEN 0 ELSE 2)
                               + (IF c = g THEN 1 ELSE 0)
      <4>1. MainLeft(g) = 4 + (IF finished[g] THEN 0 ELSE 2) + (IF c = g THEN 0 ELSE 1)
        BY <1>9, <2>1
      <4>2. MainLeft(g)' = 4 + (IF finished'[g] THEN 0 ELSE 2) + 1
        BY <1>6, <1>10, <2>1
      <4> QED BY <4>1, <4>2 DEF MainGain
    <3> QED BY <2>2, <3>1
  <2>4. \A g \in Inputs : PacketsGain(g) = 0 /\ SleepGain(g) = 0
    BY <1>4, <1>5, <2>1
  <2> QED BY <1>8, <2>3, <2>4
<1>14. ASSUME TranscodeStep PROVE UsesUpWork
  <2>1. pc = "loop" /\ UNCHANGED <<fifo, finished, asleep>> /\ Main \notin asleep
    BY <1>14 DEF TranscodeStep, queues, output, SleepersMustWait
  <2>2. \A g \in Inputs : PacketsGain(g) = 0 /\ SleepGain(g) = 0
    BY <1>4, <1>5, <2>1
  <2>3. \A g \in Inputs : MainLeft(g) = 4 + (IF finished[g] THEN 0 ELSE 2) + 1
    BY <1>9, <2>1
  <2>4. ASSUME NEW d \in Inputs, pc' = "recv", cur' = d PROVE UsesUpWork
    <3>1. \A g \in Inputs : MainLeft(g)' = 4 + (IF finished[g] THEN 0 ELSE 2) + (IF g = d THEN 0 ELSE 1)
      BY <2>1, <2>4 DEF MainLeft, Reading
    <3>2. \A g \in Inputs : MainGain(g) = IF g = d THEN -1 ELSE 0
      BY <2>3, <3>1 DEF MainGain
    <3> QED BY <1>8, <2>2, <3>2
  <2>5. ASSUME ~need_output, pc' = "stop" PROVE UsesUpWork
    <3>1. \A g \in Inputs : finished[g]
      BY <2>5 DEF need_output, Unfinished
    <3>2. \A g \in Inputs : MainLeft(g)' \in {0, 4}
      BY <2>5 DEF MainLeft, Reading
    <3>3. \A g \in Inputs : MainGain(g) \in {-1, -5}
      BY <2>3, <3>1, <3>2 DEF MainGain
    <3>4. /\ PacketsGain(c) + MainGain(c) - SleepGain(c) < 0
          /\ \A g \in Inputs \ {c} : PacketsGain(g) + MainGain(g) - SleepGain(g) <= 0
      BY <2>2, <3>3
    <3> QED BY <1>8, <3>4
  <2> QED BY <1>14, <2>4, <2>5 DEF TranscodeStep
\* On the way to the end: what is left at each place.
<1>15. ASSUME NEW g \in Inputs
       PROVE  /\ pc \in {"stop", "drain", "join"} /\ g # c => MainLeft(g) = IF g < c THEN 0 ELSE 4
              /\ pc = "stop" => MainLeft(c) = 4
              /\ pc = "drain" => MainLeft(c) = 2
              /\ pc = "join" => MainLeft(c) = 1
              /\ cur' = c /\ pc' \in {"stop", "drain", "join"} /\ g # c =>
                   MainLeft(g)' = IF g < c THEN 0 ELSE 4
              /\ cur' = c /\ pc' = "drain" => MainLeft(c)' = 2
              /\ cur' = c /\ pc' = "join" => MainLeft(c)' = 1
  <2>1. /\ g \in Int /\ c \in Int /\ ~(c < c) /\ ~(c > c)
        /\ g # c => (g < c \/ g > c) /\ ~(g < c /\ g > c)
    OBVIOUS
  <2> HIDE DEF Inputs
  <2>2. /\ pc \in {"stop", "drain", "join"} /\ g # c => MainLeft(g) = IF g < c THEN 0 ELSE 4
        /\ pc = "stop" => MainLeft(c) = 4
        /\ pc = "drain" => MainLeft(c) = 2
        /\ pc = "join" => MainLeft(c) = 1
    BY <1>6, <2>1 DEF MainLeft, Reading
  <2>3. /\ cur' = c /\ pc' \in {"stop", "drain", "join"} /\ g # c =>
             MainLeft(g)' = IF g < c THEN 0 ELSE 4
        /\ cur' = c /\ pc' = "drain" => MainLeft(c)' = 2
        /\ cur' = c /\ pc' = "join" => MainLeft(c)' = 1
    BY <2>1 DEF MainLeft, Reading
  <2> QED BY <2>2, <2>3
<1>16. ASSUME cur' = c, pc \in {"stop", "drain", "join"}, pc' \in {"drain", "join"}
       PROVE  \A g \in Inputs \ {c} : MainGain(g) = 0
  BY <1>15, <1>16 DEF MainGain
<1>17. ASSUME StopReader PROVE UsesUpWork
  <2>1. /\ pc = "stop" /\ pc' = "drain" /\ cur' = cur /\ fifo' = fifo /\ asleep' = asleep \ {cur}
        /\ Main \notin asleep
    BY <1>17 DEF StopReader, SleepersMustWait
  <2>2. MainGain(c) = -2 /\ \A g \in Inputs \ {c} : MainGain(g) = 0
    <3>1. MainLeft(c) = 4 /\ MainLeft(c)' = 2
      BY <1>6, <1>15, <2>1
    <3> QED BY <1>6, <1>16, <2>1, <3>1 DEF MainGain
  <2>3. \A g \in Inputs : PacketsGain(g) = 0
    BY <1>4, <2>1
  <2>4. SleepGain(c) \in {0, -1} /\ \A g \in Inputs \ {c} : SleepGain(g) = 0
    BY <1>7, <2>1
  <2>5. /\ PacketsGain(c) + MainGain(c) - SleepGain(c) < 0
        /\ \A g \in Inputs \ {c} : PacketsGain(g) + MainGain(g) - SleepGain(g) <= 0
    BY <2>2, <2>3, <2>4
  <2> QED BY <1>8, <2>5
<1>18. ASSUME Drain PROVE UsesUpWork
  <2>1. /\ pc = "drain" /\ pc' = "drain" /\ cur' = cur /\ Main \notin asleep
        /\ fifo' = [fifo EXCEPT ![cur] = Tail(@)] /\ asleep' = asleep \ {cur}
    BY <1>18 DEF Drain, Recv
  <2>2. PacketsGain(c) = -3 /\ \A g \in Inputs \ {c} : PacketsGain(g) = 0
    <3>1. Len(fifo'[c]) = Len(fifo[c]) - 1
      BY <1>6, <1>18, RecvQueue DEF Drain
    <3>2. \A g \in Inputs \ {c} : fifo'[g] = fifo[g]
      BY <1>6, <2>1 DEF CommandTypeOK, ThreadsOK
    <3> QED BY <1>4, <3>1, <3>2
  <2>3. \A g \in Inputs : MainGain(g) = 0
    <3>1. MainLeft(c) = 2 /\ MainLeft(c)' = 2
      BY <1>6, <1>15, <2>1
    <3> QED BY <1>6, <1>16, <2>1, <3>1 DEF MainGain
  <2>4. SleepGain(c) \in {0, -1} /\ \A g \in Inputs \ {c} : SleepGain(g) = 0
    BY <1>7, <2>1
  <2>5. /\ PacketsGain(c) + MainGain(c) - SleepGain(c) < 0
        /\ \A g \in Inputs \ {c} : PacketsGain(g) + MainGain(g) - SleepGain(g) <= 0
    BY <2>2, <2>3, <2>4
  <2> QED BY <1>8, <2>5
<1>19. ASSUME Drained PROVE UsesUpWork
  <2>1. pc = "drain" /\ pc' = "join" /\ UNCHANGED <<cur, fifo, asleep>> /\ Main \notin asleep
    BY <1>19 DEF Drained, RecvError, queues
  <2>2. MainGain(c) = -1 /\ \A g \in Inputs \ {c} : MainGain(g) = 0
    <3>1. MainLeft(c) = 2 /\ MainLeft(c)' = 1
      BY <1>6, <1>15, <2>1
    <3> QED BY <1>6, <1>16, <2>1, <3>1 DEF MainGain
  <2>3. \A g \in Inputs : PacketsGain(g) = 0 /\ SleepGain(g) = 0
    BY <1>4, <1>5, <2>1
  <2> QED BY <1>8, <2>2, <2>3
<1>20. ASSUME JoinReader PROVE UsesUpWork
  <2>1. /\ pc = "join" /\ UNCHANGED <<fifo, asleep>> /\ Main \notin asleep
        /\ \/ cur < NbInputs /\ cur' = cur + 1 /\ pc' = "stop"
           \/ ~(cur < NbInputs) /\ pc' = "trailer"
    BY <1>20 DEF JoinReader, queues, SleepersMustWait
  <2>2. \A g \in Inputs : PacketsGain(g) = 0 /\ SleepGain(g) = 0
    BY <1>4, <1>5, <2>1
  <2>3. \A g \in Inputs : MainGain(g) = IF g = c THEN -1 ELSE 0
    <3> TAKE g \in Inputs
    <3>1. MainLeft(g) = IF g = c THEN 1 ELSE IF g < c THEN 0 ELSE 4
      BY <1>15, <2>1
    <3>2. MainLeft(g)' = IF g <= c THEN 0 ELSE 4
      <4>1. g \in Int /\ c \in Int /\ g <= NbInputs /\ NbInputs \in Int
        OBVIOUS
      <4> HIDE DEF Inputs
      <4>2. CASE cur < NbInputs /\ cur' = cur + 1 /\ pc' = "stop"
        <5>1. cur' = c + 1 /\ (g < cur' <=> g <= c)
          BY <1>6, <4>1, <4>2
        <5> QED BY <4>2, <5>1 DEF MainLeft, Reading
      <4>3. CASE ~(cur < NbInputs) /\ pc' = "trailer"
        <5>1. g <= c
          BY <1>6, <4>1, <4>3
        <5> QED BY <4>3, <5>1 DEF MainLeft, Reading
      <4> QED BY <2>1, <4>2, <4>3
    <3>3. g \in Int /\ c \in Int
      OBVIOUS
    <3> QED BY <3>1, <3>2, <3>3 DEF MainGain
  <2> QED BY <1>8, <2>2, <2>3
<1> QED BY <1>11, <1>12, <1>13, <1>14, <1>17, <1>18, <1>19, <1>20 DEF MainNext

\* Every step of a command but its last uses up work, which is a number from 0
\* on: it takes at most as many steps as it has work when it begins, and since it
\* is never stuck it ends as soon as its threads are scheduled.
WorkShrinks == Active /\ Next => Finish \/ UsesUpWork

\* The work is a natural number, and every step of a command but its last lessens it.
THEOREM WorkShrinksHolds == Spec => [](\A f \in Inputs : WorkLeft(f) \in Nat) /\ [][WorkShrinks]_vars
<1>1. CommandInv /\ EndInv => \A f \in Inputs : WorkLeft(f) \in Nat
  BY WorkIsNat DEF CommandInv
<1>2. CommandInv /\ [Next]_vars => [WorkShrinks]_vars
  <2> SUFFICES ASSUME CommandInv, Next, Active, ~Finish PROVE UsesUpWork
    BY DEF WorkShrinks
  <2>1. CommandTypeOK /\ CommandTypeOK'
    BY TypeStep DEF CommandInv
  <2>2. CASE MainNext
    BY <2>1, <2>2, MainUsesUpWork DEF CommandInv
  <2>3. ASSUME NEW f \in Inputs, ReaderNext(f) PROVE UsesUpWork
    <3>1. /\ \A g \in Inputs \ {f} : WorkLeft(g)' = WorkLeft(g)
          /\ WorkLeft(f)' < WorkLeft(f)
      BY <2>1, <2>3, ReaderUsesUpWork
    <3>2. \A g \in Inputs : WorkLeft(g) \in Int /\ WorkLeft(g)' \in Int
      BY <2>1, <2>3, WorkMoves DEF ReaderNext, ReadFrame, SendWait, Send, SendError, CloseReader, ReaderReturns, data
    <3> QED BY <3>1, <3>2 DEF UsesUpWork
  <2>4. ~Open /\ ~OpenFails
    BY DEF Active, Open, OpenFails
  <2> QED BY <2>2, <2>3, <2>4 DEF Next
<1> QED BY <1>1, <1>2, CommandInvariant, EndInvariant, PTL DEF Spec
-----------------------------------------------------------------------------
(* The command copies as one thread would.                                  *)

\* A reader reports an error only where reading may fail.
ReadsFail == \A f \in Inputs : "error" \in {reader[f], err_recv[f]} => "read" \in Failures

LEMMA ReadsFailStep == CommandTypeOK /\ ReadsFail /\ [Next]_vars => ReadsFail'
<1> SUFFICES ASSUME CommandTypeOK, ReadsFail, [Next]_vars PROVE ReadsFail'
  OBVIOUS
<1> USE DEF CommandTypeOK, ThreadsOK, ReadsFail
<1>1. CASE Open \/ OpenFails
  BY <1>1 DEF Open, OpenFails, queues
<1>2. CASE MainNext
  <2>1. UNCHANGED <<reader, err_recv>>
    BY <1>2 DEF MainNext, TranscodeStep, RecvWait, CopyPacket, InputEnds, StopReader, Drain, Drained,
                JoinReader, Finish, Recv, RecvError, queues
  <2> QED BY <2>1
<1>3. ASSUME NEW f \in Inputs, ReaderNext(f) PROVE ReadsFail'
  BY <1>3 DEF ReaderNext, ReadFrame, SendWait, Send, SendError, CloseReader, ReaderReturns, queues
<1>4. CASE UNCHANGED vars
  BY <1>4 DEF vars, queues
<1> QED BY <1>1, <1>2, <1>3, <1>4 DEF Next

\* Both choose the same stream and drop the same packets.
LEMMA SameChoice ==
  /\ Sequential!Inputs = Inputs /\ Sequential!Unfinished = Unfinished
  /\ \A f \in Inputs : Sequential!choose_output(f) <=> choose_output(f)
  /\ \A f \in Inputs : \A n : Sequential!Skips(f, n) <=> Skips(f, n)
<1>1. Sequential!Inputs = Inputs /\ Sequential!Unfinished = Unfinished
  BY DEF Sequential!Inputs, Sequential!Unfinished, Unfinished
<1>2. \A f \in Inputs : Sequential!cur_dts(f) = cur_dts(f)
  BY DEF Sequential!cur_dts, cur_dts
<1>3. \A f \in Inputs : Sequential!choose_output(f) <=> choose_output(f)
  BY <1>1, <1>2 DEF Sequential!choose_output, choose_output, Unfinished
<1>4. \A f \in Inputs : \A n : Sequential!Skips(f, n) <=> Skips(f, n)
  BY DEF Sequential!Skips, Skips
<1> QED BY <1>1, <1>3, <1>4

\* What the loop, the queues and the readers do by themselves is not seen.
LEMMA Unseen ==
  ASSUME UNCHANGED <<runs, data, output, trailer>>,
         pc = pc' \/ {pc, pc'} \cap {"idle", "fault"} = {}
  PROVE  UNCHANGED Sequential!vars
BY DEF Sequential!vars, data, output

\* Every step of the command is a step of the sequential one, or is not seen.
LEMMA SequentialStep ==
  ASSUME CommandInv, Chosen, ReadsFail, EndInv, [Next]_vars
  PROVE  [Sequential!Next]_(Sequential!vars)
<1> USE DEF CommandInv
<1>1. CASE Open
  BY <1>1 DEF Open, Sequential!Next, Sequential!Open, Sequential!Inputs, data, queues, output
<1>2. CASE OpenFails
  BY <1>2 DEF OpenFails, Sequential!Next, Sequential!OpenFails, data
<1>3. CASE TranscodeStep \/ RecvWait \/ StopReader \/ Drain \/ Drained
  BY <1>3, Unseen DEF TranscodeStep, RecvWait, StopReader, Drain, Drained
<1>4. CASE JoinReader
  BY <1>4, Unseen DEF JoinReader
<1>5. ASSUME NEW f \in Inputs, ReaderNext(f) PROVE UNCHANGED Sequential!vars
  <2>1. UNCHANGED <<pc, runs, data, output, trailer>>
    BY <1>5 DEF ReaderNext, ReadFrame, SendWait, Send, SendError, CloseReader, ReaderReturns
  <2> QED BY <2>1, Unseen
<1>6. CASE UNCHANGED vars
  <2>1. UNCHANGED <<pc, runs, data, output, trailer>>
    BY <1>6 DEF vars
  <2> QED BY <2>1, Unseen
<1>7. PICK c \in Inputs : c = cur
  BY DEF CommandTypeOK, MainOK
<1>8. /\ nread[c] \in Nat /\ taken[c] \in Nat /\ length[c] \in Nat /\ nread[c] <= length[c]
      /\ fifo[c] \in Seq(Nat) /\ Len(fifo[c]) \in Nat
  BY LenProperties DEF CommandTypeOK, MainOK, ThreadsOK, OutputOK, EndInv
<1>9. CASE CopyPacket
  <2>1. pc = "recv" /\ pc' = "loop" /\ fifo[c] # <<>>
    BY <1>7, <1>9 DEF CopyPacket, Recv
  <2>2. Sequential!choose_output(c)
    BY <1>7, <2>1, SameChoice DEF Chosen
  <2>3. Head(fifo[c]) = taken[c] + 1 /\ taken[c] < length[c]
    <3>1. Len(fifo[c]) >= 1 /\ Head(fifo[c]) = fifo[c][1]
      BY <1>8, <2>1, EmptySeq, HeadTailProperties
    <3>2. 1 \in 1 .. Len(fifo[c])
      BY <1>8, <3>1
    <3>3. /\ fifo[c][1] = taken[c] + 1
          /\ nread[c] = taken[c] + Len(fifo[c]) + (IF reader[c] = "send" THEN 1 ELSE 0)
      BY <2>1, <3>2 DEF Flow, Reading
    <3>4. nread[c] = taken[c] + Len(fifo[c]) \/ nread[c] = taken[c] + Len(fifo[c]) + 1
      BY <1>8, <3>3
    <3>5. taken[c] < length[c]
      BY <1>8, <3>1, <3>4
    <3> QED BY <3>1, <3>3, <3>5
  <2>4. /\ taken' = [taken EXCEPT ![c] = @ + 1]
        /\ \/ /\ Skips(c, taken[c] + 1)
              /\ UNCHANGED <<finished, written, failed, main_return_code>>
           \/ /\ ~Skips(c, taken[c] + 1)
              /\ written' = [written EXCEPT ![c] = Append(@, taken[c] + 1)]
              /\ UNCHANGED <<finished, failed, main_return_code>>
           \/ /\ ~Skips(c, taken[c] + 1) /\ "write" \in Failures
              /\ finished' = [f \in Inputs |-> TRUE]
              /\ failed' = TRUE /\ main_return_code' = 1
              /\ UNCHANGED written
    BY <1>7, <1>9, <2>3 DEF CopyPacket
  <2>5. UNCHANGED <<runs, length, key, trailer>>
    BY <1>9 DEF CopyPacket, data
  <2>6. Sequential!CopyPacket(c)
    BY <2>1, <2>2, <2>3, <2>4, <2>5, SameChoice DEF Sequential!CopyPacket
  <2> QED BY <2>6, SameChoice DEF Sequential!Next
<1>10. CASE InputEnds
  <2>1. pc = "recv" /\ pc' = "loop" /\ fifo[c] = <<>> /\ err_recv[c] # "none"
    BY <1>7, <1>10 DEF InputEnds, RecvError
  <2>2. Sequential!choose_output(c)
    BY <1>7, <2>1, SameChoice DEF Chosen
  <2>3. taken[c] = length[c] \/ "read" \in Failures
    <3>1. CASE err_recv[c] = "error"
      BY <3>1 DEF ReadsFail
    <3>2. CASE err_recv[c] = "eof"
      <4>1. nread[c] = length[c] /\ reader[c] # "send"
        BY <2>1, <3>2 DEF Reports, Reading
      <4>2. nread[c] = taken[c] + Len(fifo[c]) + 0
        BY <2>1, <4>1 DEF Flow, Reading
      <4>3. Len(fifo[c]) = 0
        BY <2>1
      <4> QED BY <1>8, <4>1, <4>2, <4>3
    <3> QED BY <2>1, <3>1, <3>2 DEF CommandTypeOK, ThreadsOK
  <2>4. /\ finished' = [finished EXCEPT ![c] = TRUE]
        /\ UNCHANGED <<runs, main_return_code, length, key, taken, written, failed, trailer>>
    BY <1>7, <1>10 DEF InputEnds, data
  <2>5. Sequential!InputEnds(c)
    BY <2>1, <2>2, <2>3, <2>4 DEF Sequential!InputEnds
  <2> QED BY <2>5, SameChoice DEF Sequential!Next
<1>11. CASE Finish
  <2>1. Sequential!Unfinished = {}
    BY <1>11, SameChoice DEF Finish, Endings, Stopped, Unfinished
  <2>2. Sequential!Finish
    BY <1>11, <2>1 DEF Finish, Sequential!Finish, data, output
  <2> QED BY <2>2 DEF Sequential!Next
<1> QED
  BY <1>1, <1>2, <1>3, <1>4, <1>5, <1>6, <1>9, <1>10, <1>11 DEF Next, MainNext

\* A command with its threads and queues implements the one without.
THEOREM CopiesAsOneThreadHolds == Spec => CopiesAsOneThread
<1>1. Init => Sequential!Init /\ ReadsFail /\ Chosen
  BY DEF Init, Sequential!Init, Sequential!Inputs, ReadsFail, Chosen
<1>2. CommandInv /\ CommandInv' /\ Chosen /\ StreamsInterleaved /\ [Next]_vars => Chosen'
  BY TogetherStep
<1>3. CommandInv /\ ReadsFail /\ [Next]_vars => ReadsFail'
  BY ReadsFailStep DEF CommandInv
<1> QED
  BY <1>1, <1>2, <1>3, SequentialStep, CommandInvariant, EndInvariant, StreamsInterleavedHolds, PTL
     DEF Spec, CopiesAsOneThread, Sequential!Spec
=============================================================================
