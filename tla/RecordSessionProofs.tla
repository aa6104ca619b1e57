------------------------ MODULE RecordSessionProofs ------------------------
(***************************************************************************)
(* Safety of the recording pipeline for any number of screens, recordings  *)
(* and frames, whatever external calls fail.                               *)
(***************************************************************************)
EXTENDS RecordSession, SequenceTheorems, TLAPS

USE DEF Null, NoFault

\* The process starts with every variable in its range.
LEMMA InitTypeOK == Init => TypeOK
<1> SUFFICES ASSUME Init PROVE TypeOK
  OBVIOUS
<1> USE SizesAssumption DEF Init, Recorders, Sessions, Tracks, Encoders, Paths, Pointers
<1>1. /\ screen \in 1 .. MaxRecorders + 1
      /\ mainPc \in MainPcs /\ caller \in Recorders
      /\ mRecording \in [Recorders -> BOOLEAN]
      /\ audioPc \in [Recorders -> AudioPcs]
      /\ audioEncoder \in [Recorders -> Pointers]
      /\ interrupted \in [Recorders -> BOOLEAN]
  BY DEF MainPcs, AudioPcs
<1>2. /\ cur \in 0 .. MaxSessions /\ rec \in [Sessions -> Recorders]
      /\ encoder \in [Tracks -> Pointers]
      /\ is_end \in [Encoders -> BOOLEAN] /\ is_release \in [Encoders -> BOOLEAN]
  OBVIOUS
<1>3. /\ frame_queue \in [Encoders -> Seq(Frames)] /\ unseen \in [Encoders -> Nat]
      /\ sent \in [Encoders -> Seq(Frames)] /\ encoded \in [Encoders -> Seq(Frames)]
  <2>1. <<>> \in Seq(Frames)
    OBVIOUS
  <2> QED BY <2>1
<1>4. /\ pc \in [Encoders -> EncoderPcs] /\ file \in [Encoders -> FileStates]
      /\ owner \in [Paths -> Pointers]
      /\ state \in [Encoders -> BOOLEAN] /\ handler_freed \in [Sessions -> BOOLEAN]
  BY DEF EncoderPcs, FileStates
<1>5. /\ media \in [Recorders -> Pointers]
      /\ muxed \in [Sessions -> Nat] /\ notified \in [Sessions -> Nat]
      /\ fault \in Faults
  BY DEF Faults
<1> QED BY <1>1, <1>2, <1>3, <1>4, <1>5
      DEF TypeOK, CallerOK, SessionOK, QueueOK, ThreadOK, ResultOK

\* A push of a captured frame keeps queues and histories in range.
LEMMA PushOK ==
  ASSUME QueueOK, NEW e \in Encoders, NEW f \in Frames, Push(e, f)
  PROVE  QueueOK'
  BY DEF QueueOK, Push

\* Opening an encoder, however it fails, keeps threads, files and paths in range.
LEMMA InitEncoderThreadOK ==
  ASSUME TypeOK, NEW t \in Tracks, NEW done, InitEncoder(t, done)
  PROVE  ThreadOK'
<1>1. cur \in Pointers
  BY SizesAssumption DEF TypeOK, SessionOK, Pointers, Sessions
<1>2. /\ pc \in [Encoders -> EncoderPcs] /\ file \in [Encoders -> FileStates]
      /\ owner \in [Paths -> Pointers]
  BY DEF TypeOK, ThreadOK
<1>3. PICK ok \in MayFail("init") : \E opened \in {ok, TRUE} :
        /\ pc' = [pc EXCEPT ![<<cur, t>>] = IF ok THEN "loop" ELSE "failed"]
        /\ file' = IF opened THEN [file EXCEPT ![<<cur, t>>] = "open"] ELSE file
        /\ owner' = IF opened THEN [owner EXCEPT ![<<rec[cur], t>>] = cur] ELSE
            owner
  BY DEF InitEncoder
<1>4. pc' \in [Encoders -> EncoderPcs]
  BY <1>2, <1>3 DEF EncoderPcs
<1>5. file' \in [Encoders -> FileStates]
  BY <1>2, <1>3 DEF FileStates
<1>6. owner' \in [Paths -> Pointers]
  BY <1>1, <1>2, <1>3
<1> QED BY <1>4, <1>5, <1>6 DEF ThreadOK

\* Each step of a call the main thread has begun keeps the variables in range.
LEMMA TypeOKMain == TypeOK /\ MainStep => TypeOK'
<1> SUFFICES ASSUME TypeOK, MainStep PROVE TypeOK'
  OBVIOUS
<1>1. CASE InitVideoEncoder
  <2>1. QueueOK' /\ ResultOK'
    BY <1>1 DEF TypeOK, QueueOK, ResultOK, InitVideoEncoder, InitEncoder, queueVars,
        handlerVars, resultVars
  <2>2. CallerOK'
    BY <1>1 DEF TypeOK, CallerOK, InitVideoEncoder, InitEncoder, javaVars, mainVars,
        audioVars, MainPcs, AudioPcs
  <2>3. SessionOK'
    BY <1>1 DEF TypeOK, SessionOK, InitVideoEncoder, InitEncoder, sessionVars,
        flagVars, Pointers, Sessions, Encoders, Tracks
  <2>4. ThreadOK'
    BY <1>1, InitEncoderThreadOK DEF InitVideoEncoder, Tracks
  <2> QED BY <2>1, <2>2, <2>3, <2>4 DEF TypeOK
<1>2. CASE InitAudioEncoder
  <2>1. QueueOK' /\ ResultOK'
    BY <1>2 DEF TypeOK, QueueOK, ResultOK, InitAudioEncoder, InitEncoder, queueVars,
        handlerVars, resultVars
  <2>2. CallerOK'
    BY <1>2 DEF TypeOK, CallerOK, InitAudioEncoder, InitEncoder, javaVars, mainVars,
        audioVars, MainPcs, AudioPcs
  <2>3. SessionOK'
    BY <1>2 DEF TypeOK, SessionOK, InitAudioEncoder, InitEncoder, sessionVars,
        flagVars, Pointers, Sessions, Encoders, Tracks
  <2>4. ThreadOK'
    BY <1>2, InitEncoderThreadOK DEF InitAudioEncoder, Tracks
  <2> QED BY <2>1, <2>2, <2>3, <2>4 DEF TypeOK
<1>3. CASE FinishStart
  <2>1. SessionOK' /\ QueueOK' /\ ThreadOK' /\ ResultOK'
    BY <1>3 DEF TypeOK, SessionOK, QueueOK, ThreadOK, ResultOK, FinishStart,
        sessionVars, flagVars, queueVars, handlerVars, resultVars
  <2>2. CallerOK'
    BY <1>3 DEF TypeOK, CallerOK, FinishStart, javaVars, mainVars, audioVars,
        MainPcs, AudioPcs
  <2> QED BY <2>1, <2>2 DEF TypeOK
<1>4. CASE EndVideo
  <2>1. QueueOK' /\ ThreadOK' /\ ResultOK'
    BY <1>4 DEF TypeOK, QueueOK, ThreadOK, ResultOK, EndVideo, Ended, Nulled,
        queueVars, handlerVars, resultVars
  <2>2. CallerOK'
    BY <1>4 DEF TypeOK, CallerOK, EndVideo, Ended, Nulled, javaVars, mainVars,
        audioVars, MainPcs, AudioPcs
  <2>3. SessionOK'
    BY <1>4 DEF TypeOK, SessionOK, EndVideo, Ended, Nulled, sessionVars, flagVars,
        Pointers, Sessions, Encoders, Tracks
  <2> QED BY <2>1, <2>2, <2>3 DEF TypeOK
<1>5. CASE EndAudio
  <2>1. QueueOK' /\ ThreadOK' /\ ResultOK'
    BY <1>5 DEF TypeOK, QueueOK, ThreadOK, ResultOK, EndAudio, Ended, queueVars,
        handlerVars, resultVars
  <2>2. CallerOK'
    BY <1>5 DEF TypeOK, CallerOK, EndAudio, Ended, javaVars, mainVars, audioVars,
        MainPcs, AudioPcs
  <2>3. SessionOK'
    BY <1>5 DEF TypeOK, SessionOK, EndAudio, Ended, sessionVars, flagVars, Pointers,
        Sessions, Encoders, Tracks
  <2> QED BY <2>1, <2>2, <2>3 DEF TypeOK
<1>6. CASE NullAudio("null_audio", "idle")
  <2>1. QueueOK' /\ ThreadOK' /\ ResultOK'
    BY <1>6 DEF TypeOK, QueueOK, ThreadOK, ResultOK, NullAudio, Nulled, queueVars,
        handlerVars, resultVars
  <2>2. CallerOK'
    BY <1>6 DEF TypeOK, CallerOK, NullAudio, Nulled, javaVars, mainVars, audioVars,
        MainPcs, AudioPcs
  <2>3. SessionOK'
    BY <1>6 DEF TypeOK, SessionOK, NullAudio, Nulled, sessionVars, flagVars,
        Pointers, Sessions, Encoders, Tracks
  <2> QED BY <2>1, <2>2, <2>3 DEF TypeOK
<1>7. CASE NullAudio("release_audio", "release_video")
  <2>1. QueueOK' /\ ThreadOK' /\ ResultOK'
    BY <1>7 DEF TypeOK, QueueOK, ThreadOK, ResultOK, NullAudio, Nulled, queueVars,
        handlerVars, resultVars
  <2>2. CallerOK'
    BY <1>7 DEF TypeOK, CallerOK, NullAudio, Nulled, javaVars, mainVars, audioVars,
        MainPcs, AudioPcs
  <2>3. SessionOK'
    BY <1>7 DEF TypeOK, SessionOK, NullAudio, Nulled, sessionVars, flagVars,
        Pointers, Sessions, Encoders, Tracks
  <2> QED BY <2>1, <2>2, <2>3 DEF TypeOK
<1>8. CASE ReleaseVideo
  <2>1. QueueOK' /\ ThreadOK' /\ ResultOK'
    BY <1>8 DEF TypeOK, QueueOK, ThreadOK, ResultOK, ReleaseVideo, Released, Nulled,
        queueVars, handlerVars, resultVars
  <2>2. CallerOK'
    BY <1>8 DEF TypeOK, CallerOK, ReleaseVideo, Released, Nulled, javaVars,
        mainVars, audioVars, MainPcs, AudioPcs
  <2>3. SessionOK'
    BY <1>8 DEF TypeOK, SessionOK, ReleaseVideo, Released, Nulled, sessionVars,
        flagVars, Pointers, Sessions, Encoders, Tracks
  <2> QED BY <2>1, <2>2, <2>3 DEF TypeOK
<1>9. CASE ReleaseFlag
  <2>1. SessionOK' /\ QueueOK' /\ ThreadOK' /\ ResultOK'
    BY <1>9 DEF TypeOK, SessionOK, QueueOK, ThreadOK, ResultOK, ReleaseFlag,
        RecordingOff, sessionVars, flagVars, queueVars, handlerVars, resultVars
  <2>2. CallerOK'
    BY <1>9 DEF TypeOK, CallerOK, ReleaseFlag, RecordingOff, javaVars, mainVars,
        audioVars, MainPcs, AudioPcs
  <2> QED BY <2>1, <2>2 DEF TypeOK
<1>10. CASE InterruptAudio
  <2>1. SessionOK' /\ QueueOK' /\ ThreadOK' /\ ResultOK'
    BY <1>10 DEF TypeOK, SessionOK, QueueOK, ThreadOK, ResultOK, InterruptAudio,
        NextScreen, sessionVars, flagVars, queueVars, handlerVars, resultVars
  <2>2. CallerOK'
    BY <1>10, SizesAssumption DEF TypeOK, CallerOK, InterruptAudio, NextScreen,
        Recorders, MainPcs
  <2> QED BY <2>1, <2>2 DEF TypeOK
<1> QED BY <1>1, <1>2, <1>3, <1>4, <1>5, <1>6, <1>7, <1>8, <1>9, <1>10 DEF MainStep

\* A new session takes a number that is still free.
LEMMA StartRecordTypeOK ==
  ASSUME TypeOK, NEW r \in Recorders, StartRecord(r)
  PROVE  TypeOK'
<1>1. cur + 1 \in Sessions
  BY SizesAssumption DEF TypeOK, SessionOK, StartRecord, Sessions
<1>2. CallerOK'
  BY DEF TypeOK, CallerOK, StartRecord, javaVars, audioVars, MainPcs
<1>3. SessionOK'
  BY <1>1, SizesAssumption
     DEF TypeOK, SessionOK, StartRecord, flagVars, Pointers, Sessions
<1>4. QueueOK' /\ ResultOK'
  BY DEF TypeOK, QueueOK, ResultOK, StartRecord, queueVars, handlerVars, resultVars
<1>5. ThreadOK'
  BY DEF TypeOK, ThreadOK, StartRecord, EncoderPcs
<1> QED BY <1>2, <1>3, <1>4, <1>5 DEF TypeOK

\* A preview callback pushes a frame or stops the process.
LEMMA PreviewFrameTypeOK ==
  ASSUME TypeOK, NEW r \in Recorders, PreviewFrame(r)
  PROVE  TypeOK'
<1>1. CallerOK' /\ SessionOK' /\ ThreadOK'
  BY DEF TypeOK, CallerOK, SessionOK, ThreadOK, PreviewFrame, javaVars, mainVars,
         audioVars, sessionVars, flagVars
<1>2. ResultOK'
  BY DEF TypeOK, ResultOK, PreviewFrame, handlerVars, resultVars, Faults
<1>3. QueueOK'
  <2>1. CASE UNCHANGED queueVars
    BY <2>1 DEF TypeOK, QueueOK, queueVars
  <2>2. CASE ~ UNCHANGED queueVars
    <3> DEFINE e == <<encoder["video"], "video">>
               f == [by |-> r, n |-> Len(sent[e]) + 1]
    <3>1. e \in Encoders /\ Push(e, f)
      BY <2>2 DEF TypeOK, SessionOK, PreviewFrame, Pointers, Encoders, Tracks
    <3>2. Len(sent[e]) + 1 \in Nat
      BY <3>1 DEF TypeOK, QueueOK
    <3>3. f \in Frames
      BY <3>2 DEF Frames
    <3> QED BY <3>1, <3>3, PushOK DEF TypeOK
  <2> QED BY <2>1, <2>2
<1> QED BY <1>1, <1>2, <1>3 DEF TypeOK

\* The audio thread's send pushes a frame or stops the process.
LEMMA SendOneFrameTypeOK ==
  ASSUME TypeOK, NEW r \in Recorders, SendOneFrame(r)
  PROVE  TypeOK'
<1>1. SessionOK' /\ ThreadOK'
  BY DEF TypeOK, SessionOK, ThreadOK, SendOneFrame, sessionVars, flagVars
<1>2. CallerOK'
  BY DEF TypeOK, CallerOK, SendOneFrame, javaVars, mainVars, AudioPcs, Pointers
<1>3. ResultOK'
  BY DEF TypeOK, ResultOK, SendOneFrame, handlerVars, resultVars, Faults
<1>4. QueueOK'
  <2>1. CASE UNCHANGED queueVars
    BY <2>1 DEF TypeOK, QueueOK, queueVars
  <2>2. CASE ~ UNCHANGED queueVars
    <3> DEFINE e == <<audioEncoder[r], "audio">>
               n == IF pc[e] \in {"new", "failed"} THEN ZeroSize ELSE Len(sent[e]) +
                   1
               f == [by |-> r, n |-> n]
    <3>1. Push(e, f)
      BY <2>2 DEF SendOneFrame
    <3>2. CASE e \in Encoders
      <4>1. n \in Nat
        BY <3>2 DEF TypeOK, QueueOK, ZeroSize
      <4>2. f \in Frames
        BY <4>1 DEF Frames
      <4> QED BY <3>1, <3>2, <4>2, PushOK DEF TypeOK
    <3>3. CASE e \notin Encoders
      BY <3>1, <3>3 DEF TypeOK, QueueOK, Push
    <3> QED BY <3>2, <3>3
  <2> QED BY <2>1, <2>2
<1> QED BY <1>1, <1>2, <1>3, <1>4 DEF TypeOK

\* What the user and the camera start keeps the variables in range.
LEMMA TypeOKUser == TypeOK /\ UserStep => TypeOK'
<1> SUFFICES ASSUME TypeOK, UserStep PROVE TypeOK'
  OBVIOUS
<1>1. CASE ReopenScreen
  <2>1. SessionOK' /\ QueueOK' /\ ThreadOK' /\ ResultOK'
    BY <1>1, SizesAssumption DEF TypeOK, SessionOK, QueueOK, ThreadOK, ResultOK,
        ReopenScreen, NextScreen, sessionVars, flagVars, queueVars, handlerVars,
        resultVars
  <2>2. CallerOK'
    BY <1>1, SizesAssumption DEF TypeOK, CallerOK, ReopenScreen, NextScreen,
        javaVars, mainVars, audioVars, MainPcs, AudioPcs
  <2> QED BY <2>1, <2>2 DEF TypeOK
<1>2. ASSUME NEW r \in Recorders, StartRecord(r) PROVE TypeOK'
  BY <1>2, StartRecordTypeOK
<1>3. ASSUME NEW r \in Recorders, PreviewFrame(r) PROVE TypeOK'
  BY <1>3, PreviewFrameTypeOK
<1>4. ASSUME NEW r \in Recorders, StopRecord(r) PROVE TypeOK'
  <2>1. SessionOK' /\ QueueOK' /\ ThreadOK' /\ ResultOK'
    BY <1>4 DEF TypeOK, SessionOK, QueueOK, ThreadOK, ResultOK, StopRecord,
        RecordingOff, sessionVars, flagVars, queueVars, handlerVars, resultVars
  <2>2. CallerOK'
    BY <1>4 DEF TypeOK, CallerOK, StopRecord, RecordingOff, javaVars, mainVars,
        audioVars, MainPcs, AudioPcs
  <2> QED BY <2>1, <2>2 DEF TypeOK
<1>5. ASSUME NEW r \in Recorders, Release(r) PROVE TypeOK'
  <2>1. QueueOK' /\ ThreadOK' /\ ResultOK'
    BY <1>5 DEF TypeOK, QueueOK, ThreadOK, ResultOK, Release, Released, queueVars,
        handlerVars, resultVars
  <2>2. CallerOK'
    BY <1>5 DEF TypeOK, CallerOK, Release, Released, javaVars, mainVars, audioVars,
        MainPcs, AudioPcs
  <2>3. SessionOK'
    BY <1>5 DEF TypeOK, SessionOK, Release, Released, sessionVars, flagVars,
        Pointers, Sessions, Encoders, Tracks
  <2> QED BY <2>1, <2>2, <2>3 DEF TypeOK
<1> QED BY <1>1, <1>2, <1>3, <1>4, <1>5 DEF UserStep

\* The audio threads keep the variables in range.
LEMMA TypeOKAudio ==
  ASSUME TypeOK, NEW r \in Recorders, CaptureAudio(r) \/ AudioStep(r)
  PROVE  TypeOK'
<1>1. CASE CaptureAudio(r)
  <2>1. SessionOK' /\ QueueOK' /\ ThreadOK' /\ ResultOK'
    BY <1>1 DEF TypeOK, SessionOK, QueueOK, ThreadOK, ResultOK, CaptureAudio,
        sessionVars, flagVars, queueVars, handlerVars, resultVars
  <2>2. CallerOK'
    BY <1>1 DEF TypeOK, CallerOK, CaptureAudio, javaVars, mainVars, audioVars,
        MainPcs, AudioPcs
  <2> QED BY <2>1, <2>2 DEF TypeOK
<1>2. CASE LoadEncoder(r)
  <2>1. SessionOK' /\ QueueOK' /\ ThreadOK'
    BY <1>2 DEF TypeOK, SessionOK, QueueOK, ThreadOK, LoadEncoder, sessionVars,
        flagVars, queueVars
  <2>2. CallerOK'
    BY <1>2 DEF TypeOK, CallerOK, SessionOK, LoadEncoder, javaVars, mainVars,
        AudioPcs, Tracks
  <2>3. ResultOK'
    BY <1>2 DEF TypeOK, ResultOK, LoadEncoder, handlerVars, resultVars, Faults,
        Pointers, Sessions, Encoders
  <2> QED BY <2>1, <2>2, <2>3 DEF TypeOK
<1>3. CASE SendOneFrame(r)
  BY <1>3, SendOneFrameTypeOK
<1>4. CASE EndAudioThread(r)
  <2>1. SessionOK' /\ QueueOK' /\ ThreadOK' /\ ResultOK'
    BY <1>4 DEF TypeOK, SessionOK, QueueOK, ThreadOK, ResultOK, EndAudioThread,
        sessionVars, flagVars, queueVars, handlerVars, resultVars
  <2>2. CallerOK'
    BY <1>4 DEF TypeOK, CallerOK, EndAudioThread, javaVars, mainVars, audioVars,
        MainPcs, AudioPcs
  <2> QED BY <2>1, <2>2 DEF TypeOK
<1> QED BY <1>1, <1>2, <1>3, <1>4 DEF AudioStep

\* Taking the head of a queue keeps queues and histories in range.
LEMMA TakeFrameQueueOK ==
  ASSUME QueueOK, NEW e \in Encoders, TakeFrame(e)
  PROVE  QueueOK'
<1>1. CASE UNCHANGED queueVars
  BY <1>1 DEF QueueOK, queueVars
<1>2. CASE ~ UNCHANGED queueVars
  <2>1. FALSE \in EmptyAnswers(e)
    BY <1>2 DEF TakeFrame, EmptyAnswers
  <2>2. frame_queue[e] # <<>>
    BY <2>1 DEF EmptyAnswers
  <2>3. Head(frame_queue[e]) \in Frames /\ Tail(frame_queue[e]) \in Seq(Frames)
    BY <2>2 DEF QueueOK
  <2>4. Append(encoded[e], Head(frame_queue[e])) \in Seq(Frames)
    BY <2>3 DEF QueueOK
  <2>5. /\ frame_queue' = [frame_queue EXCEPT ![e] = Tail(@)]
        /\ unseen' = [unseen EXCEPT ![e] = 0]
        /\ encoded' = [encoded EXCEPT ![e] = Append(@, Head(frame_queue[e]))]
        /\ UNCHANGED sent
    BY <1>2 DEF TakeFrame
  <2> QED BY <2>3, <2>4, <2>5 DEF QueueOK
<1> QED BY <1>1, <1>2


\* The encoder threads keep the variables in range.
LEMMA TypeOKEncoder ==
  ASSUME TypeOK, NEW e \in Encoders, EncoderStep(e)
  PROVE  TypeOK'
<1>1. CASE TestEnd(e)
  <2>1. CallerOK' /\ SessionOK' /\ QueueOK' /\ ResultOK'
    BY <1>1 DEF TypeOK, CallerOK, SessionOK, QueueOK, ResultOK, TestEnd, GoTo,
        AfterTestEnd, javaVars, mainVars, audioVars, sessionVars, flagVars,
        queueVars, handlerVars, resultVars
  <2>2. ThreadOK'
    BY <1>1 DEF TypeOK, ThreadOK, TestEnd, GoTo, AfterTestEnd, EncoderPcs,
        FileStates
  <2> QED BY <2>1, <2>2 DEF TypeOK
<1>2. CASE TestDrained(e)
  <2>1. CallerOK' /\ SessionOK' /\ QueueOK' /\ ResultOK'
    BY <1>2 DEF TypeOK, CallerOK, SessionOK, QueueOK, ResultOK, TestDrained, GoTo,
        javaVars, mainVars, audioVars, sessionVars, flagVars, queueVars,
        handlerVars, resultVars
  <2>2. ThreadOK'
    BY <1>2 DEF TypeOK, ThreadOK, TestDrained, GoTo, EncoderPcs, FileStates
  <2> QED BY <2>1, <2>2 DEF TypeOK
<1>3. CASE TestRelease(e)
  <2>1. CallerOK' /\ SessionOK' /\ QueueOK' /\ ResultOK'
    BY <1>3 DEF TypeOK, CallerOK, SessionOK, QueueOK, ResultOK, TestRelease, GoTo,
        AfterTestRelease, javaVars, mainVars, audioVars, sessionVars, flagVars,
        queueVars, handlerVars, resultVars
  <2>2. ThreadOK'
    BY <1>3 DEF TypeOK, ThreadOK, TestRelease, GoTo, AfterTestRelease, EncoderPcs,
        FileStates
  <2> QED BY <2>1, <2>2 DEF TypeOK
<1>4. CASE TakeFrame(e)
  <2>1. CallerOK' /\ SessionOK' /\ ResultOK'
    BY <1>4 DEF TypeOK, CallerOK, SessionOK, ResultOK, TakeFrame, GoTo, javaVars,
        mainVars, audioVars, sessionVars, flagVars, handlerVars, resultVars
  <2>2. QueueOK'
    BY <1>4, TakeFrameQueueOK DEF TypeOK
  <2>3. ThreadOK'
    BY <1>4 DEF TypeOK, ThreadOK, TakeFrame, GoTo, EncoderPcs, FileStates
  <2> QED BY <2>1, <2>2, <2>3 DEF TypeOK
<1>5. CASE FlushAndClose(e)
  <2>1. CallerOK' /\ SessionOK' /\ QueueOK' /\ ResultOK'
    BY <1>5 DEF TypeOK, CallerOK, SessionOK, QueueOK, ResultOK, FlushAndClose, GoTo,
        javaVars, mainVars, audioVars, sessionVars, flagVars, queueVars,
        handlerVars, resultVars
  <2>2. ThreadOK'
    BY <1>5 DEF TypeOK, ThreadOK, FlushAndClose, GoTo, EncoderPcs, FileStates
  <2> QED BY <2>1, <2>2 DEF TypeOK
<1>6. CASE SetState(e)
  <2>1. CallerOK' /\ SessionOK' /\ QueueOK'
    BY <1>6 DEF TypeOK, CallerOK, SessionOK, QueueOK, SetState, GoTo, javaVars,
        mainVars, audioVars, sessionVars, flagVars, queueVars
  <2>2. ThreadOK'
    BY <1>6 DEF TypeOK, ThreadOK, SetState, GoTo, EncoderPcs, FileStates
  <2>3. ResultOK'
    BY <1>6 DEF TypeOK, ResultOK, SetState, GoTo, handlerVars, resultVars, Faults,
        Pointers, Sessions, Encoders
  <2> QED BY <2>1, <2>2, <2>3 DEF TypeOK
<1>7. CASE TryEncodeOver(e)
  <2>1. CallerOK' /\ SessionOK' /\ QueueOK'
    BY <1>7 DEF TypeOK, CallerOK, SessionOK, QueueOK, TryEncodeOver, javaVars,
        mainVars, audioVars, sessionVars, flagVars, queueVars
  <2>2. ThreadOK'
    BY <1>7 DEF TypeOK, ThreadOK, TryEncodeOver, EncoderPcs, FileStates
  <2>3. ResultOK'
    BY <1>7 DEF TypeOK, ResultOK, TryEncodeOver, handlerVars, resultVars, Faults,
        Pointers, Sessions, Encoders
  <2> QED BY <2>1, <2>2, <2>3 DEF TypeOK
<1>8. CASE Mux(e)
  <2>1. CallerOK' /\ SessionOK' /\ QueueOK'
    BY <1>8 DEF TypeOK, CallerOK, SessionOK, QueueOK, Mux, GoTo, javaVars, mainVars,
        audioVars, sessionVars, flagVars, queueVars
  <2>2. ThreadOK'
    BY <1>8 DEF TypeOK, ThreadOK, Mux, GoTo, EncoderPcs, FileStates
  <2>3. ResultOK'
    BY <1>8 DEF TypeOK, ResultOK, Mux, GoTo, handlerVars, resultVars, Faults,
        Pointers, Sessions, Encoders
  <2> QED BY <2>1, <2>2, <2>3 DEF TypeOK
<1>9. CASE Notify(e)
  <2>1. CallerOK' /\ SessionOK' /\ QueueOK'
    BY <1>9 DEF TypeOK, CallerOK, SessionOK, QueueOK, Notify, javaVars, mainVars,
        audioVars, sessionVars, flagVars, queueVars
  <2>2. ThreadOK'
    BY <1>9 DEF TypeOK, ThreadOK, Notify, EncoderPcs, FileStates
  <2>3. ResultOK'
    BY <1>9 DEF TypeOK, ResultOK, Notify, handlerVars, resultVars, Faults, Pointers,
        Sessions, Encoders
  <2> QED BY <2>1, <2>2, <2>3 DEF TypeOK
<1>10. CASE FreeHandler(e)
  <2>1. CallerOK' /\ SessionOK' /\ QueueOK'
    BY <1>10 DEF TypeOK, CallerOK, SessionOK, QueueOK, FreeHandler, javaVars,
        mainVars, audioVars, sessionVars, flagVars, queueVars
  <2>2. ThreadOK'
    BY <1>10 DEF TypeOK, ThreadOK, FreeHandler, EncoderPcs, FileStates
  <2>3. ResultOK'
    BY <1>10 DEF TypeOK, ResultOK, FreeHandler, handlerVars, resultVars, Faults,
        Pointers, Sessions, Encoders
  <2> QED BY <2>1, <2>2, <2>3 DEF TypeOK
<1>11. CASE DeleteEncoder(e)
  <2>1. CallerOK' /\ SessionOK' /\ QueueOK' /\ ResultOK'
    BY <1>11 DEF TypeOK, CallerOK, SessionOK, QueueOK, ResultOK, DeleteEncoder,
        GoTo, javaVars, mainVars, audioVars, sessionVars, flagVars, queueVars,
        handlerVars, resultVars
  <2>2. ThreadOK'
    BY <1>11 DEF TypeOK, ThreadOK, DeleteEncoder, GoTo, EncoderPcs, FileStates
  <2> QED BY <2>1, <2>2 DEF TypeOK
<1> QED BY <1>1, <1>2, <1>3, <1>4, <1>5, <1>6, <1>7, <1>8, <1>9, <1>10, <1>11 DEF
    EncoderStep

\* TypeOK is an invariant: no step takes a variable out of its range.
THEOREM TypeCorrect == Spec => []TypeOK
<1>1. TypeOK /\ UNCHANGED vars => TypeOK'
  BY DEF TypeOK, CallerOK, SessionOK, QueueOK, ThreadOK, ResultOK, vars, javaVars,
         mainVars, audioVars, sessionVars, flagVars, queueVars, handlerVars,
             resultVars
<1>2. TypeOK /\ Next => TypeOK'
  BY TypeOKMain, TypeOKUser, TypeOKAudio, TypeOKEncoder DEF Next
<1> QED BY InitTypeOK, <1>1, <1>2, PTL DEF Spec

-----------------------------------------------------------------------------
(* The inductive invariant behind the safety properties.  It says which    *)
(* session the global pointers can name and what the flags of the encoder  *)
(* behind a pointer are, how far a thread can be given its flags, and that *)
(* what was pushed is what was taken followed by what still waits.         *)

PointersLatest == \A t \in Tracks : encoder[t] \in {Null, cur}

PointedFlags ==
  \A t \in Tracks : encoder[t] # Null =>
    /\ is_end[<<encoder[t], t>>] => t = "audio" /\ mainPc = "null_audio"
    /\ is_release[<<encoder[t], t>>] => t = "audio" /\ mainPc = "release_audio"

InitPcs ==
  /\ mainPc \in {"init_video", "init_audio"} => pc[<<cur, "audio">>] = "new"
  /\ mainPc = "init_video" => pc[<<cur, "video">>] = "new"
  /\ mainPc \in {"init_video", "init_audio"} => cur \in Sessions

Unborn ==
  \A s \in Sessions, t \in Tracks : s > cur =>
    pc[<<s, t>>] = "none" /\ ~is_end[<<s, t>>] /\ ~is_release[<<s, t>>]

EndedPcs == {"drain", "end", "set_state", "check", "mux", "notify", "free", "delete"}
Told ==
  \A e \in Encoders :
    /\ pc[e] \in EndedPcs => is_end[e]
    /\ pc[e] = "exit" => is_end[e] \/ is_release[e]

PointerInv ==
  PointersLatest /\ PointedFlags /\ InitPcs /\ Unborn /\ Told /\ OneCleanup

FramesKept == \A e \in Encoders : sent[e] = encoded[e] \o frame_queue[e]

Drained ==
  \A s \in Sessions :
    is_end[<<s, "video">>] /\ pc[<<s, "video">>] \in AfterLoop =>
      frame_queue[<<s, "video">>] = <<>>

Closed ==
  \A e \in Encoders :
    /\ pc[e] = "set_state" => file[e] = "complete"
    /\ state[e] => pc[e] \in {"check"} \cup AfterCheck /\ is_end[e] /\ file[e] = "complete"
    /\ pc[e] = "mux" => BothEnded(e[1])

\* Before the first recording the globals are null and no flag is set.
LEMMA InitPointerInv == Init => PointerInv
<1> SUFFICES ASSUME Init PROVE PointerInv
  OBVIOUS
<1> USE DEF Init, Encoders
<1>1. PointersLatest /\ PointedFlags /\ InitPcs
  BY DEF PointersLatest, PointedFlags, InitPcs
<1>2. Unborn /\ Told /\ OneCleanup
  BY DEF Unborn, Told, OneCleanup, EndedPcs
<1> QED BY <1>1, <1>2 DEF PointerInv

\* What a step of an encoder thread may do to its program counter: it enters
\* the end only when told to, and no thread runs before its encoder exists.
LEMMA EncoderMoves ==
  ASSUME TypeOK, PointerInv, NEW e \in Encoders, EncoderStep(e)
  PROVE  \/ pc' = pc
         \/ /\ pc[e] \notin {"none", "new", "failed", "exit"}
            /\ pc' = [pc EXCEPT ![e] = pc'[e]]
            /\ pc'[e] \notin {"none", "new", "failed"}
            /\ pc'[e] \in EndedPcs => is_end[e]
            /\ pc'[e] = "exit" => is_end[e] \/ is_release[e]
<1> USE DEF TypeOK, ThreadOK, PointerInv, Told, EndedPcs
<1>1. CASE TestEnd(e)
  BY <1>1 DEF TestEnd, GoTo, AfterTestEnd
<1>2. CASE TestDrained(e)
  BY <1>2 DEF TestDrained, GoTo
<1>3. CASE TestRelease(e)
  BY <1>3 DEF TestRelease, GoTo, AfterTestRelease
<1>4. CASE TakeFrame(e)
  BY <1>4 DEF TakeFrame, GoTo
<1>5. CASE FlushAndClose(e)
  BY <1>5 DEF FlushAndClose, GoTo
<1>6. CASE SetState(e)
  BY <1>6 DEF SetState, GoTo
<1>7. CASE TryEncodeOver(e)
  BY <1>7 DEF TryEncodeOver
<1>8. CASE Mux(e)
  BY <1>8 DEF Mux, GoTo
<1>9. CASE Notify(e)
  BY <1>9 DEF Notify
<1>10. CASE FreeHandler(e)
  BY <1>10 DEF FreeHandler
<1>11. CASE DeleteEncoder(e)
  BY <1>11 DEF DeleteEncoder, GoTo
<1> QED BY <1>1, <1>2, <1>3, <1>4, <1>5, <1>6, <1>7, <1>8, <1>9, <1>10, <1>11
        DEF EncoderStep

\* An encoder thread touches neither the globals nor the flags that end it.
LEMMA EncoderLeaves ==
  ASSUME NEW e \in Encoders, EncoderStep(e)
  PROVE  UNCHANGED <<mainPc, cur, rec, encoder, is_end, is_release, owner>>
  BY DEF EncoderStep, TestEnd, TestDrained, TestRelease, TakeFrame, FlushAndClose,
         SetState, TryEncodeOver, Mux, Notify, FreeHandler, DeleteEncoder, mainVars,
         sessionVars, flagVars

\* Encoder threads keep the pointer invariant.
LEMMA PointerInvEncoder ==
  ASSUME TypeOK, PointerInv, NEW e \in Encoders, EncoderStep(e)
  PROVE  PointerInv'
<1>1. UNCHANGED <<mainPc, cur, encoder, is_end, is_release>>
  BY EncoderLeaves
<1>2. PointersLatest' /\ PointedFlags' /\ OneCleanup'
  BY <1>1 DEF PointerInv, PointersLatest, PointedFlags, OneCleanup
<1>3. CASE pc' = pc
  BY <1>1, <1>2, <1>3 DEF PointerInv, InitPcs, Unborn, Told
<1>4. CASE pc' # pc
  <2>1. /\ pc[e] \notin {"none", "new", "failed", "exit"}
        /\ pc' = [pc EXCEPT ![e] = pc'[e]]
        /\ pc'[e] \in EndedPcs => is_end[e]
        /\ pc'[e] = "exit" => is_end[e] \/ is_release[e]
    BY <1>4, EncoderMoves
  <2>2. \A f \in Encoders : f # e => pc'[f] = pc[f]
    BY <2>1 DEF TypeOK, ThreadOK
  <2>3. \A s \in Sessions, t \in Tracks : <<s, t>> \in Encoders
    BY DEF Encoders
  <2>4. InitPcs'
    BY <1>1, <2>1, <2>2, <2>3 DEF PointerInv, InitPcs, Tracks
  <2>5. Unborn'
    BY <1>1, <2>1, <2>2, <2>3 DEF PointerInv, Unborn
  <2>6. Told'
    BY <1>1, <2>1, <2>2 DEF PointerInv, Told
  <2> QED BY <1>2, <2>4, <2>5, <2>6 DEF PointerInv
<1> QED BY <1>3, <1>4

\* Most steps of the callers leave pointers, flags and threads alone.
LEMMA PointerInvAlone ==
  ASSUME PointerInv, UNCHANGED <<cur, encoder, is_end, is_release, pc>>,
         \/ mainPc' = mainPc
         \/ /\ mainPc \notin {"null_audio", "release_audio"}
            /\ mainPc' \notin {"init_video", "init_audio"}
  PROVE  PointerInv'
  BY DEF PointerInv, PointersLatest, PointedFlags, InitPcs, Unborn, Told, OneCleanup

\* Ending or releasing an encoder sets a flag of the one its global points at,
\* which no other call has told anything, and only the audio's global keeps
\* pointing there.
LEMMA PointerInvTell ==
  ASSUME TypeOK, PointerInv, NEW t \in Tracks, encoder[t] # Null,
         mainPc \notin {"null_audio", "release_audio"},
         mainPc' \notin {"init_video", "init_audio"},
         UNCHANGED <<cur, pc>>,
         \/ t = "video" /\ encoder' = Nulled(t)
         \/ t = "audio" /\ encoder' = encoder,
         \/ /\ is_end' = Ended(t) /\ is_release' = is_release
            /\ t = "audio" => mainPc' = "null_audio"
         \/ /\ is_release' = Released(t) /\ is_end' = is_end
            /\ t = "audio" => mainPc' = "release_audio"
  PROVE  PointerInv'
<1> DEFINE told == <<encoder[t], t>>
<1>1. told \in Encoders /\ encoder[t] = cur /\ cur \in Sessions
  BY DEF TypeOK, SessionOK, PointerInv, PointersLatest, Pointers, Encoders
<1>2. ~is_end[told] /\ ~is_release[told]
  BY DEF PointerInv, PointedFlags
<1>3. /\ \A e \in Encoders : e # told => is_end'[e] = is_end[e] /\ is_release'[e] = is_release[e]
      /\ is_end[told] => is_end'[told]
      /\ is_release[told] => is_release'[told]
      /\ ~(is_end'[told] /\ is_release'[told])
  BY <1>1, <1>2 DEF TypeOK, SessionOK, Ended, Released
<1>4. PointersLatest'
  BY DEF PointerInv, PointersLatest, Nulled, TypeOK, SessionOK
<1>5. PointedFlags'
  <2> SUFFICES ASSUME NEW u \in Tracks, encoder'[u] # Null
               PROVE  /\ is_end'[<<encoder'[u], u>>] => u = "audio" /\ mainPc' = "null_audio"
                      /\ is_release'[<<encoder'[u], u>>] => u = "audio" /\ mainPc' = "release_audio"
    BY DEF PointedFlags
  <2>1. encoder'[u] = encoder[u] /\ <<encoder[u], u>> \in Encoders
    BY DEF TypeOK, SessionOK, Nulled, Pointers, Encoders
  <2>2. CASE u = t
    BY <1>1, <1>2, <2>1, <2>2 DEF TypeOK, SessionOK, Ended, Released, Nulled
  <2>3. CASE u # t
    <3>1. <<encoder[u], u>> # told
      BY <2>3
    <3>2. ~is_end[<<encoder[u], u>>] /\ ~is_release[<<encoder[u], u>>]
      BY <2>1 DEF PointerInv, PointedFlags
    <3> QED BY <1>3, <2>1, <3>1, <3>2
  <2> QED BY <2>2, <2>3
<1>6. InitPcs'
  BY DEF PointerInv, InitPcs
<1>7. Unborn'
  <2> SUFFICES ASSUME NEW s \in Sessions, NEW u \in Tracks, s > cur
               PROVE  pc[<<s, u>>] = "none" /\ ~is_end'[<<s, u>>] /\ ~is_release'[<<s, u>>]
    BY DEF Unborn
  <2>1. <<s, u>> # told /\ <<s, u>> \in Encoders
    BY <1>1 DEF Encoders, Sessions
  <2> QED BY <1>3, <2>1 DEF PointerInv, Unborn
<1>8. Told'
  <2> SUFFICES ASSUME NEW e \in Encoders
               PROVE  /\ pc[e] \in EndedPcs => is_end'[e]
                      /\ pc[e] = "exit" => is_end'[e] \/ is_release'[e]
    BY DEF Told
  <2>1. (is_end[e] => is_end'[e]) /\ (is_release[e] => is_release'[e])
    BY <1>3
  <2> QED BY <2>1 DEF PointerInv, Told
<1>9. OneCleanup'
  BY <1>3 DEF PointerInv, OneCleanup
<1> QED BY <1>4, <1>5, <1>6, <1>7, <1>8, <1>9 DEF PointerInv

\* Assigning NULL ends the window in which a global names an encoder already told.
LEMMA PointerInvNull ==
  ASSUME TypeOK, PointerInv, NEW from, NEW to,
         to \in {"idle", "release_video"}, NullAudio(from, to),
         from \in {"null_audio", "release_audio"}
  PROVE  PointerInv'
<1> USE DEF NullAudio, Nulled, sessionVars, flagVars
<1>1. PointersLatest' /\ PointedFlags'
  BY DEF TypeOK, SessionOK, PointerInv, PointersLatest, PointedFlags, Tracks
<1>2. InitPcs' /\ Unborn' /\ Told' /\ OneCleanup'
  BY DEF PointerInv, InitPcs, Unborn, Told, OneCleanup
<1> QED BY <1>1, <1>2 DEF PointerInv

\* An encoder's initialisation moves it out of "new" and leaves is_end clear.
LEMMA PointerInvInit ==
  ASSUME TypeOK, PointerInv, NEW t \in Tracks, NEW done, InitEncoder(t, done),
         \/ t = "video" /\ mainPc = "init_video" /\ done = "init_audio"
         \/ t = "audio" /\ mainPc = "init_audio" /\ done = "started"
  PROVE  PointerInv'
<1> DEFINE e == <<cur, t>>
<1>1. e \in Encoders /\ cur \in Sessions /\ pc[e] = "new"
  BY DEF PointerInv, InitPcs, Encoders
<1>2. /\ UNCHANGED <<cur, encoder, is_release>>
      /\ mainPc' = done
      /\ \/ is_end' = is_end
         \/ is_end' = [is_end EXCEPT ![e] = FALSE]
      /\ \/ pc' = [pc EXCEPT ![e] = "loop"] /\ is_end' = [is_end EXCEPT ![e] = FALSE]
         \/ pc' = [pc EXCEPT ![e] = "failed"]
  BY DEF InitEncoder, sessionVars
<1>3. \A f \in Encoders : f # e => pc'[f] = pc[f] /\ is_end'[f] = is_end[f]
  BY <1>2 DEF TypeOK, SessionOK, ThreadOK
<1>4. is_end'[e] => is_end[e]
  BY <1>1, <1>2 DEF TypeOK, SessionOK
<1>5. pc'[e] \in {"loop", "failed"}
  BY <1>1, <1>2 DEF TypeOK, ThreadOK
<1>6. PointersLatest'
  BY <1>2 DEF PointerInv, PointersLatest
<1>7. PointedFlags'
  <2> SUFFICES ASSUME NEW u \in Tracks, encoder[u] # Null
               PROVE  ~is_end'[<<encoder[u], u>>] /\ ~is_release[<<encoder[u], u>>]
    BY <1>2 DEF PointedFlags
  <2>1. <<encoder[u], u>> \in Encoders
    BY DEF TypeOK, SessionOK, Pointers, Encoders
  <2>2. ~is_end[<<encoder[u], u>>] /\ ~is_release[<<encoder[u], u>>]
    BY DEF PointerInv, PointedFlags
  <2> QED BY <1>3, <1>4, <2>1, <2>2
<1>8. InitPcs'
  BY <1>1, <1>2, <1>3 DEF PointerInv, InitPcs, Encoders, Tracks
<1>9. Unborn'
  <2> SUFFICES ASSUME NEW s \in Sessions, NEW u \in Tracks, s > cur
               PROVE  pc'[<<s, u>>] = "none" /\ ~is_end'[<<s, u>>] /\ ~is_release[<<s, u>>]
    BY <1>2 DEF Unborn
  <2>1. <<s, u>> # e /\ <<s, u>> \in Encoders
    BY <1>1 DEF Encoders, Sessions
  <2> QED BY <1>3, <2>1 DEF PointerInv, Unborn
<1>10. Told'
  <2> SUFFICES ASSUME NEW f \in Encoders
               PROVE  /\ pc'[f] \in EndedPcs => is_end'[f]
                      /\ pc'[f] = "exit" => is_end'[f] \/ is_release[f]
    BY <1>2 DEF Told
  <2>1. CASE f = e
    BY <1>5, <2>1 DEF EndedPcs
  <2>2. CASE f # e
    BY <1>3, <2>2 DEF PointerInv, Told
  <2> QED BY <2>1, <2>2
<1>11. OneCleanup'
  BY <1>2, <1>3, <1>4 DEF PointerInv, OneCleanup
<1> QED BY <1>6, <1>7, <1>8, <1>9, <1>10, <1>11 DEF PointerInv

\* recordEnd, nativeRelease and the end of startRecord keep the pointer invariant.
LEMMA PointerInvMain == TypeOK /\ PointerInv /\ MainStep => PointerInv'
<1> SUFFICES ASSUME TypeOK, PointerInv, MainStep PROVE PointerInv'
  OBVIOUS
<1>1. CASE InitVideoEncoder
  BY <1>1, PointerInvInit DEF InitVideoEncoder, Tracks
<1>2. CASE InitAudioEncoder
  BY <1>2, PointerInvInit DEF InitAudioEncoder, Tracks
<1>3. CASE FinishStart
  BY <1>3, PointerInvAlone DEF FinishStart, sessionVars, flagVars
<1>4. CASE EndVideo
  <2>1. CASE encoder["video"] = Null
    BY <1>4, <2>1, PointerInvAlone DEF EndVideo, sessionVars
  <2>2. CASE encoder["video"] # Null
    BY <1>4, <2>2, PointerInvTell DEF EndVideo, Tracks, sessionVars
  <2> QED BY <2>1, <2>2
<1>5. CASE EndAudio
  <2>1. CASE encoder["audio"] = Null
    BY <1>5, <2>1, PointerInvAlone DEF EndAudio, sessionVars
  <2>2. CASE encoder["audio"] # Null
    BY <1>5, <2>2, PointerInvTell DEF EndAudio, Tracks, sessionVars
  <2> QED BY <2>1, <2>2
<1>6. CASE NullAudio("null_audio", "idle")
  BY <1>6, PointerInvNull
<1>7. CASE NullAudio("release_audio", "release_video")
  BY <1>7, PointerInvNull
<1>8. CASE ReleaseVideo
  <2>1. CASE encoder["video"] = Null
    BY <1>8, <2>1, PointerInvAlone DEF ReleaseVideo, sessionVars
  <2>2. CASE encoder["video"] # Null
    BY <1>8, <2>2, PointerInvTell DEF ReleaseVideo, Tracks, sessionVars
  <2> QED BY <2>1, <2>2
<1>9. CASE ReleaseFlag
  BY <1>9, PointerInvAlone DEF ReleaseFlag, sessionVars, flagVars
<1>10. CASE InterruptAudio
  BY <1>10, PointerInvAlone DEF InterruptAudio, sessionVars, flagVars
<1> QED BY <1>1, <1>2, <1>3, <1>4, <1>5, <1>6, <1>7, <1>8, <1>9, <1>10 DEF MainStep

\* A new session: its encoders are untold, and both globals name it.
LEMMA PointerInvStart ==
  ASSUME TypeOK, PointerInv, NEW r \in Recorders, StartRecord(r)
  PROVE  PointerInv'
<1>1. /\ cur' = cur + 1 /\ cur + 1 \in Sessions
      /\ encoder' = [t \in Tracks |-> cur + 1]
      /\ pc' = [e \in Encoders |-> IF e[1] = cur + 1 THEN "new" ELSE pc[e]]
      /\ mainPc' = "init_video"
      /\ UNCHANGED <<is_end, is_release>>
  BY SizesAssumption DEF TypeOK, SessionOK, StartRecord, flagVars, Sessions
<1>2. \A t \in Tracks : <<cur + 1, t>> \in Encoders
  BY <1>1 DEF Encoders
<1>3. \A t \in Tracks : ~is_end[<<cur + 1, t>>] /\ ~is_release[<<cur + 1, t>>]
  <2>1. cur + 1 > cur
    BY SizesAssumption DEF TypeOK, SessionOK
  <2> QED BY <1>1, <2>1 DEF PointerInv, Unborn
<1>4. PointersLatest' /\ PointedFlags'
  BY <1>1, <1>3 DEF PointersLatest, PointedFlags
<1>5. InitPcs'
  BY <1>1, <1>2 DEF InitPcs, Tracks
<1>6. Unborn'
  <2> SUFFICES ASSUME NEW s \in Sessions, NEW t \in Tracks, s > cur + 1
               PROVE  pc'[<<s, t>>] = "none" /\ ~is_end[<<s, t>>] /\ ~is_release[<<s, t>>]
    BY <1>1 DEF Unborn
  <2>1. s > cur /\ s # cur + 1 /\ <<s, t>> \in Encoders
    BY SizesAssumption DEF TypeOK, SessionOK, Encoders, Sessions
  <2> QED BY <1>1, <2>1 DEF PointerInv, Unborn
<1>7. Told' /\ OneCleanup'
  BY <1>1 DEF PointerInv, Told, OneCleanup, EndedPcs
<1> QED BY <1>4, <1>5, <1>6, <1>7 DEF PointerInv

\* A new recording takes both globals for itself; the other calls leave them.
LEMMA PointerInvUser == TypeOK /\ PointerInv /\ UserStep => PointerInv'
<1> SUFFICES ASSUME TypeOK, PointerInv, UserStep PROVE PointerInv'
  OBVIOUS
<1>1. CASE ReopenScreen
  BY <1>1, PointerInvAlone DEF ReopenScreen, mainVars, sessionVars, flagVars
<1>2. ASSUME NEW r \in Recorders, StartRecord(r) PROVE PointerInv'
  BY <1>2, PointerInvStart
<1>3. ASSUME NEW r \in Recorders, PreviewFrame(r) PROVE PointerInv'
  BY <1>3, PointerInvAlone DEF PreviewFrame, mainVars, sessionVars, flagVars
<1>4. ASSUME NEW r \in Recorders, StopRecord(r) PROVE PointerInv'
  BY <1>4, PointerInvAlone DEF StopRecord, sessionVars, flagVars
<1>5. ASSUME NEW r \in Recorders, Release(r) PROVE PointerInv'
  <2>1. CASE encoder["audio"] = Null
    BY <1>5, <2>1, PointerInvAlone DEF Release, sessionVars
  <2>2. CASE encoder["audio"] # Null
    BY <1>5, <2>2, PointerInvTell DEF Release, Tracks, sessionVars
  <2> QED BY <2>1, <2>2
<1> QED BY <1>1, <1>2, <1>3, <1>4, <1>5 DEF UserStep

\* The audio threads touch neither the globals, nor the flags, nor the encoders.
LEMMA AudioLeaves ==
  ASSUME NEW r \in Recorders, CaptureAudio(r) \/ AudioStep(r)
  PROVE  UNCHANGED <<mainPc, cur, rec, encoder, is_end, is_release, pc, file, owner, state>>
  BY DEF CaptureAudio, AudioStep, LoadEncoder, SendOneFrame, EndAudioThread, mainVars,
         sessionVars, flagVars, handlerVars

\* The pointer invariant is inductive.
LEMMA PointerInvStep == TypeOK /\ PointerInv /\ [Next]_vars => PointerInv'
<1> SUFFICES ASSUME TypeOK, PointerInv, [Next]_vars PROVE PointerInv'
  OBVIOUS
<1>1. CASE MainStep \/ UserStep
  BY <1>1, PointerInvMain, PointerInvUser
<1>2. ASSUME NEW r \in Recorders, CaptureAudio(r) \/ AudioStep(r) PROVE PointerInv'
  BY <1>2, AudioLeaves, PointerInvAlone
<1>3. ASSUME NEW e \in Encoders, EncoderStep(e) PROVE PointerInv'
  BY <1>3, PointerInvEncoder
<1>4. CASE UNCHANGED vars
  BY <1>4, PointerInvAlone DEF vars, mainVars, sessionVars, flagVars
<1> QED BY <1>1, <1>2, <1>3, <1>4 DEF Next

\* The global pointers, and the flags of what they point at, are always consistent.
THEOREM PointersCorrect == Spec => []PointerInv
<1>1. TypeOK /\ PointerInv /\ [Next]_vars => PointerInv'
  BY PointerInvStep
<1> QED BY InitPointerInv, TypeCorrect, <1>1, PTL DEF Spec

\* No encoder is both ended and released, so each is closed and deleted once.
THEOREM OneCleanupHolds == Spec => []OneCleanup
<1>1. PointerInv => OneCleanup
  BY DEF PointerInv
<1> QED BY PointersCorrect, <1>1, PTL

\* A global names a deleted encoder only inside recordEnd or nativeRelease.
THEOREM NoDanglingGlobalHolds == Spec => []NoDanglingGlobal
<1>1. TypeOK /\ PointerInv => NoDanglingGlobal
  <2> SUFFICES ASSUME TypeOK, PointerInv, NEW t \in Tracks, encoder[t] # Null,
                      pc[<<encoder[t], t>>] = "exit"
               PROVE  t = "audio" /\ mainPc \in {"null_audio", "release_audio"}
    BY DEF NoDanglingGlobal
  <2>1. <<encoder[t], t>> \in Encoders
    BY DEF TypeOK, SessionOK, Pointers, Encoders
  <2>2. is_end[<<encoder[t], t>>] \/ is_release[<<encoder[t], t>>]
    BY <2>1 DEF PointerInv, Told
  <2> QED BY <2>2 DEF PointerInv, PointedFlags
<1> QED BY TypeCorrect, PointersCorrect, <1>1, PTL
-----------------------------------------------------------------------------
(* Frames and files.                                                       *)

\* Moving the head of a sequence to the end of the one before it keeps their
\* concatenation.
LEMMA MoveHead ==
  ASSUME NEW S, NEW a \in Seq(S), NEW b \in Seq(S), b # <<>>
  PROVE  Append(a, Head(b)) \o Tail(b) = a \o b
  OBVIOUS

\* No frame, no file and no state exists before the first recording.
LEMMA InitFrames == Init => FramesKept /\ Drained /\ Closed
<1> SUFFICES ASSUME Init PROVE FramesKept /\ Drained /\ Closed
  OBVIOUS
<1>1. <<>> \o <<>> = <<>>
  BY ConcatEmptySeq, EmptySeq
<1>2. FramesKept
  BY <1>1 DEF Init, FramesKept
<1>3. Drained /\ Closed
  BY DEF Init, Drained, Closed, Encoders, Tracks
<1> QED BY <1>2, <1>3

\* A push puts the same frame at the end of what was sent and of what waits.
LEMMA PushKeepsFrames ==
  ASSUME TypeOK, FramesKept, NEW e \in Encoders, NEW f \in Frames, Push(e, f)
  PROVE  FramesKept'
<1> SUFFICES ASSUME NEW g \in Encoders PROVE sent'[g] = encoded'[g] \o frame_queue'[g]
  BY DEF FramesKept
<1>1. sent[g] = encoded[g] \o frame_queue[g]
  BY DEF FramesKept
<1>2. encoded[g] \in Seq(Frames) /\ frame_queue[g] \in Seq(Frames)
  BY DEF TypeOK, QueueOK
<1>3. CASE g = e
  <2>1. /\ sent'[g] = Append(sent[g], f)
        /\ frame_queue'[g] = Append(frame_queue[g], f)
        /\ encoded'[g] = encoded[g]
    BY <1>3 DEF TypeOK, QueueOK, Push
  <2>2. Append(encoded[g] \o frame_queue[g], f) = encoded[g] \o Append(frame_queue[g], f)
    <3>1. ASSUME NEW a \in Seq(Frames), NEW b \in Seq(Frames)
          PROVE  Append(a \o b, f) = a \o Append(b, f)
      OBVIOUS
    <3> QED BY <1>2, <3>1, Zenon
  <2>3. sent'[g] = Append(encoded[g] \o frame_queue[g], f)
    BY <1>1, <2>1, Zenon
  <2>4. encoded'[g] \o frame_queue'[g] = encoded[g] \o Append(frame_queue[g], f)
    BY <2>1, Zenon
  <2> QED BY <2>2, <2>3, <2>4, Zenon
<1>4. CASE g # e
  BY <1>1, <1>4 DEF TypeOK, QueueOK, Push
<1> QED BY <1>3, <1>4

\* A pop moves the oldest waiting frame to the end of what was encoded.
LEMMA TakeKeepsFrames ==
  ASSUME TypeOK, FramesKept, NEW e \in Encoders, TakeFrame(e)
  PROVE  FramesKept'
<1>1. CASE UNCHANGED queueVars
  BY <1>1 DEF FramesKept, queueVars
<1>2. CASE ~ UNCHANGED queueVars
  <2>1. /\ frame_queue[e] # <<>>
        /\ frame_queue' = [frame_queue EXCEPT ![e] = Tail(@)]
        /\ encoded' = [encoded EXCEPT ![e] = Append(@, Head(frame_queue[e]))]
        /\ UNCHANGED sent
    BY <1>2 DEF TakeFrame, EmptyAnswers
  <2> SUFFICES ASSUME NEW g \in Encoders PROVE sent'[g] = encoded'[g] \o frame_queue'[g]
    BY DEF FramesKept
  <2>2. sent[g] = encoded[g] \o frame_queue[g]
    BY DEF FramesKept
  <2>3. encoded[g] \in Seq(Frames) /\ frame_queue[g] \in Seq(Frames)
    BY DEF TypeOK, QueueOK
  <2>4. CASE g = e
    <3>1. /\ frame_queue'[g] = Tail(frame_queue[g])
          /\ encoded'[g] = Append(encoded[g], Head(frame_queue[g]))
      BY <2>1, <2>4 DEF TypeOK, QueueOK
    <3>2. Append(encoded[g], Head(frame_queue[g])) \o Tail(frame_queue[g])
            = encoded[g] \o frame_queue[g]
      BY <2>1, <2>3, <2>4, MoveHead
    <3> QED BY <2>1, <2>2, <3>1, <3>2
  <2>5. CASE g # e
    BY <2>1, <2>2, <2>5 DEF TypeOK, QueueOK
  <2> QED BY <2>4, <2>5
<1> QED BY <1>1, <1>2

\* Of an encoder thread's steps only the pop changes its queue.
LEMMA NotTakeLeavesQueues ==
  ASSUME NEW e \in Encoders, EncoderStep(e), ~TakeFrame(e)
  PROVE  UNCHANGED queueVars
  BY DEF EncoderStep, TestEnd, TestDrained, TestRelease, FlushAndClose,
         SetState, TryEncodeOver, Mux, Notify, FreeHandler, DeleteEncoder, queueVars

\* No step of a begun call changes a queue.
LEMMA MainLeavesQueues ==
  ASSUME MainStep
  PROVE  UNCHANGED queueVars
  BY DEF MainStep, InitVideoEncoder, InitAudioEncoder, InitEncoder, FinishStart, EndVideo,
         EndAudio, NullAudio, ReleaseVideo, ReleaseFlag, InterruptAudio, queueVars

\* The two steps that push: the encoder and the frame.
LEMMA PreviewPushes ==
  ASSUME TypeOK, NEW r \in Recorders, PreviewFrame(r)
  PROVE  \/ UNCHANGED queueVars
         \/ /\ encoder["video"] # Null
            /\ <<encoder["video"], "video">> \in Encoders
            /\ \E f \in Frames : Push(<<encoder["video"], "video">>, f)
<1> DEFINE e == <<encoder["video"], "video">>
           f == [by |-> r, n |-> Len(sent[e]) + 1]
<1>1. CASE UNCHANGED queueVars
  BY <1>1
<1>2. CASE ~ UNCHANGED queueVars
  <2>1. encoder["video"] # Null /\ e \in Encoders /\ Push(e, f)
    BY <1>2 DEF TypeOK, SessionOK, PreviewFrame, Pointers, Encoders, Tracks
  <2>2. Len(sent[e]) + 1 \in Nat
    BY <2>1 DEF TypeOK, QueueOK
  <2>3. f \in Frames
    BY <2>2 DEF Frames
  <2> QED BY <2>1, <2>3
<1> QED BY <1>1, <1>2

\* An audio push outside the encoders that exist would change nothing.
LEMMA SendPushes ==
  ASSUME TypeOK, NEW r \in Recorders, SendOneFrame(r)
  PROVE  \/ UNCHANGED queueVars
         \/ /\ <<audioEncoder[r], "audio">> \in Encoders
            /\ \E f \in Frames : Push(<<audioEncoder[r], "audio">>, f)
<1> DEFINE e == <<audioEncoder[r], "audio">>
           n == IF pc[e] \in {"new", "failed"} THEN ZeroSize ELSE Len(sent[e]) + 1
           f == [by |-> r, n |-> n]
<1>1. CASE UNCHANGED queueVars
  BY <1>1
<1>2. CASE ~ UNCHANGED queueVars
  <2>1. Push(e, f)
    BY <1>2 DEF SendOneFrame
  <2>2. CASE e \in Encoders
    <3>1. n \in Nat
      BY <2>2 DEF TypeOK, QueueOK, ZeroSize
    <3>2. f \in Frames
      BY <3>1 DEF Frames
    <3> QED BY <2>1, <2>2, <3>2
  <2>3. CASE e \notin Encoders
    BY <2>1, <2>3 DEF TypeOK, QueueOK, Push, queueVars
  <2> QED BY <2>2, <2>3
<1> QED BY <1>1, <1>2

\* No step loses, duplicates or reorders a frame.
LEMMA FramesKeptStep == TypeOK /\ FramesKept /\ [Next]_vars => FramesKept'
<1> SUFFICES ASSUME TypeOK, FramesKept, [Next]_vars PROVE FramesKept'
  OBVIOUS
<1>1. CASE UNCHANGED queueVars
  BY <1>1 DEF FramesKept, queueVars
<1>2. CASE ~ UNCHANGED queueVars
  <2>1. ASSUME NEW r \in Recorders, PreviewFrame(r) PROVE FramesKept'
    BY <1>2, <2>1, PreviewPushes, PushKeepsFrames
  <2>2. ASSUME NEW r \in Recorders, SendOneFrame(r) PROVE FramesKept'
    BY <1>2, <2>2, SendPushes, PushKeepsFrames
  <2>3. ASSUME NEW e \in Encoders, EncoderStep(e) PROVE FramesKept'
    BY <1>2, <2>3, TakeKeepsFrames, NotTakeLeavesQueues
  <2>4. ~MainStep
    BY <1>2, MainLeavesQueues
  <2>5. UserStep => \E r \in Recorders : PreviewFrame(r)
    BY <1>2 DEF UserStep, ReopenScreen, StartRecord, StopRecord, Release
  <2>6. \A r \in Recorders : CaptureAudio(r) \/ AudioStep(r) => SendOneFrame(r)
    BY <1>2 DEF CaptureAudio, AudioStep, LoadEncoder, EndAudioThread
  <2>7. ~ UNCHANGED vars
    BY <1>2 DEF vars, queueVars
  <2> QED BY <2>1, <2>2, <2>3, <2>4, <2>5, <2>6, <2>7 DEF Next
<1> QED BY <1>1, <1>2

\* Frames leave a queue in the order they were pushed, and none gets lost.
THEOREM FramesKeptHolds == Spec => []FramesKept
<1>1. Init => FramesKept
  BY InitFrames
<1>2. TypeOK /\ FramesKept /\ [Next]_vars => FramesKept'
  BY FramesKeptStep
<1> QED BY TypeCorrect, <1>1, <1>2, PTL DEF Spec

\* Once the video thread has left its loop for good nothing waits in its queue.
LEMMA DrainedStep ==
  ASSUME ~RacyEmpty, TypeOK, PointerInv, Drained, [Next]_vars
  PROVE  Drained'
<1> SUFFICES ASSUME NEW s \in Sessions, is_end'[<<s, "video">>],
                    pc'[<<s, "video">>] \in AfterLoop
             PROVE  frame_queue'[<<s, "video">>] = <<>>
  BY DEF Drained
<1> DEFINE v == <<s, "video">>
<1>1. v \in Encoders
  BY DEF Encoders, Tracks
<1>2. is_end[v] /\ pc[v] \in AfterLoop => frame_queue[v] = <<>>
  BY DEF Drained
<1>3. ASSUME NEW e \in Encoders, EncoderStep(e) PROVE frame_queue'[v] = <<>>
  <2>1. is_end' = is_end
    BY <1>3, EncoderLeaves
  <2>2. CASE e # v
    <3>1. pc'[v] = pc[v]
      BY <1>1, <1>3, <2>2, EncoderMoves DEF TypeOK, ThreadOK
    <3>2. frame_queue'[v] = frame_queue[v]
      BY <1>1, <1>3, <2>2, NotTakeLeavesQueues DEF TakeFrame, queueVars, TypeOK, QueueOK
    <3> QED BY <1>2, <2>1, <3>1, <3>2
  <2>3. CASE e = v /\ TakeFrame(v)
    BY <1>1, <2>3 DEF TakeFrame, GoTo, TypeOK, ThreadOK, AfterLoop
  <2>4. CASE e = v /\ ~TakeFrame(v)
    <3>1. frame_queue' = frame_queue
      BY <1>3, <2>4, NotTakeLeavesQueues DEF queueVars
    <3>2. CASE pc[v] \in AfterLoop
      BY <1>2, <2>1, <3>1, <3>2
    <3>3. CASE TestDrained(v)
      BY <1>1, <3>1, <3>3 DEF TestDrained, GoTo, EmptyAnswers, AfterLoop, TypeOK, ThreadOK
    <3>4. CASE TestRelease(v)
      BY <1>1, <2>1, <3>4 DEF TestRelease, GoTo, AfterTestRelease, AfterLoop, TypeOK,
         ThreadOK, PointerInv, OneCleanup
    <3>5. CASE TestEnd(v)
      BY <1>1, <3>5 DEF TestEnd, GoTo, AfterTestEnd, AfterLoop, TypeOK, ThreadOK
    <3> QED BY <1>3, <2>4, <3>2, <3>3, <3>4, <3>5 DEF EncoderStep, FlushAndClose, SetState,
            TryEncodeOver, Mux, Notify, FreeHandler, DeleteEncoder, GoTo, AfterLoop
  <2> QED BY <2>2, <2>3, <2>4
<1>4. ASSUME pc' = pc, is_end' = is_end, frame_queue' = frame_queue
      PROVE  frame_queue'[v] = <<>>
  BY <1>2, <1>4
<1>5. ASSUME MainStep PROVE frame_queue'[v] = <<>>
  <2>1. frame_queue' = frame_queue
    BY <1>5, MainLeavesQueues DEF queueVars
  <2>2. pc'[v] = pc[v]
    <3>1. CASE InitVideoEncoder
      BY <1>1, <3>1 DEF InitVideoEncoder, InitEncoder, AfterLoop, TypeOK, ThreadOK
    <3>2. CASE InitAudioEncoder
      BY <1>1, <3>2 DEF InitAudioEncoder, InitEncoder, TypeOK, ThreadOK
    <3> QED BY <1>5, <3>1, <3>2 DEF MainStep, FinishStart, EndVideo, EndAudio, NullAudio,
            ReleaseVideo, ReleaseFlag, InterruptAudio
  <2>3. is_end[v]
    <3>1. CASE InitVideoEncoder \/ InitAudioEncoder
      BY <1>1, <3>1 DEF InitVideoEncoder, InitAudioEncoder, InitEncoder, TypeOK, SessionOK
    <3>2. CASE EndVideo
      <4>1. ~is_end[v] => encoder["video"] = s
        BY <1>1, <3>2 DEF EndVideo, Ended, TypeOK, SessionOK
      <4>2. ~is_end[v] => ~is_release[v]
        BY <4>1 DEF PointerInv, PointedFlags, Tracks, Sessions
      <4> QED BY <1>1, <2>2, <4>2 DEF PointerInv, Told, EndedPcs, AfterLoop
    <3>3. CASE EndAudio
      BY <1>1, <3>3 DEF EndAudio, Ended, TypeOK, SessionOK
    <3> QED BY <1>5, <3>1, <3>2, <3>3 DEF MainStep, FinishStart, NullAudio, ReleaseVideo,
            ReleaseFlag, InterruptAudio, flagVars
  <2> QED BY <1>2, <2>1, <2>2, <2>3
<1>6. ASSUME NEW r \in Recorders, PreviewFrame(r) PROVE frame_queue'[v] = <<>>
  <2>1. UNCHANGED <<pc, is_end>>
    BY <1>6 DEF PreviewFrame, flagVars
  <2>2. CASE UNCHANGED queueVars
    BY <1>4, <2>1, <2>2 DEF queueVars
  <2>3. CASE ~ UNCHANGED queueVars
    <3>1. /\ encoder["video"] # Null /\ <<encoder["video"], "video">> \in Encoders
          /\ \E f \in Frames : Push(<<encoder["video"], "video">>, f)
      BY <1>6, <2>3, PreviewPushes
    <3>2. ~is_end[<<encoder["video"], "video">>]
      BY <3>1 DEF PointerInv, PointedFlags, Tracks
    <3>3. frame_queue'[v] = frame_queue[v]
      BY <1>1, <2>1, <3>1, <3>2 DEF Push, TypeOK, QueueOK
    <3> QED BY <1>2, <2>1, <3>3
  <2> QED BY <2>2, <2>3
<1>7. ASSUME NEW r \in Recorders, CaptureAudio(r) \/ AudioStep(r)
      PROVE  frame_queue'[v] = <<>>
  <2>1. UNCHANGED <<pc, is_end>>
    BY <1>7, AudioLeaves
  <2>2. frame_queue'[v] = frame_queue[v]
    BY <1>1, <1>7, SendPushes DEF CaptureAudio, AudioStep, LoadEncoder, EndAudioThread,
       queueVars, Push, TypeOK, QueueOK
  <2> QED BY <1>2, <2>1, <2>2
<1>8. ASSUME NEW r \in Recorders, StartRecord(r) PROVE frame_queue'[v] = <<>>
  BY <1>1, <1>2, <1>8 DEF StartRecord, flagVars, queueVars, AfterLoop
<1>9. CASE ReopenScreen
  BY <1>4, <1>9 DEF ReopenScreen, flagVars, queueVars
<1>10. ASSUME NEW r \in Recorders, StopRecord(r) \/ Release(r) PROVE frame_queue'[v] = <<>>
  BY <1>4, <1>10 DEF StopRecord, Release, flagVars, queueVars
<1>11. CASE UNCHANGED vars
  BY <1>4, <1>11 DEF vars, flagVars, queueVars
<1> QED BY <1>3, <1>5, <1>6, <1>7, <1>8, <1>9, <1>10, <1>11 DEF Next, UserStep

\* When empty() is read as it is written, the video encoder is left only after
\* every preview frame was given to the codec.
THEOREM VideoFullyEncodedHolds == ~RacyEmpty /\ Spec => []VideoFullyEncoded
<1> SUFFICES ASSUME ~RacyEmpty PROVE Spec => []VideoFullyEncoded
  OBVIOUS
<1>1. Init => Drained
  BY InitFrames
<1>2. TypeOK /\ PointerInv /\ Drained /\ [Next]_vars => Drained'
  BY DrainedStep
<1>3. TypeOK /\ FramesKept /\ Drained => VideoFullyEncoded
  <2> SUFFICES ASSUME TypeOK, FramesKept, Drained, NEW s \in Sessions,
                      is_end[<<s, "video">>], pc[<<s, "video">>] \in AfterLoop
               PROVE  encoded[<<s, "video">>] = sent[<<s, "video">>]
    BY DEF VideoFullyEncoded
  <2> DEFINE v == <<s, "video">>
  <2>1. v \in Encoders /\ frame_queue[v] = <<>>
    BY DEF Drained, Encoders, Tracks
  <2>2. encoded[v] \in Seq(Frames)
    BY <2>1 DEF TypeOK, QueueOK
  <2>3. encoded[v] \o <<>> = encoded[v]
    BY <2>2, ConcatEmptySeq
  <2> QED BY <2>1, <2>3 DEF FramesKept
<1> QED BY TypeCorrect, PointersCorrect, FramesKeptHolds, <1>1, <1>2, <1>3, PTL DEF Spec
-----------------------------------------------------------------------------
(* The files a muxer is started on.                                        *)

\* What one encoder thread does to files and states: it moves itself only, ends
\* its own file, sets its own state after that, and looks at both for the muxer.
LEMMA EncoderCloses ==
  ASSUME TypeOK, PointerInv, Closed, NEW e \in Encoders, EncoderStep(e)
  PROVE  /\ \A g \in Encoders : g # e =>
              pc'[g] = pc[g] /\ file'[g] = file[g] /\ state'[g] = state[g]
         /\ pc'[e] = "set_state" => file'[e] = "complete"
         /\ state'[e] => /\ pc'[e] \in {"check"} \cup AfterCheck
                         /\ is_end[e] /\ file'[e] = "complete"
         /\ state[e] => state'[e]
         /\ pc'[e] = "mux" => BothEnded(e[1])
<1> USE DEF TypeOK, ThreadOK, ResultOK, GoTo, AfterCheck
<1>1. CASE TestEnd(e) \/ TestDrained(e)
  BY <1>1 DEF Closed, TestEnd, TestDrained, AfterTestEnd, handlerVars
<1>2. CASE TestRelease(e)
  BY <1>2 DEF Closed, TestRelease, AfterTestRelease, handlerVars
<1>3. CASE TakeFrame(e)
  BY <1>3 DEF Closed, TakeFrame, handlerVars
<1>4. CASE FlushAndClose(e)
  <2>1. ~state[e]
    BY <1>4 DEF Closed, FlushAndClose
  <2>2. PICK ok \in BOOLEAN :
          /\ pc' = [pc EXCEPT ![e] = IF ok THEN "set_state" ELSE "delete"]
          /\ file' = IF ok THEN [file EXCEPT ![e] = "complete"] ELSE file
    BY <1>4 DEF FlushAndClose, MayFail
  <2>3. state' = state
    BY <1>4 DEF FlushAndClose, handlerVars
  <2> QED BY <2>1, <2>2, <2>3
<1>5. CASE SetState(e)
  BY <1>5 DEF Closed, PointerInv, Told, EndedPcs, SetState
<1>6. CASE TryEncodeOver(e)
  BY <1>6 DEF Closed, TryEncodeOver, handlerVars
<1>7. CASE Mux(e)
  BY <1>7 DEF Closed, Mux, handlerVars
<1>8. CASE Notify(e)
  <2>1. pc[e] = "notify" /\ UNCHANGED <<file, state>>
    BY <1>8 DEF Notify, handlerVars
  <2>2. \/ pc' = pc
        \/ pc' = [pc EXCEPT ![e] = "free"]
        \/ pc' = [pc EXCEPT ![e] = "delete"]
    BY <1>8 DEF Notify
  <2> QED BY <2>1, <2>2 DEF Closed
<1>9. CASE FreeHandler(e)
  BY <1>9 DEF Closed, FreeHandler
<1>10. CASE DeleteEncoder(e)
  BY <1>10 DEF Closed, DeleteEncoder, handlerVars
<1> QED BY <1>1, <1>2, <1>3, <1>4, <1>5, <1>6, <1>7, <1>8, <1>9, <1>10 DEF EncoderStep

\* Opening an output concerns an encoder that has no thread yet.
LEMMA InitCloses ==
  ASSUME TypeOK, PointerInv, Closed, NEW t \in Tracks, NEW done, InitEncoder(t, done),
         pc[<<cur, t>>] = "new", cur \in Sessions
  PROVE  Closed'
<1> DEFINE e == <<cur, t>>
<1>1. e \in Encoders /\ ~state[e]
  BY DEF Encoders, Closed, AfterCheck
<1>2. /\ \/ pc' = [pc EXCEPT ![e] = "loop"]
         \/ pc' = [pc EXCEPT ![e] = "failed"]
      /\ file' = file \/ file' = [file EXCEPT ![e] = "open"]
      /\ is_end' = is_end \/ is_end' = [is_end EXCEPT ![e] = FALSE]
      /\ UNCHANGED state
  BY DEF InitEncoder, MayFail, handlerVars
<1> QED BY <1>1, <1>2 DEF Closed, BothEnded, TypeOK, ThreadOK, SessionOK, AfterCheck

\* A track is announced as ended after its file was closed, by every step.
LEMMA ClosedStep ==
  ASSUME TypeOK, PointerInv, Closed, [Next]_vars
  PROVE  Closed'
<1>1. ASSUME NEW e \in Encoders, EncoderStep(e) PROVE Closed'
  <2>1. is_end' = is_end
    BY <1>1, EncoderLeaves
  <2>2. \A g \in Encoders : state[g] => state'[g]
    BY <1>1, EncoderCloses
  <2>3. \A s \in Sessions : BothEnded(s) => BothEnded(s)'
    BY <2>2 DEF BothEnded, Encoders
  <2>4. \A g \in Encoders : g[1] \in Sessions
    BY DEF Encoders
  <2> QED BY <1>1, <2>1, <2>3, <2>4, EncoderCloses DEF Closed
<1>2. CASE UNCHANGED <<pc, file, state>> /\ \A e \in Encoders : is_end[e] => is_end'[e]
  BY <1>2 DEF Closed, BothEnded
<1>3. CASE InitVideoEncoder \/ InitAudioEncoder
  BY <1>3, InitCloses DEF InitVideoEncoder, InitAudioEncoder, PointerInv, InitPcs, Tracks
<1>4. CASE MainStep
  <2>1. CASE EndVideo \/ EndAudio
    BY <1>2, <2>1 DEF EndVideo, EndAudio, Ended, handlerVars, TypeOK, SessionOK
  <2> QED BY <1>2, <1>3, <1>4, <2>1 DEF MainStep, FinishStart, NullAudio, ReleaseVideo,
          ReleaseFlag, InterruptAudio, flagVars, handlerVars
<1>5. ASSUME NEW r \in Recorders, StartRecord(r) PROVE Closed'
  <2>1. \A e \in Encoders : state[e] => e[1] # cur + 1
    BY <1>5 DEF Closed, PointerInv, Unborn, Encoders, AfterCheck, TypeOK, SessionOK
  <2>2. UNCHANGED <<file, state, is_end>>
    BY <1>5 DEF StartRecord, handlerVars, flagVars
  <2>3. \A e \in Encoders : pc'[e] = IF e[1] = cur + 1 THEN "new" ELSE pc[e]
    BY <1>5 DEF StartRecord
  <2> QED BY <2>1, <2>2, <2>3 DEF Closed, BothEnded
<1>6. ASSUME UserStep, ~ \E r \in Recorders : StartRecord(r) PROVE Closed'
  BY <1>2, <1>6 DEF UserStep, ReopenScreen, PreviewFrame, StopRecord, Release, flagVars,
     handlerVars
<1>7. ASSUME NEW r \in Recorders, CaptureAudio(r) \/ AudioStep(r) PROVE Closed'
  BY <1>2, <1>7, AudioLeaves
<1>8. CASE UNCHANGED vars
  BY <1>2, <1>8 DEF vars, flagVars, handlerVars
<1> QED BY <1>1, <1>4, <1>5, <1>6, <1>7, <1>8 DEF Next

\* The muxer is started on two closed files, the video's holding every frame
\* captured, when empty() is read as it is written.
THEOREM MuxInputsCompleteHolds == ~RacyEmpty /\ Spec => []MuxInputsComplete
<1> SUFFICES ASSUME ~RacyEmpty PROVE Spec => []MuxInputsComplete
  OBVIOUS
<1>1. Init => Closed
  BY InitFrames
<1>2. TypeOK /\ PointerInv /\ Closed /\ [Next]_vars => Closed'
  BY ClosedStep
<1>3. Closed /\ VideoFullyEncoded => MuxInputsComplete
  <2> SUFFICES ASSUME Closed, VideoFullyEncoded, NEW e \in Encoders, pc[e] = "mux"
               PROVE  /\ \A t \in Tracks : file[<<e[1], t>>] = "complete"
                      /\ encoded[<<e[1], "video">>] = sent[<<e[1], "video">>]
    BY DEF MuxInputsComplete
  <2>1. \A t \in Tracks : <<e[1], t>> \in Encoders /\ state[<<e[1], t>>]
    BY DEF Closed, BothEnded, Encoders
  <2>2. \A t \in Tracks : file[<<e[1], t>>] = "complete"
    BY <2>1 DEF Closed
  <2>3. e[1] \in Sessions /\ "video" \in Tracks
    BY DEF Encoders, Tracks
  <2>4. is_end[<<e[1], "video">>] /\ pc[<<e[1], "video">>] \in AfterLoop
    BY <2>1, <2>3 DEF Closed, AfterCheck, AfterLoop
  <2> QED BY <2>2, <2>3, <2>4 DEF VideoFullyEncoded
<1> QED BY TypeCorrect, PointersCorrect, VideoFullyEncodedHolds, <1>1, <1>2, <1>3, PTL DEF Spec
=============================================================================
