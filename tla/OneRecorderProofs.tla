------------------------- MODULE OneRecorderProofs -------------------------
(***************************************************************************)
(* What one recorder guarantees, that is, as long as the recorder's screen *)
(* is opened once in a process, for any number of recordings: its globals  *)
(* follow mRecording, no encoder thread is left over, a preview frame      *)
(* never meets a bad pointer, and one audio buffer at most comes too late. *)
(***************************************************************************)
EXTENDS RecordSessionProofs

StartPcs == {"init_video", "init_audio", "started"}
EndPcs == {"end_audio", "null_audio"}

\* where the globals point while the main thread is at each place of a call
GlobalsFollow ==
  /\ mainPc = "idle" /\ ~mRecording[1] => \A t \in Tracks : encoder[t] = Null
  /\ mainPc \in StartPcs \/ (mainPc = "idle" /\ mRecording[1]) =>
       cur \in Sessions /\ \A t \in Tracks : encoder[t] = cur
  /\ mainPc \in StartPcs \cup EndPcs \cup {"end_video", "interrupt"} => ~mRecording[1]
  /\ mainPc \in EndPcs => encoder["video"] = Null
  /\ mainPc = "null_audio" => is_end[<<encoder["audio"], "audio">>]
  /\ mainPc = "release_audio" => is_release[<<encoder["audio"], "audio">>]
  /\ mainPc \in {"release_video", "release_flag", "interrupt"} => encoder["audio"] = Null
  /\ mainPc \in {"release_flag", "interrupt"} => encoder["video"] = Null

\* the audio thread holds a buffer that it will push to this session
Pending(s) ==
  \/ audioPc[1] = "push" /\ audioEncoder[1] = s
  \/ audioPc[1] = "call" /\ encoder["audio"] = s

LateBuffer ==
  \A s \in Sessions :
    LET e == <<s, "audio">> IN
    is_end[e] /\ pc[e] \in AfterLoop =>
      frame_queue[e] = <<>> \/ (Len(frame_queue[e]) = 1 /\ ~Pending(s))

OneInv == GlobalsFollow /\ NoOrphanEncoder /\ VideoNeverFaults

\* With one recorder every call is for it.
LEMMA OnlyOne == MaxRecorders = 1 => Recorders = {1}
  BY DEF Recorders

\* Before the first recording the globals are null and no thread runs.
LEMMA InitOneInv == Init => OneInv /\ LateBuffer
<1> SUFFICES ASSUME Init PROVE OneInv /\ LateBuffer
  OBVIOUS
<1>1. 1 \in Recorders /\ ~mRecording[1]
  BY SizesAssumption DEF Init, Recorders
<1>2. GlobalsFollow
  BY <1>1 DEF Init, GlobalsFollow, StartPcs, EndPcs
<1>3. NoOrphanEncoder /\ VideoNeverFaults /\ LateBuffer
  BY DEF Init, NoOrphanEncoder, VideoNeverFaults, LateBuffer, Encoders, Tracks, NoFault
<1> QED BY <1>2, <1>3 DEF OneInv
-----------------------------------------------------------------------------
(* The pointers and the threads.                                           *)

\* The steps that leave alone what the invariant is about.
LEMMA OneInvAlone ==
  ASSUME OneInv, VideoNeverFaults',
         UNCHANGED <<mainPc, mRecording, cur, encoder, is_end, is_release, pc>>
  PROVE  OneInv'
<1>1. GlobalsFollow'
  BY DEF OneInv, GlobalsFollow
<1>2. NoOrphanEncoder'
  BY DEF OneInv, NoOrphanEncoder
<1> QED BY <1>1, <1>2 DEF OneInv

\* Encoder threads neither move a pointer nor get lost.
LEMMA OneInvEncoder ==
  ASSUME TypeOK, PointerInv, OneInv, NEW e \in Encoders, EncoderStep(e)
  PROVE  OneInv'
<1>1. UNCHANGED <<mainPc, mRecording, cur, encoder, is_end, is_release>>
  BY DEF EncoderStep, TestEnd, TestDrained, TestRelease, TakeFrame, FlushAndClose,
     SetState, TryEncodeOver, Mux, Notify, FreeHandler, DeleteEncoder, mainVars, javaVars,
     sessionVars, flagVars
<1>2. GlobalsFollow'
  BY <1>1 DEF OneInv, GlobalsFollow
<1>3. fault' = fault \/ fault' = "freed_handler"
  BY DEF EncoderStep, TestEnd, TestDrained, TestRelease, TakeFrame, FlushAndClose,
     SetState, TryEncodeOver, Mux, Notify, FreeHandler, DeleteEncoder
<1>4. VideoNeverFaults'
  BY <1>3 DEF OneInv, VideoNeverFaults
<1>5. \A g \in Encoders : pc'[g] \notin {"none", "failed"} => pc[g] \notin {"none", "failed"}
  BY EncoderMoves DEF TypeOK, ThreadOK
<1>6. NoOrphanEncoder'
  BY <1>1, <1>5 DEF OneInv, NoOrphanEncoder
<1> QED BY <1>2, <1>4, <1>6 DEF OneInv

\* Opening an output: the globals point at the session being prepared.
LEMMA OneInvInit ==
  ASSUME TypeOK, PointerInv, OneInv, NEW t \in Tracks, NEW done, InitEncoder(t, done),
         mainPc \in StartPcs, done \in {"init_audio", "started"}
  PROVE  OneInv'
<1> DEFINE e == <<cur, t>>
<1>1. /\ e \in Encoders /\ encoder[t] = cur /\ ~mRecording[1]
      /\ \A u \in Tracks : encoder[u] = cur
  BY DEF OneInv, GlobalsFollow, StartPcs, Encoders
<1>2. /\ \/ pc' = [pc EXCEPT ![e] = "loop"]
         \/ pc' = [pc EXCEPT ![e] = "failed"]
      /\ is_end' = is_end \/ is_end' = [is_end EXCEPT ![e] = FALSE]
      /\ mainPc' = done /\ UNCHANGED <<mRecording, cur, encoder, is_release, fault>>
  BY DEF InitEncoder, javaVars, sessionVars
<1>3. GlobalsFollow'
  BY <1>1, <1>2 DEF OneInv, GlobalsFollow, StartPcs, EndPcs
<1>4. NoOrphanEncoder'
  <2> SUFFICES ASSUME NEW g \in Encoders, pc'[g] \notin {"none", "failed"},
                      ~is_end'[g], ~is_release'[g]
               PROVE  encoder'[g[2]] = g[1]
    BY DEF NoOrphanEncoder
  <2>1. CASE g = e
    BY <1>1, <1>2, <2>1
  <2>2. CASE g # e
    BY <1>2, <2>2 DEF OneInv, NoOrphanEncoder, TypeOK, ThreadOK, SessionOK
  <2> QED BY <2>1, <2>2
<1> QED BY <1>2, <1>3, <1>4 DEF OneInv, VideoNeverFaults

\* The calls that end or release: what is nulled has been told.
LEMMA OneInvTell ==
  ASSUME TypeOK, PointerInv, OneInv, MaxRecorders = 1,
         \/ EndVideo \/ EndAudio \/ NullAudio("null_audio", "idle")
         \/ NullAudio("release_audio", "release_video") \/ ReleaseVideo
  PROVE  OneInv'
<1> USE DEF TypeOK, SessionOK, Tracks, StartPcs, EndPcs
<1>1. GlobalsFollow'
  BY DEF OneInv, GlobalsFollow, EndVideo, EndAudio, NullAudio, ReleaseVideo, Ended, Nulled,
     Released, javaVars, sessionVars, flagVars, Pointers, Encoders
<1>2. pc' = pc /\ fault' = fault
  BY DEF EndVideo, EndAudio, NullAudio, ReleaseVideo
<1>3. NoOrphanEncoder'
  <2> SUFFICES ASSUME NEW g \in Encoders, pc[g] \notin {"none", "failed"},
                      ~is_end'[g], ~is_release'[g]
               PROVE  encoder'[g[2]] = g[1]
    BY <1>2 DEF NoOrphanEncoder
  <2>0. g = <<g[1], g[2]>> /\ g[1] \in Sessions /\ g[2] \in Tracks
    BY DEF Encoders
  <2>1. CASE EndVideo
    BY <2>0, <2>1 DEF EndVideo, Ended, Nulled, OneInv, NoOrphanEncoder
  <2>2. CASE EndAudio
    BY <2>0, <2>2 DEF EndAudio, Ended, OneInv, NoOrphanEncoder
  <2>3. CASE NullAudio("null_audio", "idle")
    BY <2>0, <2>3 DEF NullAudio, Nulled, OneInv, NoOrphanEncoder, GlobalsFollow, flagVars
  <2>4. CASE NullAudio("release_audio", "release_video")
    BY <2>0, <2>4 DEF NullAudio, Nulled, OneInv, NoOrphanEncoder, GlobalsFollow, flagVars
  <2>5. CASE ReleaseVideo
    BY <2>0, <2>5 DEF ReleaseVideo, Released, Nulled, OneInv, NoOrphanEncoder
  <2> QED BY <2>1, <2>2, <2>3, <2>4, <2>5
<1> QED BY <1>1, <1>2, <1>3 DEF OneInv, VideoNeverFaults

\* A call that was begun keeps the invariant.
LEMMA OneInvMain ==
  ASSUME TypeOK, PointerInv, OneInv, MaxRecorders = 1, MainStep
  PROVE  OneInv'
<1>1. CASE InitVideoEncoder
  BY <1>1, OneInvInit DEF InitVideoEncoder, Tracks, StartPcs
<1>2. CASE InitAudioEncoder
  BY <1>2, OneInvInit DEF InitAudioEncoder, Tracks, StartPcs
<1>3. ASSUME FinishStart \/ ReleaseFlag \/ InterruptAudio PROVE OneInv'
  <2>1. caller = 1 /\ 1 \in Recorders
    BY OnlyOne DEF TypeOK, CallerOK
  <2>2. UNCHANGED <<cur, encoder, is_end, is_release, pc, fault>>
    BY <1>3 DEF FinishStart, ReleaseFlag, InterruptAudio, sessionVars, flagVars
  <2>3. NoOrphanEncoder' /\ VideoNeverFaults'
    BY <2>2 DEF OneInv, NoOrphanEncoder, VideoNeverFaults
  <2>4. GlobalsFollow'
    <3>1. CASE FinishStart
      <4>1. mainPc = "started" /\ mainPc' = "idle" /\ mRecording'[1] = TRUE
        BY <2>1, <3>1 DEF FinishStart, TypeOK, CallerOK
      <4> QED BY <2>2, <4>1 DEF OneInv, GlobalsFollow, StartPcs, EndPcs
    <3>2. CASE ReleaseFlag
      <4>1. mainPc = "release_flag" /\ mainPc' = "interrupt" /\ mRecording'[1] = FALSE
        BY <2>1, <3>2 DEF ReleaseFlag, RecordingOff, TypeOK, CallerOK
      <4> QED BY <2>2, <4>1 DEF OneInv, GlobalsFollow, StartPcs, EndPcs
    <3>3. CASE InterruptAudio
      <4>1. mainPc = "interrupt" /\ mainPc' = "idle" /\ mRecording' = mRecording
        BY <3>3 DEF InterruptAudio
      <4> QED BY <2>2, <4>1 DEF OneInv, GlobalsFollow, StartPcs, EndPcs, Tracks
    <3> QED BY <1>3, <3>1, <3>2, <3>3
  <2> QED BY <2>3, <2>4 DEF OneInv
<1> QED BY <1>1, <1>2, <1>3, OneInvTell DEF MainStep

\* What the user and the camera do keeps it; a preview frame meets the encoder
\* of the latest session, which has not been told anything yet.
LEMMA OneInvUser ==
  ASSUME TypeOK, PointerInv, OneInv, MaxRecorders = 1, UserStep
  PROVE  OneInv'
<1>0. Recorders = {1} /\ \A t \in Tracks : encoder[t] \in Pointers
  BY OnlyOne DEF TypeOK, SessionOK
<1>1. ASSUME NEW r \in Recorders, StartRecord(r) PROVE OneInv'
  <2>1. /\ mainPc' = "init_video" /\ UNCHANGED <<mRecording, is_end, is_release, fault>>
        /\ encoder' = [t \in Tracks |-> cur + 1] /\ cur' = cur + 1
        /\ mainPc = "idle" /\ cur < MaxSessions
    BY <1>1 DEF StartRecord, javaVars, flagVars
  <2>5. ~mRecording[1]
    <3>1. r = 1 /\ ~mRecording[r]
      BY <1>0, <1>1 DEF StartRecord
    <3> QED BY <3>1
  <2>6. cur + 1 \in Sessions
    BY <2>1, SizesAssumption DEF TypeOK, SessionOK, Sessions
  <2>2. \A e \in Encoders : pc'[e] = IF e[1] = cur + 1 THEN "new" ELSE pc[e]
    BY <1>1 DEF StartRecord
  <2>3. \A t \in Tracks : encoder[t] = Null
    BY <2>1, <2>5 DEF OneInv, GlobalsFollow
  <2>4. NoOrphanEncoder'
    <3> SUFFICES ASSUME NEW g \in Encoders, pc'[g] \notin {"none", "failed"},
                        ~is_end[g], ~is_release[g]
                 PROVE  encoder'[g[2]] = g[1]
      BY <2>1 DEF NoOrphanEncoder
    <3>0. g[1] \in Sessions /\ g[2] \in Tracks
      BY DEF Encoders
    <3>1. CASE g[1] = cur + 1
      BY <2>1, <3>0, <3>1
    <3>2. CASE g[1] # cur + 1
      <4>1. encoder[g[2]] = g[1]
        BY <2>2, <3>2 DEF OneInv, NoOrphanEncoder
      <4> QED BY <2>3, <3>0, <4>1 DEF Sessions, Null
    <3> QED BY <3>1, <3>2
  <2>7. GlobalsFollow'
    BY <2>1, <2>5, <2>6 DEF GlobalsFollow, StartPcs, EndPcs
  <2> QED BY <2>1, <2>4, <2>7 DEF OneInv, VideoNeverFaults
<1>2. ASSUME NEW r \in Recorders, PreviewFrame(r) PROVE OneInv'
  <2>1. /\ mainPc = "idle" /\ mRecording[1]
        /\ UNCHANGED <<mainPc, mRecording, cur, encoder, is_end, is_release, pc>>
    BY <1>0, <1>2 DEF PreviewFrame, javaVars, mainVars, sessionVars, flagVars
  <2>2. encoder["video"] = cur /\ cur # Null
    BY <2>1 DEF OneInv, GlobalsFollow, Sessions, Null, Tracks
  <2>3. pc[<<cur, "video">>] # "exit"
    <3>1. <<cur, "video">> \in Encoders
      BY <2>1 DEF OneInv, GlobalsFollow, Encoders, Tracks
    <3> QED BY <2>2, <3>1 DEF PointerInv, PointedFlags, Told, Tracks
  <2>4. fault' = fault
    BY <1>2, <2>2, <2>3 DEF PreviewFrame
  <2> QED BY <2>1, <2>4, OneInvAlone DEF OneInv, VideoNeverFaults
<1>3. ASSUME NEW r \in Recorders, StopRecord(r) \/ Release(r) PROVE OneInv'
  <2>0. r = 1
    BY <1>0
  <2>1. fault' = fault /\ UNCHANGED <<cur, encoder, is_end, pc>>
    BY <1>3 DEF StopRecord, Release, sessionVars, flagVars
  <2>2. \/ is_release' = is_release
        \/ is_release' = Released("audio") /\ encoder["audio"] # Null
    BY <1>3 DEF StopRecord, Release, flagVars
  <2>3. GlobalsFollow'
    <3>1. CASE StopRecord(r)
      BY <2>0, <2>1, <3>1 DEF OneInv, GlobalsFollow, StopRecord, RecordingOff, StartPcs, EndPcs,
         TypeOK, CallerOK, flagVars
    <3>2. CASE Release(r)
      BY <1>0, <2>0, <2>1, <3>2 DEF OneInv, GlobalsFollow, Release, Released, StartPcs, EndPcs,
         TypeOK, SessionOK, Tracks, Pointers, Encoders, javaVars
    <3> QED BY <1>3, <3>1, <3>2
  <2>4. NoOrphanEncoder'
    BY <2>1, <2>2 DEF OneInv, NoOrphanEncoder, Released, TypeOK, SessionOK
  <2> QED BY <2>1, <2>3, <2>4 DEF OneInv, VideoNeverFaults
<1>4. CASE ReopenScreen
  BY <1>4, OneInvAlone DEF ReopenScreen, mainVars, sessionVars, flagVars, OneInv,
     VideoNeverFaults
<1> QED BY <1>1, <1>2, <1>3, <1>4 DEF UserStep

\* The invariant is inductive.
LEMMA OneInvStep ==
  ASSUME TypeOK, PointerInv, OneInv, MaxRecorders = 1, [Next]_vars
  PROVE  OneInv'
<1>1. ASSUME NEW r \in Recorders, CaptureAudio(r) \/ AudioStep(r) PROVE OneInv'
  <2>1. fault' \in {fault, "null_audio", "freed_audio"} /\ mRecording' = mRecording
    BY <1>1 DEF CaptureAudio, AudioStep, LoadEncoder, SendOneFrame, EndAudioThread, javaVars
  <2> QED BY <1>1, <2>1, AudioLeaves, OneInvAlone DEF OneInv, VideoNeverFaults
<1>2. CASE UNCHANGED vars
  BY <1>2, OneInvAlone DEF vars, javaVars, mainVars, sessionVars, flagVars, OneInv,
     VideoNeverFaults
<1> QED BY <1>1, <1>2, OneInvMain, OneInvUser, OneInvEncoder DEF Next

\* The globals follow mRecording in every reachable state of one recorder.
THEOREM OneRecorderCorrect == MaxRecorders = 1 /\ Spec => []OneInv
<1> SUFFICES ASSUME MaxRecorders = 1 PROVE Spec => []OneInv
  OBVIOUS
<1>1. Init => OneInv
  BY InitOneInv
<1>2. TypeOK /\ PointerInv /\ OneInv /\ [Next]_vars => OneInv'
  BY OneInvStep
<1> QED BY TypeCorrect, PointersCorrect, <1>1, <1>2, PTL DEF Spec

\* With one recorder no encoder thread is left that nothing can stop.
THEOREM NoOrphanEncoderHolds == MaxRecorders = 1 /\ Spec => []NoOrphanEncoder
<1>1. OneInv => NoOrphanEncoder
  BY DEF OneInv
<1> QED BY OneRecorderCorrect, <1>1, PTL

\* With one recorder no preview frame meets a null or deleted encoder.
THEOREM VideoNeverFaultsHolds == MaxRecorders = 1 /\ Spec => []VideoNeverFaults
<1>1. OneInv => VideoNeverFaults
  BY DEF OneInv
<1> QED BY OneRecorderCorrect, <1>1, PTL
-----------------------------------------------------------------------------
(* The late audio buffer.                                                  *)

\* A step that adds nothing to the queue of an ended audio encoder and does not
\* give the audio thread a buffer for it keeps the bound.
LEMMA LateBufferKept ==
  ASSUME LateBuffer,
         \A s \in Sessions :
           LET e == <<s, "audio">> IN
           is_end'[e] /\ pc'[e] \in AfterLoop =>
             \/ frame_queue'[e] = <<>>
             \/ /\ is_end[e] /\ pc[e] \in AfterLoop
                /\ frame_queue'[e] = frame_queue[e]
                /\ Pending(s)' => Pending(s)
  PROVE  LateBuffer'
  BY DEF LateBuffer

\* An audio encoder that was told to end is not the one the global names, but
\* for the moment before the assignment of NULL.
LEMMA EndedIsNotGlobal ==
  ASSUME TypeOK, PointerInv, NEW s \in Sessions, is_end[<<s, "audio">>],
         encoder["audio"] = s
  PROVE  mainPc = "null_audio"
  BY DEF PointerInv, PointedFlags, Tracks, Null, Sessions

\* The audio thread: a buffer is captured while mRecording is set, so never for
\* an ended encoder, and the one it holds is pushed once.
LEMMA LateBufferAudio ==
  ASSUME TypeOK, PointerInv, OneInv, LateBuffer, MaxRecorders = 1,
         NEW r \in Recorders, CaptureAudio(r) \/ AudioStep(r)
  PROVE  LateBuffer'
<1>0. r = 1 /\ 1 \in Recorders /\ audioPc \in [Recorders -> AudioPcs]
      /\ audioEncoder \in [Recorders -> Pointers]
  BY OnlyOne DEF TypeOK, CallerOK
<1>1. UNCHANGED <<mainPc, cur, encoder, is_end, pc>>
  BY AudioLeaves
<1>2. CASE CaptureAudio(r)
  <2>1. frame_queue' = frame_queue /\ audioEncoder' = audioEncoder /\ Records(r)
        /\ audioPc' = [audioPc EXCEPT ![r] = "call"] /\ audioPc[r] = "read"
    BY <1>2 DEF CaptureAudio, queueVars
  <2>2. mainPc # "null_audio"
    <3>1. mRecording[1]
      BY <1>0, <2>1 DEF Records
    <3> QED BY <3>1 DEF OneInv, GlobalsFollow, EndPcs
  <2>3. ASSUME NEW s \in Sessions, is_end[<<s, "audio">>] PROVE ~Pending(s)'
    <3>1. encoder["audio"] # s
      BY <2>2, <2>3, EndedIsNotGlobal
    <3> QED BY <1>0, <1>1, <2>1, <3>1 DEF Pending
  <2> QED BY <1>1, <2>1, <2>3, LateBufferKept
<1>3. CASE LoadEncoder(r)
  <2>1. frame_queue' = frame_queue
    BY <1>3 DEF LoadEncoder, queueVars
  <2>2. ASSUME NEW s \in Sessions, Pending(s)' PROVE Pending(s)
    BY <1>0, <1>1, <1>3, <2>2 DEF Pending, LoadEncoder
  <2> QED BY <1>1, <2>1, <2>2, LateBufferKept
<1>4. CASE EndAudioThread(r)
  <2>1. frame_queue' = frame_queue
    BY <1>4 DEF EndAudioThread, queueVars
  <2>2. ASSUME NEW s \in Sessions, Pending(s)' PROVE Pending(s)
    BY <1>0, <1>1, <1>4, <2>2 DEF Pending, EndAudioThread
  <2> QED BY <1>1, <2>1, <2>2, LateBufferKept
<1>5. CASE SendOneFrame(r)
  <2>1. CASE UNCHANGED queueVars
    <3>1. frame_queue' = frame_queue
      BY <2>1 DEF queueVars
    <3>2. ASSUME NEW s \in Sessions, Pending(s)' PROVE Pending(s)
      BY <1>0, <1>1, <1>5, <3>2 DEF Pending, SendOneFrame
    <3> QED BY <1>1, <3>1, <3>2, LateBufferKept
  <2>2. CASE ~ UNCHANGED queueVars
    <3> DEFINE own == <<audioEncoder[1], "audio">>
    <3>1. own \in Encoders /\ \E f \in Frames : Push(own, f)
      BY <1>0, <1>5, <2>2, SendPushes
    <3>2. /\ audioPc[1] = "push"
          /\ audioPc' = [audioPc EXCEPT ![1] = "read"]
      BY <1>0, <1>5, <2>2 DEF SendOneFrame
    <3>3. PICK f \in Frames : frame_queue' = [frame_queue EXCEPT ![own] = Append(@, f)]
      BY <3>1 DEF Push
    <3>4. frame_queue \in [Encoders -> Seq(Frames)]
      BY DEF TypeOK, QueueOK
    <3> SUFFICES ASSUME NEW s \in Sessions, is_end[<<s, "audio">>],
                        pc[<<s, "audio">>] \in AfterLoop
                 PROVE  \/ frame_queue'[<<s, "audio">>] = <<>>
                        \/ Len(frame_queue'[<<s, "audio">>]) = 1 /\ ~Pending(s)'
      BY <1>1 DEF LateBuffer
    <3>5. ~Pending(s)'
      BY <1>0, <3>2 DEF Pending
    <3>6. <<s, "audio">> \in Encoders
      BY DEF Encoders, Tracks
    <3>7. \/ frame_queue[<<s, "audio">>] = <<>>
          \/ Len(frame_queue[<<s, "audio">>]) = 1 /\ ~Pending(s)
      BY DEF LateBuffer
    <3>8. CASE s = audioEncoder[1]
      <4>1. frame_queue[<<s, "audio">>] = <<>>
        BY <3>2, <3>7, <3>8 DEF Pending
      <4>2. frame_queue'[<<s, "audio">>] = Append(<<>>, f)
        BY <3>3, <3>4, <3>6, <3>8, <4>1
      <4>3. Len(Append(<<>>, f)) = 1
        OBVIOUS
      <4> QED BY <3>5, <4>2, <4>3
    <3>9. CASE s # audioEncoder[1]
      <4>1. frame_queue'[<<s, "audio">>] = frame_queue[<<s, "audio">>]
        BY <3>3, <3>4, <3>6, <3>9
      <4> QED BY <3>5, <3>7, <4>1
    <3> QED BY <3>8, <3>9
  <2> QED BY <2>1, <2>2
<1> QED BY <1>2, <1>3, <1>4, <1>5 DEF AudioStep

\* The encoder threads: the loop is left for encodeEnd on an empty queue only.
LEMMA LateBufferEncoder ==
  ASSUME TypeOK, PointerInv, LateBuffer, ~RacyEmpty, NEW e \in Encoders, EncoderStep(e)
  PROVE  LateBuffer'
<1>1. UNCHANGED <<mainPc, cur, encoder, is_end, is_release, audioPc, audioEncoder>>
  BY EncoderLeaves DEF EncoderStep, TestEnd, TestDrained, TestRelease, TakeFrame,
     FlushAndClose, SetState, TryEncodeOver, Mux, Notify, FreeHandler, DeleteEncoder, audioVars
<1>2. \A s \in Sessions : Pending(s)' => Pending(s)
  BY <1>1 DEF Pending
<1> SUFFICES ASSUME NEW s \in Sessions, is_end[<<s, "audio">>], pc'[<<s, "audio">>] \in AfterLoop
             PROVE  \/ frame_queue'[<<s, "audio">>] = <<>>
                    \/ /\ pc[<<s, "audio">>] \in AfterLoop
                       /\ frame_queue'[<<s, "audio">>] = frame_queue[<<s, "audio">>]
  BY <1>1, <1>2, LateBufferKept
<1> DEFINE a == <<s, "audio">>
<1>3. a \in Encoders /\ ~is_release[a]
  BY DEF Encoders, Tracks, PointerInv, OneCleanup
<1> USE DEF TypeOK, ThreadOK, QueueOK, GoTo, AfterLoop, queueVars
<1>4. CASE TestEnd(e)
  BY <1>3, <1>4 DEF TestEnd, AfterTestEnd
<1>5. CASE TestDrained(e)
  BY <1>3, <1>5 DEF TestDrained, EmptyAnswers
<1>6. CASE TestRelease(e)
  BY <1>3, <1>6 DEF TestRelease, AfterTestRelease
<1>7. CASE TakeFrame(e)
  BY <1>3, <1>7 DEF TakeFrame
<1>8. CASE FlushAndClose(e)
  BY <1>3, <1>8 DEF FlushAndClose
<1>9. CASE SetState(e)
  BY <1>3, <1>9 DEF SetState
<1>10. CASE TryEncodeOver(e)
  BY <1>3, <1>10 DEF TryEncodeOver
<1>11. CASE Mux(e) \/ DeleteEncoder(e)
  BY <1>3, <1>11 DEF Mux, DeleteEncoder
<1>12. CASE Notify(e)
  BY <1>3, <1>12 DEF Notify
<1>13. CASE FreeHandler(e)
  BY <1>3, <1>13 DEF FreeHandler
<1> QED BY <1>4, <1>5, <1>6, <1>7, <1>8, <1>9, <1>10, <1>11, <1>12, <1>13 DEF EncoderStep

\* The steps of the main thread: an audio encoder is told to end while its
\* thread is still in the loop, and a new global belongs to a new session.
LEMMA LateBufferMain ==
  ASSUME TypeOK, PointerInv, LateBuffer, MainStep \/ UserStep
  PROVE  LateBuffer'
<1>0. \A s \in Sessions : <<s, "audio">> \in Encoders
  BY DEF Encoders, Tracks
<1>1. CASE UNCHANGED <<is_end, pc>> /\ \A s \in Sessions :
             /\ is_end[<<s, "audio">>] => (Pending(s)' => Pending(s))
             /\ frame_queue'[<<s, "audio">>] = frame_queue[<<s, "audio">>]
  BY <1>1, LateBufferKept
<1>2. CASE EndVideo \/ EndAudio
  <2>1. /\ UNCHANGED <<pc, frame_queue, audioPc, audioEncoder>>
        /\ encoder'["audio"] = encoder["audio"]
    BY <1>2 DEF EndVideo, EndAudio, Nulled, queueVars, audioVars, TypeOK, SessionOK, Tracks
  <2>2. ASSUME NEW s \in Sessions, is_end'[<<s, "audio">>], pc[<<s, "audio">>] \in AfterLoop
        PROVE  is_end[<<s, "audio">>]
    <3>1. CASE encoder["audio"] = s /\ EndAudio
      <4>1. ~is_release[<<s, "audio">>]
        BY <3>1 DEF EndAudio, PointerInv, PointedFlags, Tracks, Null, Sessions
      <4> QED BY <1>0, <2>2, <4>1 DEF PointerInv, Told, AfterLoop, EndedPcs
    <3>2. CASE ~(encoder["audio"] = s /\ EndAudio)
      BY <1>0, <1>2, <2>2, <3>2 DEF EndVideo, EndAudio, Ended, TypeOK, SessionOK
    <3> QED BY <3>1, <3>2
  <2>3. \A s \in Sessions : Pending(s)' => Pending(s)
    BY <2>1 DEF Pending
  <2> QED BY <2>1, <2>2, <2>3, LateBufferKept
<1>3. CASE NullAudio("null_audio", "idle") \/ NullAudio("release_audio", "release_video")
           \/ ReleaseVideo
  <2>1. /\ UNCHANGED <<is_end, pc, frame_queue, audioPc, audioEncoder>>
        /\ encoder'["audio"] \in {encoder["audio"], Null}
    BY <1>3 DEF NullAudio, ReleaseVideo, Nulled, queueVars, audioVars, flagVars, TypeOK,
       SessionOK, Tracks
  <2>2. \A s \in Sessions : Pending(s)' => Pending(s)
    BY <2>1 DEF Pending, Sessions, Null
  <2> QED BY <1>1, <2>1, <2>2
<1>4. CASE InitVideoEncoder \/ InitAudioEncoder
  <2>1. PICK t \in Tracks, done \in MainPcs : InitEncoder(t, done)
    BY <1>4 DEF InitVideoEncoder, InitAudioEncoder, Tracks, MainPcs
  <2>2. /\ \/ pc' = [pc EXCEPT ![<<cur, t>>] = "loop"]
           \/ pc' = [pc EXCEPT ![<<cur, t>>] = "failed"]
        /\ is_end' = is_end \/ is_end' = [is_end EXCEPT ![<<cur, t>>] = FALSE]
        /\ UNCHANGED <<encoder, frame_queue, audioPc, audioEncoder>>
    BY <2>1 DEF InitEncoder, queueVars, audioVars
  <2>3. \A s \in Sessions : is_end'[<<s, "audio">>] /\ pc'[<<s, "audio">>] \in AfterLoop =>
          is_end[<<s, "audio">>] /\ pc[<<s, "audio">>] \in AfterLoop
    BY <1>0, <2>2 DEF TypeOK, ThreadOK, SessionOK, AfterLoop
  <2>4. \A s \in Sessions : Pending(s)' => Pending(s)
    BY <2>2 DEF Pending
  <2> QED BY <2>2, <2>3, <2>4, LateBufferKept
<1>5. CASE FinishStart
  <2>1. /\ UNCHANGED <<is_end, pc, frame_queue, encoder, audioEncoder>>
        /\ audioPc' = [audioPc EXCEPT ![caller] = IF @ = "off" THEN "read" ELSE @]
    BY <1>5 DEF FinishStart, flagVars, queueVars
  <2>2. \A s \in Sessions : Pending(s)' => Pending(s)
    BY <2>1 DEF Pending, TypeOK, CallerOK
  <2> QED BY <1>1, <2>1, <2>2
<1>6. ASSUME NEW r \in Recorders, StartRecord(r) PROVE LateBuffer'
  <2>1. /\ UNCHANGED <<is_end, frame_queue, audioPc, audioEncoder>>
        /\ encoder'["audio"] = cur + 1
    BY <1>6 DEF StartRecord, flagVars, queueVars, audioVars, Tracks
  <2>2. \A e \in Encoders : pc'[e] = IF e[1] = cur + 1 THEN "new" ELSE pc[e]
    BY <1>6 DEF StartRecord
  <2>3. ASSUME NEW s \in Sessions, is_end[<<s, "audio">>] PROVE s # cur + 1
    <3>1. s = cur + 1 => s > cur
      BY SizesAssumption DEF TypeOK, SessionOK, Sessions
    <3>2. ~(s > cur)
      BY <2>3 DEF PointerInv, Unborn, Tracks
    <3> QED BY <3>1, <3>2
  <2>4. ASSUME NEW s \in Sessions, is_end[<<s, "audio">>], Pending(s)' PROVE Pending(s)
    BY <2>1, <2>3, <2>4 DEF Pending
  <2> QED BY <1>0, <2>1, <2>2, <2>3, <2>4, LateBufferKept
<1>7. ASSUME NEW r \in Recorders, PreviewFrame(r) PROVE LateBuffer'
  <2>1. UNCHANGED <<is_end, pc, encoder, audioPc, audioEncoder>>
    BY <1>7 DEF PreviewFrame, flagVars, audioVars
  <2>2. \A s \in Sessions : frame_queue'[<<s, "audio">>] = frame_queue[<<s, "audio">>]
    BY <1>0, <1>7, PreviewPushes DEF Push, queueVars, TypeOK, QueueOK
  <2>3. \A s \in Sessions : Pending(s)' => Pending(s)
    BY <2>1 DEF Pending
  <2> QED BY <1>1, <2>1, <2>2, <2>3
<1>8. CASE UNCHANGED <<is_end, pc, frame_queue, encoder, audioPc, audioEncoder>>
  BY <1>1, <1>8 DEF Pending
<1>9. CASE ReleaseFlag \/ InterruptAudio
  BY <1>8, <1>9 DEF ReleaseFlag, InterruptAudio, flagVars, queueVars, audioVars
<1>10. ASSUME NEW r \in Recorders, ReopenScreen \/ StopRecord(r) \/ Release(r) PROVE LateBuffer'
  BY <1>8, <1>10 DEF ReopenScreen, StopRecord, Release, flagVars, queueVars, audioVars
<1>11. CASE MainStep
  BY <1>2, <1>3, <1>4, <1>5, <1>9, <1>11 DEF MainStep
<1>12. CASE UserStep
  BY <1>6, <1>7, <1>10, <1>12, SizesAssumption DEF UserStep, Recorders
<1> QED BY <1>11, <1>12

\* One audio buffer at most comes too late for the file, when empty() is read
\* as it is written.
THEOREM AtMostOneLateBufferHolds ==
  MaxRecorders = 1 /\ ~RacyEmpty /\ Spec => []AtMostOneLateBuffer
<1> SUFFICES ASSUME MaxRecorders = 1, ~RacyEmpty PROVE Spec => []AtMostOneLateBuffer
  OBVIOUS
<1>1. Init => LateBuffer
  BY InitOneInv
<1>2. TypeOK /\ PointerInv /\ OneInv /\ LateBuffer /\ [Next]_vars => LateBuffer'
  <2> SUFFICES ASSUME TypeOK, PointerInv, OneInv, LateBuffer, [Next]_vars PROVE LateBuffer'
    OBVIOUS
  <2>1. CASE UNCHANGED vars
    BY <2>1 DEF vars, flagVars, queueVars, audioVars, LateBuffer, Pending
  <2> QED BY <2>1, LateBufferMain, LateBufferAudio, LateBufferEncoder DEF Next
<1>3. TypeOK /\ FramesKept /\ LateBuffer => AtMostOneLateBuffer
  <2> SUFFICES ASSUME TypeOK, FramesKept, LateBuffer, NEW s \in Sessions,
                      is_end[<<s, "audio">>], pc[<<s, "audio">>] \in AfterLoop
               PROVE  Len(sent[<<s, "audio">>]) <= Len(encoded[<<s, "audio">>]) + 1
    BY DEF AtMostOneLateBuffer
  <2> DEFINE q == frame_queue[<<s, "audio">>]
             n == encoded[<<s, "audio">>]
  <2>1. /\ <<s, "audio">> \in Encoders
        /\ q \in Seq(Frames) /\ n \in Seq(Frames) /\ sent[<<s, "audio">>] = n \o q
    BY DEF Encoders, Tracks, TypeOK, QueueOK, FramesKept
  <2>2. Len(n \o q) = Len(n) + Len(q)
    BY <2>1, ConcatProperties
  <2>3. Len(q) \in {0, 1}
    BY EmptySeq DEF LateBuffer
  <2>4. Len(n) \in Nat
    BY <2>1, LenProperties
  <2> HIDE DEF q, n
  <2>5. Len(sent[<<s, "audio">>]) <= Len(n) + 1
    BY <2>1, <2>2, <2>3, <2>4
  <2> QED BY <2>5 DEF n
<1> QED BY TypeCorrect, PointersCorrect, OneRecorderCorrect, FramesKeptHolds, <1>1, <1>2, <1>3,
           PTL DEF Spec
=============================================================================
