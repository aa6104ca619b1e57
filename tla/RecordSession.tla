--------------------------- MODULE RecordSession ---------------------------
(***************************************************************************)
(* The recording pipeline: the recorder objects and their audio threads    *)
(* (MediaRecorderNative, AudioRecorder), the JNI entry points with their   *)
(* two global encoder pointers (jx_ffmpeg_jni.cpp), the two encoder        *)
(* threads of a recording (JXYUVEncodeH264, JXPCMEncodeAAC), their frame   *)
(* queues, and the handler that muxes the two files and tells Java         *)
(* (JXJNIHandler, JXMediaMuxer).                                           *)
(*                                                                         *)
(* A session is what one call of prepareJXFFmpegEncoder allocates: a       *)
(* handler, its arguments and two encoders.  A recorder is a               *)
(* MediaRecorderNative with the one MediaObject, hence the one set of      *)
(* output paths, its screen gave it.  The main thread runs every call of   *)
(* the screen and every preview callback, so those calls exclude each      *)
(* other; their steps interleave with the audio and encoder threads.       *)
(* The first access to a null or deleted object stops the process:         *)
(* "fault" names it and no action is enabled after it.                     *)
(***************************************************************************)
EXTENDS Naturals, Sequences

CONSTANTS
  MaxRecorders, \* screens opened in one process
  MaxSessions,  \* recordings started in one process
  MaxFrames,    \* frames captured for one encoder
  Failures,     \* the external calls that may fail
  RacyEmpty     \* may the unlocked empty() miss a push it is not ordered with?

FailureNames == {"init", "flush", "mux", "attach"}

ASSUME SizesAssumption ==
  /\ MaxRecorders \in Nat \ {0}
  /\ MaxSessions \in Nat \ {0}
  /\ MaxFrames \in Nat \ {0}

ASSUME ChoicesAssumption ==
  /\ Failures \subseteq FailureNames
  /\ RacyEmpty \in BOOLEAN

Tracks == {"video", "audio"}
Sessions == 1 .. MaxSessions
Recorders == 1 .. MaxRecorders
Null == 0
Pointers == Sessions \cup {Null}
Encoders == Sessions \X Tracks
Paths == Recorders \X Tracks

EncoderPcs == {"none", "new", "failed", "loop", "drain", "body", "take", "end",
               "set_state", "check", "mux", "notify", "free", "delete", "exit"}
FileStates == {"none", "open", "complete", "truncated"}
MainPcs == {"idle", "init_video", "init_audio", "started", "end_video",
            "end_audio", "null_audio", "release_audio", "release_video",
            "release_flag", "interrupt"}
AudioPcs == {"off", "read", "call", "push", "exit"}
Faults == {"none", "null_video", "null_audio", "freed_video", "freed_audio",
           "freed_handler"}
NoFault == "none"
ZeroSize == 0  \* the serial of a buffer copied before the encoder knew its size
Frames == [by : Recorders, n : Nat]

VARIABLES
  screen,        \* the recorder of the screen in front
  mainPc,        \* where the main thread is in the call it runs
  caller,        \* the recorder that call is for
  mRecording,    \* MediaRecorderBase.mRecording
  audioPc,       \* where each recorder's AudioRecorder thread is
  audioEncoder,  \* the encoder that thread loaded from the global
  interrupted,   \* its interrupt flag
  cur,           \* sessions prepared so far
  rec,           \* the recorder a session was prepared for
  encoder,       \* the globals h264_encoder and aac_encoder
  is_end, is_release, frame_queue,
  unseen,        \* pushes since the encoder thread last held the queue's lock
  sent, encoded, \* histories: frames pushed, frames given to the codec
  pc,            \* where an encoder thread is
  file,          \* the elementary stream file an encoder writes
  owner,         \* the session that last opened (truncated) a path
  state,         \* handler: video_state, audio_state (TRUE is END_STATE)
  handler_freed, \* end_notify has deleted arguments and handler
  media,         \* the session whose clip is at a recorder's media path
  muxed,         \* history: how often a session's muxer was started
  notified,      \* history: how often its completion was reported
  fault

javaVars == <<screen, mRecording>>
mainVars == <<mainPc, caller>>
audioVars == <<audioPc, audioEncoder, interrupted>>
sessionVars == <<cur, rec>>
flagVars == <<is_end, is_release>>
queueVars == <<frame_queue, unseen, sent, encoded>>
handlerVars == <<state, handler_freed>>
resultVars == <<media, muxed, notified>>
vars == <<javaVars, mainVars, audioVars, sessionVars, encoder, flagVars,
          queueVars, pc, file, owner, handlerVars, resultVars, fault>>

Init ==
  /\ screen = 1
  /\ mainPc = "idle" /\ caller = 1
  /\ mRecording = [r \in Recorders |-> FALSE]
  /\ audioPc = [r \in Recorders |-> "off"]
  /\ audioEncoder = [r \in Recorders |-> Null]
  /\ interrupted = [r \in Recorders |-> FALSE]
  /\ cur = 0 /\ rec = [s \in Sessions |-> 1]
  /\ encoder = [t \in Tracks |-> Null]
  /\ is_end = [e \in Encoders |-> FALSE]
  /\ is_release = [e \in Encoders |-> FALSE]
  /\ frame_queue = [e \in Encoders |-> <<>>]
  /\ unseen = [e \in Encoders |-> 0]
  /\ sent = [e \in Encoders |-> <<>>]
  /\ encoded = [e \in Encoders |-> <<>>]
  /\ pc = [e \in Encoders |-> "none"]
  /\ file = [e \in Encoders |-> "none"]
  /\ owner = [p \in Paths |-> Null]
  /\ state = [e \in Encoders |-> FALSE]
  /\ handler_freed = [s \in Sessions |-> FALSE]
  /\ media = [r \in Recorders |-> Null]
  /\ muxed = [s \in Sessions |-> 0]
  /\ notified = [s \in Sessions |-> 0]
  /\ fault = NoFault

MayFail(what) == {TRUE} \cup (IF what \in Failures THEN {FALSE} ELSE {})
-----------------------------------------------------------------------------
(* The queue (threadsafe_queue.cpp).                                       *)

\* push: under the lock, at the tail
Push(e, frame) ==
  /\ frame_queue' = [frame_queue EXCEPT ![e] = Append(@, frame)]
  /\ unseen' = [unseen EXCEPT ![e] = @ + 1]
  /\ sent' = [sent EXCEPT ![e] = Append(@, frame)]
  /\ UNCHANGED encoded

\* the answers empty() can give: it reads the deque without the lock, so with
\* RacyEmpty it may still miss every push made since the reader held the lock
EmptyAnswers(e) ==
  {b \in BOOLEAN : \/ b = (frame_queue[e] = <<>>)
                   \/ b /\ RacyEmpty /\ unseen[e] = Len(frame_queue[e])}
-----------------------------------------------------------------------------
(* The screen and the recorder's calls, all on the main thread.            *)

\* the screen after a recorder's (Twice: it is left two times)
NextScreenTwice(r) == r + 2
NextScreen(r) == r + 1

\* mRecording = false (Kept: not reset)
RecordingOffKept(r) == mRecording
RecordingOff(r) == [mRecording EXCEPT ![r] = FALSE]

\* h264_encoder = NULL, aac_encoder = NULL (Kept: not reset)
NulledKept(t) == encoder
Nulled(t) == [encoder EXCEPT ![t] = Null]

\* user_end of the encoder a global points at (AudioOnly: not for the video)
EndedAudioOnly(t) ==
  IF t = "audio" THEN [is_end EXCEPT ![<<encoder[t], t>>] = TRUE] ELSE is_end
Ended(t) == [is_end EXCEPT ![<<encoder[t], t>>] = TRUE]

\* release of the encoder a global points at
Released(t) == [is_release EXCEPT ![<<encoder[t], t>>] = TRUE]

\* VideoActivity is left and opened again: a new fragment makes a new
\* recorder with a new key; the old recorder is neither stopped nor released
ReopenScreen ==
  /\ fault = NoFault /\ mainPc = "idle" /\ screen < MaxRecorders
  /\ screen' = NextScreen(screen)
  /\ UNCHANGED <<mRecording, mainVars, audioVars, sessionVars, encoder, flagVars,
                 queueVars, pc, file, owner, handlerVars, resultVars, fault>>

\* startRecord up to the two assignments of the globals in
\* prepareJXFFmpegEncoder: a new handler, new arguments, two new encoders
StartRecord(r) ==
  /\ fault = NoFault /\ mainPc = "idle"
  /\ r = screen /\ ~mRecording[r] /\ cur < MaxSessions
  /\ cur' = cur + 1
  /\ rec' = [rec EXCEPT ![cur + 1] = r]
  /\ encoder' = [t \in Tracks |-> cur + 1]
  /\ pc' = [e \in Encoders |-> IF e[1] = cur + 1 THEN "new" ELSE pc[e]]
  /\ mainPc' = "init_video" /\ caller' = r
  /\ UNCHANGED <<javaVars, audioVars, flagVars, queueVars, file, owner,
                 handlerVars, resultVars, fault>>

\* initVideoEncoder, initAudioEncoder: open (and truncate) the output, then
\* write the header and start the thread, or fail before or after the open
InitEncoder(t, done) ==
  LET e == <<cur, t>> IN
  /\ \E ok \in MayFail("init") : \E opened \in {ok, TRUE} :
       /\ pc' = [pc EXCEPT ![e] = IF ok THEN "loop" ELSE "failed"]
       /\ file' = IF opened THEN [file EXCEPT ![e] = "open"] ELSE file
       /\ owner' = IF opened THEN [owner EXCEPT ![<<rec[cur], t>>] = cur]
                             ELSE owner
       /\ is_end' = IF ok THEN [is_end EXCEPT ![e] = FALSE] ELSE is_end
  /\ mainPc' = done
  /\ UNCHANGED <<javaVars, caller, audioVars, sessionVars, encoder, is_release,
                 queueVars, handlerVars, resultVars, fault>>

InitVideoEncoder ==
  /\ fault = NoFault /\ mainPc = "init_video" /\ InitEncoder("video", "init_audio")

InitAudioEncoder ==
  /\ fault = NoFault /\ mainPc = "init_audio" /\ InitEncoder("audio", "started")

\* the rest of startRecord: the result of prepare is not looked at; the audio
\* thread is created once per recorder (and again after a release)
FinishStart ==
  /\ fault = NoFault /\ mainPc = "started"
  /\ audioPc' = [audioPc EXCEPT ![caller] = IF @ = "off" THEN "read" ELSE @]
  /\ mRecording' = [mRecording EXCEPT ![caller] = TRUE]
  /\ mainPc' = "idle"
  /\ UNCHANGED <<screen, caller, audioEncoder, interrupted, sessionVars, encoder,
                 flagVars, queueVars, pc, file, owner, handlerVars, resultVars,
                 fault>>

\* onPreviewFrame and encodeFrame2H264: the global is used as it is
PreviewFrame(r) ==
  /\ fault = NoFault /\ mainPc = "idle" /\ mRecording[r]
  /\ LET s == encoder["video"]
         e == <<s, "video">>
     IN IF s = Null
        THEN fault' = "null_video" /\ UNCHANGED queueVars
        ELSE IF pc[e] = "exit"
        THEN fault' = "freed_video" /\ UNCHANGED queueVars
        ELSE /\ Len(sent[e]) < MaxFrames
             /\ Push(e, [by |-> r, n |-> Len(sent[e]) + 1])
             /\ UNCHANGED fault
  /\ UNCHANGED <<javaVars, mainVars, audioVars, sessionVars, encoder, flagVars,
                 pc, file, owner, handlerVars, resultVars>>

\* stopRecord up to the call of recordEnd
StopRecord(r) ==
  /\ fault = NoFault /\ mainPc = "idle"
  /\ r = screen /\ mRecording[r]
  /\ mRecording' = RecordingOff(r)
  /\ mainPc' = "end_video" /\ caller' = r
  /\ UNCHANGED <<screen, audioVars, sessionVars, encoder, flagVars, queueVars, pc,
                 file, owner, handlerVars, resultVars, fault>>

\* recordEnd, video: user_end and the null; h264_encoder is the main thread's
EndVideo ==
  /\ fault = NoFault /\ mainPc = "end_video"
  /\ IF encoder["video"] = Null THEN UNCHANGED <<is_end, encoder>>
     ELSE /\ is_end' = Ended("video")
          /\ encoder' = Nulled("video")
  /\ mainPc' = "end_audio"
  /\ UNCHANGED <<javaVars, caller, audioVars, sessionVars, is_release, queueVars,
                 pc, file, owner, handlerVars, resultVars, fault>>

\* recordEnd, audio: the audio thread can read the global before it is null
EndAudio ==
  /\ fault = NoFault /\ mainPc = "end_audio"
  /\ IF encoder["audio"] = Null THEN mainPc' = "idle" /\ UNCHANGED is_end
     ELSE /\ is_end' = Ended("audio")
          /\ mainPc' = "null_audio"
  /\ UNCHANGED <<javaVars, caller, audioVars, sessionVars, encoder, is_release,
                 queueVars, pc, file, owner, handlerVars, resultVars, fault>>

\* aac_encoder = NULL, after user_end (recordEnd) or release (nativeRelease)
NullAudio(from, to) ==
  /\ fault = NoFault /\ mainPc = from
  /\ encoder' = Nulled("audio")
  /\ mainPc' = to
  /\ UNCHANGED <<javaVars, caller, audioVars, sessionVars, flagVars, queueVars, pc,
                 file, owner, handlerVars, resultVars, fault>>

\* release: nativeRelease comes first, mRecording and the audio thread last
Release(r) ==
  /\ fault = NoFault /\ mainPc = "idle" /\ r = screen
  /\ caller' = r
  /\ IF encoder["audio"] = Null THEN mainPc' = "release_video" /\ UNCHANGED is_release
     ELSE /\ is_release' = Released("audio")
          /\ mainPc' = "release_audio"
  /\ UNCHANGED <<javaVars, audioVars, sessionVars, encoder, is_end, queueVars, pc,
                 file, owner, handlerVars, resultVars, fault>>

ReleaseVideo ==
  /\ fault = NoFault /\ mainPc = "release_video"
  /\ IF encoder["video"] = Null THEN UNCHANGED <<is_release, encoder>>
     ELSE /\ is_release' = Released("video")
          /\ encoder' = Nulled("video")
  /\ mainPc' = "release_flag"
  /\ UNCHANGED <<javaVars, caller, audioVars, sessionVars, is_end, queueVars, pc,
                 file, owner, handlerVars, resultVars, fault>>

ReleaseFlag ==
  /\ fault = NoFault /\ mainPc = "release_flag"
  /\ mRecording' = RecordingOff(caller)
  /\ mainPc' = "interrupt"
  /\ UNCHANGED <<screen, caller, audioVars, sessionVars, encoder, flagVars,
                 queueVars, pc, file, owner, handlerVars, resultVars, fault>>

\* the audio thread is interrupted and dropped; the screen is given up too
InterruptAudio ==
  /\ fault = NoFault /\ mainPc = "interrupt"
  /\ interrupted' = [interrupted EXCEPT ![caller] = (audioPc[caller] # "off")]
  /\ screen' = NextScreen(caller)
  /\ mainPc' = "idle"
  /\ UNCHANGED <<mRecording, caller, audioPc, audioEncoder, sessionVars, encoder,
                 flagVars, queueVars, pc, file, owner, handlerVars, resultVars,
                 fault>>
-----------------------------------------------------------------------------
(* The audio thread of a recorder (AudioRecorder.run, receiveAudioData).    *)

\* the test in receiveAudioData (Unchecked: none)
RecordsUnchecked(r) == TRUE
Records(r) == mRecording[r]

\* a buffer was read and mRecording found set
CaptureAudio(r) ==
  /\ fault = NoFault /\ audioPc[r] = "read" /\ Records(r)
  /\ \A s \in Sessions : Len(sent[<<s, "audio">>]) < MaxFrames
  /\ audioPc' = [audioPc EXCEPT ![r] = "call"]
  /\ UNCHANGED <<javaVars, mainVars, audioEncoder, interrupted, sessionVars,
                 encoder, flagVars, queueVars, pc, file, owner, handlerVars,
                 resultVars, fault>>

\* encodeFrame2AAC loads the global, whatever it is by now
LoadEncoder(r) ==
  /\ fault = NoFault /\ audioPc[r] = "call"
  /\ IF encoder["audio"] = Null
     THEN fault' = "null_audio" /\ UNCHANGED <<audioPc, audioEncoder>>
     ELSE /\ audioPc' = [audioPc EXCEPT ![r] = "push"]
          /\ audioEncoder' = [audioEncoder EXCEPT ![r] = encoder["audio"]]
          /\ UNCHANGED fault
  /\ UNCHANGED <<javaVars, mainVars, interrupted, sessionVars, encoder, flagVars,
                 queueVars, pc, file, owner, handlerVars, resultVars>>

\* sendOneFrame: copies as many bytes as the encoder says, 0 before its init
SendOneFrame(r) ==
  /\ fault = NoFault /\ audioPc[r] = "push"
  /\ LET e == <<audioEncoder[r], "audio">>
         serial == IF pc[e] \in {"new", "failed"} THEN ZeroSize
                                                  ELSE Len(sent[e]) + 1
     IN IF pc[e] = "exit"
        THEN fault' = "freed_audio" /\ UNCHANGED <<audioPc, audioEncoder, queueVars>>
        ELSE /\ Push(e, [by |-> r, n |-> serial])
             /\ audioPc' = [audioPc EXCEPT ![r] = "read"]
             /\ audioEncoder' = [audioEncoder EXCEPT ![r] = Null]
             /\ UNCHANGED fault
  /\ UNCHANGED <<javaVars, mainVars, interrupted, sessionVars, encoder, flagVars,
                 pc, file, owner, handlerVars, resultVars>>

\* the loop of run ends on an interrupt
EndAudioThread(r) ==
  /\ fault = NoFault /\ audioPc[r] = "read" /\ interrupted[r]
  /\ audioPc' = [audioPc EXCEPT ![r] = "exit"]
  /\ UNCHANGED <<javaVars, mainVars, audioEncoder, interrupted, sessionVars, encoder,
                 flagVars, queueVars, pc, file, owner, handlerVars, resultVars,
                 fault>>
-----------------------------------------------------------------------------
(* The thread of an encoder (startEncode): the two reads of the loop test,  *)
(* the release test, then at most one frame.                                *)

GoTo(e, from, to) == pc[e] = from /\ pc' = [pc EXCEPT ![e] = to]

\* while (!is_end || ... (Undrained: && for ||)
AfterTestEndUndrained(e) == IF is_end[e] THEN "end" ELSE "body"
AfterTestEnd(e) == IF is_end[e] THEN "drain" ELSE "body"

TestEnd(e) ==
  /\ fault = NoFault
  /\ GoTo(e, "loop", AfterTestEnd(e))
  /\ UNCHANGED <<javaVars, mainVars, audioVars, sessionVars, encoder, flagVars,
                 queueVars, file, owner, handlerVars, resultVars, fault>>

\* ... || !frame_queue.empty())
TestDrained(e) ==
  /\ fault = NoFault
  /\ \E empty \in EmptyAnswers(e) : GoTo(e, "drain", IF empty THEN "end" ELSE "body")
  /\ UNCHANGED <<javaVars, mainVars, audioVars, sessionVars, encoder, flagVars,
                 queueVars, file, owner, handlerVars, resultVars, fault>>

\* what is_release leads to (AsEnd: to encodeEnd; Ignored: to nothing)
AfterTestReleaseAsEnd(e) == IF is_release[e] THEN "end" ELSE "take"
AfterTestReleaseIgnored(e) == "take"
AfterTestRelease(e) == IF is_release[e] THEN "exit" ELSE "take"

\* is_release: close the file (only the video writes its trailer), delete
TestRelease(e) ==
  /\ fault = NoFault
  /\ GoTo(e, "body", AfterTestRelease(e))
  /\ file' = IF is_release[e]
             THEN [file EXCEPT ![e] = IF e[2] = "video" THEN "complete" ELSE "truncated"]
             ELSE file
  /\ UNCHANGED <<javaVars, mainVars, audioVars, sessionVars, encoder, flagVars,
                 queueVars, owner, handlerVars, resultVars, fault>>

\* no frame: back to the loop test; else pop and encode it (an encode error is
\* logged and the frame is consumed all the same)
TakeFrame(e) ==
  /\ fault = NoFault /\ GoTo(e, "take", "loop")
  /\ \E empty \in EmptyAnswers(e) :
       IF empty THEN UNCHANGED queueVars
       ELSE /\ frame_queue' = [frame_queue EXCEPT ![e] = Tail(@)]
            /\ unseen' = [unseen EXCEPT ![e] = 0]
            /\ encoded' = [encoded EXCEPT ![e] = Append(@, Head(frame_queue[e]))]
            /\ UNCHANGED sent
  /\ UNCHANGED <<javaVars, mainVars, audioVars, sessionVars, encoder, flagVars,
                 file, owner, handlerVars, resultVars, fault>>

\* encodeEnd up to the close: a failed flush leaves the file open
FlushAndClose(e) ==
  /\ fault = NoFault
  /\ \E ok \in MayFail("flush") :
       /\ GoTo(e, "end", IF ok THEN "set_state" ELSE "delete")
       /\ file' = IF ok THEN [file EXCEPT ![e] = "complete"] ELSE file
  /\ UNCHANGED <<javaVars, mainVars, audioVars, sessionVars, encoder, flagVars,
                 queueVars, owner, handlerVars, resultVars, fault>>

\* setup_video_state(END_STATE), setup_audio_state(END_STATE)
SetState(e) ==
  /\ fault = NoFault
  /\ IF handler_freed[e[1]]
     THEN fault' = "freed_handler" /\ UNCHANGED <<pc, state>>
     ELSE /\ GoTo(e, "set_state", "check")
          /\ state' = [state EXCEPT ![e] = TRUE]
          /\ UNCHANGED fault
  /\ pc[e] = "set_state"
  /\ UNCHANGED <<javaVars, mainVars, audioVars, sessionVars, encoder, flagVars,
                 queueVars, file, owner, handler_freed, resultVars>>

\* audio_state == END_STATE && video_state == END_STATE (OneIsEnough: || for &&;
\* OtherGone: start the muxer only once the other thread is gone)
BothEndedOneIsEnough(s) == \E t \in Tracks : state[<<s, t>>]
BothEndedOtherGone(s) ==
  /\ \A t \in Tracks : state[<<s, t>>]
  /\ \E t \in Tracks : pc[<<s, t>>] = "exit"
BothEnded(s) == \A t \in Tracks : state[<<s, t>>]

\* try_encode_over: the thread that finds both tracks ended starts the muxer
TryEncodeOver(e) ==
  /\ fault = NoFault /\ pc[e] = "check"
  /\ IF handler_freed[e[1]]
     THEN fault' = "freed_handler" /\ UNCHANGED <<pc, muxed>>
     ELSE /\ pc' = [pc EXCEPT ![e] = IF BothEnded(e[1]) THEN "mux" ELSE "delete"]
          /\ muxed' = IF BothEnded(e[1]) THEN [muxed EXCEPT ![e[1]] = @ + 1] ELSE muxed
          /\ UNCHANGED fault
  /\ UNCHANGED <<javaVars, mainVars, audioVars, sessionVars, encoder, flagVars,
                 queueVars, file, owner, handlerVars, media, notified>>

OwnFiles(s) ==
  \A t \in Tracks : owner[<<rec[s], t>>] = s /\ file[<<s, t>>] = "complete"

\* start_muxer, which reads the paths of the arguments and does not look at the
\* result of startMuxer: the command fails on missing or foreign input and, given
\* no -y, on an output that exists
Mux(e) ==
  /\ fault = NoFault /\ pc[e] = "mux"
  /\ IF handler_freed[e[1]]
     THEN fault' = "freed_handler" /\ UNCHANGED <<pc, media>>
     ELSE /\ pc' = [pc EXCEPT ![e] = "notify"]
          /\ LET s == e[1]
                 possible == OwnFiles(s) /\ media[rec[s]] = Null
             IN \E ok \in MayFail("mux") :
                  media' = IF ok /\ possible THEN [media EXCEPT ![rec[s]] = s] ELSE media
          /\ UNCHANGED fault
  /\ UNCHANGED <<javaVars, mainVars, audioVars, sessionVars, encoder, flagVars,
                 queueVars, file, owner, handlerVars, muxed, notified>>

\* end_notify up to the deletes: without the thread attached it just returns
Notify(e) ==
  /\ fault = NoFault /\ pc[e] = "notify"
  /\ IF handler_freed[e[1]]
     THEN fault' = "freed_handler" /\ UNCHANGED <<pc, notified>>
     ELSE /\ UNCHANGED fault
          /\ \E attached \in MayFail("attach") :
               /\ pc' = [pc EXCEPT ![e] = IF attached THEN "free" ELSE "delete"]
               /\ notified' = IF attached THEN [notified EXCEPT ![e[1]] = @ + 1]
                                          ELSE notified
  /\ UNCHANGED <<javaVars, mainVars, audioVars, sessionVars, encoder, flagVars,
                 queueVars, file, owner, handlerVars, media, muxed>>

\* delete (arguments); delete (this)
FreeHandler(e) ==
  /\ fault = NoFault /\ pc[e] = "free"
  /\ IF handler_freed[e[1]]
     THEN fault' = "freed_handler" /\ UNCHANGED <<pc, handler_freed>>
     ELSE /\ pc' = [pc EXCEPT ![e] = "delete"]
          /\ handler_freed' = [handler_freed EXCEPT ![e[1]] = TRUE]
          /\ UNCHANGED fault
  /\ UNCHANGED <<javaVars, mainVars, audioVars, sessionVars, encoder, flagVars,
                 queueVars, file, owner, state, resultVars>>

\* delete h264_encoder, delete aac_encoder: the end of the thread
DeleteEncoder(e) ==
  /\ fault = NoFault /\ GoTo(e, "delete", "exit")
  /\ UNCHANGED <<javaVars, mainVars, audioVars, sessionVars, encoder, flagVars,
                 queueVars, file, owner, handlerVars, resultVars, fault>>
-----------------------------------------------------------------------------
MainStep ==
  \/ InitVideoEncoder \/ InitAudioEncoder \/ FinishStart
  \/ EndVideo \/ EndAudio \/ NullAudio("null_audio", "idle")
  \/ NullAudio("release_audio", "release_video")
  \/ ReleaseVideo \/ ReleaseFlag \/ InterruptAudio

UserStep ==
  \/ ReopenScreen
  \/ \E r \in Recorders : StartRecord(r) \/ PreviewFrame(r) \/ StopRecord(r) \/ Release(r)

AudioStep(r) == LoadEncoder(r) \/ SendOneFrame(r) \/ EndAudioThread(r)

EncoderStep(e) ==
  \/ TestEnd(e) \/ TestDrained(e) \/ TestRelease(e) \/ TakeFrame(e)
  \/ FlushAndClose(e) \/ SetState(e) \/ TryEncodeOver(e) \/ Mux(e) \/ Notify(e)
  \/ FreeHandler(e) \/ DeleteEncoder(e)

Next ==
  \/ MainStep
  \/ UserStep
  \/ \E r \in Recorders : CaptureAudio(r) \/ AudioStep(r)
  \/ \E e \in Encoders : EncoderStep(e)

\* a call the main thread has begun goes on and started threads are scheduled;
\* nothing makes the user press, the camera deliver or the microphone read
Fairness ==
  /\ WF_vars(MainStep)
  /\ \A r \in Recorders : WF_vars(AudioStep(r))
  /\ \A e \in Encoders : WF_vars(EncoderStep(e))

Spec == Init /\ [][Next]_vars
FairSpec == Spec /\ Fairness
-----------------------------------------------------------------------------
(* Properties.                                                             *)

\* the parts of the type invariant
CallerOK ==
  /\ screen \in 1 .. MaxRecorders + 1
  /\ mainPc \in MainPcs /\ caller \in Recorders
  /\ mRecording \in [Recorders -> BOOLEAN]
  /\ audioPc \in [Recorders -> AudioPcs]
  /\ audioEncoder \in [Recorders -> Pointers]
  /\ interrupted \in [Recorders -> BOOLEAN]
SessionOK ==
  /\ cur \in 0 .. MaxSessions /\ rec \in [Sessions -> Recorders]
  /\ encoder \in [Tracks -> Pointers]
  /\ is_end \in [Encoders -> BOOLEAN] /\ is_release \in [Encoders -> BOOLEAN]
QueueOK ==
  /\ frame_queue \in [Encoders -> Seq(Frames)] /\ unseen \in [Encoders -> Nat]
  /\ sent \in [Encoders -> Seq(Frames)] /\ encoded \in [Encoders -> Seq(Frames)]
ThreadOK ==
  /\ pc \in [Encoders -> EncoderPcs] /\ file \in [Encoders -> FileStates]
  /\ owner \in [Paths -> Pointers]
ResultOK ==
  /\ state \in [Encoders -> BOOLEAN] /\ handler_freed \in [Sessions -> BOOLEAN]
  /\ media \in [Recorders -> Pointers]
  /\ muxed \in [Sessions -> Nat] /\ notified \in [Sessions -> Nat]
  /\ fault \in Faults
\* Every variable stays in its range: pointers name sessions that exist or are
\* null, queues and histories hold captured frames.
TypeOK == CallerOK /\ SessionOK /\ QueueOK /\ ThreadOK /\ ResultOK

AfterLoop == {"end", "set_state", "check", "mux", "notify", "free", "delete", "exit"}
AfterCheck == {"mux", "notify", "free", "delete", "exit"}

\* startEncode leaves its loop for encodeEnd only when every preview frame ever
\* pushed to the video queue has been given to the codec: the loop test reads
\* is_end before empty(), and no frame is pushed once user_end was called.
VideoFullyEncoded ==
  \A s \in Sessions :
    LET e == <<s, "video">> IN
    is_end[e] /\ pc[e] \in AfterLoop => encoded[e] = sent[e]

\* With one recorder, the audio thread's check of mRecording lets at most one
\* buffer reach an audio encoder that has already seen its queue empty.
AtMostOneLateBuffer ==
  \A s \in Sessions :
    LET e == <<s, "audio">> IN
    is_end[e] /\ pc[e] \in AfterLoop => Len(sent[e]) <= Len(encoded[e]) + 1

\* The muxer is started (try_encode_over) only on two files that both have
\* their trailer and are closed, the video holding every captured frame.
MuxInputsComplete ==
  \A e \in Encoders : pc[e] = "mux" =>
    /\ \A t \in Tracks : file[<<e[1], t>>] = "complete"
    /\ encoded[<<e[1], "video">>] = sent[<<e[1], "video">>]

\* Whichever encoder thread finishes last starts the muxer: the two threads
\* cannot both leave try_encode_over with the other one's state still unset.
LastOneMuxes ==
  \A s \in Sessions :
    (\A t \in Tracks : state[<<s, t>>] /\ pc[<<s, t>>] \in AfterCheck) => muxed[s] > 0

\* recordEnd and nativeRelease never reach the same encoder: each nulls the
\* global it used, so an encoder is closed along exactly one of the two paths.
OneCleanup == \A e \in Encoders : ~(is_end[e] /\ is_release[e])

\* A recording given up by nativeRelease is neither muxed nor reported.
ReleasedNeverMuxed ==
  \A e \in Encoders : is_release[e] => muxed[e[1]] = 0 /\ notified[e[1]] = 0

\* With one recorder, an encoder thread that was neither ended nor released is
\* the one its global points at: no thread is left that nothing can stop.
NoOrphanEncoder ==
  \A e \in Encoders :
    pc[e] \notin {"none", "failed"} /\ ~is_end[e] /\ ~is_release[e] =>
      encoder[e[2]] = e[1]

\* A global encoder pointer never outlives its encoder, except for the audio's
\* between user_end (or release) and the assignment of NULL after it.
NoDanglingGlobal ==
  \A t \in Tracks :
    encoder[t] # Null /\ pc[<<encoder[t], t>>] = "exit" =>
      t = "audio" /\ mainPc \in {"null_audio", "release_audio"}

\* With one recorder a preview frame never meets a null or deleted encoder:
\* mRecording and h264_encoder both belong to the main thread.
VideoNeverFaults == fault \notin {"null_video", "freed_video"}

\* A session both of whose encoders were ended by the user is in the end
\* reported to Java, unless a wrong access has stopped the process.
EndedIsReported ==
  \A s \in Sessions :
    (\A t \in Tracks : is_end[<<s, t>>]) ~> (notified[s] > 0 \/ fault # NoFault)

\* An encoder told to end or to release finishes and is deleted, whatever
\* external call fails, unless a wrong access has stopped the process.
ToldThreadsExit ==
  \A e \in Encoders :
    (is_end[e] \/ is_release[e]) ~> (pc[e] \in {"exit", "failed"} \/ fault # NoFault)

\* FFmpegBridge: ALL_RECORD_END says "recording ended and the transcoded save is
\* complete": when it is reported the clip of that session is on disk.
ReportedIsSaved ==
  \A s \in Sessions : notified[s] > 0 => media[rec[s]] = s

\* try_encode_over: "check whether video and audio are both complete, and if so
\* start muxing": a completed session is muxed by one thread.
MuxedOnce == \A s \in Sessions : muxed[s] <= 1
-----------------------------------------------------------------------------
(* The pipeline implements RecordingJob.                                   *)

Phase(s) ==
  IF notified[s] > 0 THEN "reported"
  ELSE IF muxed[s] > 0 THEN "muxing"
  ELSE IF is_end[<<s, "video">>] THEN "ended"
  ELSE IF is_release[<<s, "video">>] THEN "given_up"
  ELSE IF s <= cur THEN "recording" ELSE "none"

Job == INSTANCE RecordingJob WITH
  Jobs <- Sessions,
  phase <- [s \in Sessions |-> Phase(s)],
  captured <- [s \in Sessions |-> Len(sent[<<s, "video">>])],
  clip <- [s \in Sessions |-> IF muxed[s] > 0 THEN Len(encoded[<<s, "video">>]) ELSE 0],
  stopped <- fault # NoFault

\* A recording's clip is made of every frame captured for it, after it ended
\* and before its completion is reported, and a released one yields nothing.
ImplementsJob == Job!Spec
=============================================================================
