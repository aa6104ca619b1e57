# EnjoyTV: verification of its core

EnjoyTV is an Android application for live television and short videos. Its
core is asynchronous: a **recorder** that encodes camera frames and microphone
buffers on native threads and muxes them with an in-process ffmpeg, and a
**player** that keeps a native ijkplayer in step with surfaces, gestures,
messages and the activity's life cycle. These TLA+ modules model that core, TLC
checks them on small instances, and TLAPS proves their safety properties for
every size. Around that core stand the ffmpeg command that muxes a recording, the
camera behind the recorder's screen, and the screen that finds the device's position.

Paths below are relative to `src/app/src/main/`; `java/` stands for
`java/com/fuj/enjoytv/`.

## 1. Inventory

| component | state it keeps | operations | with whom it interacts |
|---|---|---|---|
| recorder (`java/camera/MediaRecorderNative`, `MediaRecorderBase`, `AudioRecorder`) | `mRecording`, the audio thread, the current part | start, stop, release, preview callback, audio callback | JNI bridge (calls), screen (calls), camera and microphone (callbacks) |
| JNI bridge (`cpp/jx_ffmpeg_jni.cpp`) | two global encoder pointers | prepare, encode a frame, recordEnd, nativeRelease | encoders (flags, queues) |
| encoders (`cpp/jx_yuv_encode_h264.cpp`, `jx_pcm_encode_aac.cpp`, `threadsafe_queue.cpp`) | `is_end`, `is_release`, frame queue, output file | init, the thread's loop, flush, close, delete | handler (states), main and audio threads (flags, pushes) |
| handler and muxer (`cpp/jx_jni_handler.cpp`, `jx_media_muxer.cpp`) | one end state per track | set state, test both, mux, notify, delete itself | ffmpeg command, Java listeners |
| video view (`java/video/IjkVideoView` and its render views) | current and target state, pending seek, picture and surface sizes, surface holder, the player | set address, start, pause, seek, stop, release, set render view; surface and player callbacks | native player (calls, messages), window system (callbacks) |
| player screen (`java/video/PlayerView`, `TVPlayFragment`, `NowPlayFragment`) | status, address, position, background state, prompts, panel, handler messages | clicks, gestures, life cycle, handler messages, status change | video view (calls, listener), network state |
| camera preview (`java/camera/MediaRecorderBase`) and the recorder's screen (`java/activity/video/VideoFragment`) | camera, torch, surface, prepared and previewing flags; check mark and buttons | prepare, surface callbacks, switch camera, torch, start and stop preview; the screen's clicks and life cycle | camera service, recorder |
| media parts (`java/camera/MediaObject`) | list of parts, current part | build, close | recorder, screen |
| position screen (`java/activity/simulation_loc/SimulationLocPresenter`) | own position, tasks of one worker thread, location client, messages | locate, locate again, show, destroy | location service (callbacks), worker thread, handler |
| state listeners (`java/camera/FFmpegBridge`) | a static list of listeners | register, unregister, notify | encoder threads (notify), main thread (edit) |
| ffmpeg command (`cpp/jx_ffmpeg_cmd_run.c`, `ffmpeg.c`, `ffmpeg_opt.c`, `cmdutils.c`) | the globals of the ffmpeg program | run a command, clean up, reset | muxer, thumbnails; reader threads per input |
| crop filter (`cpp/jx_yuv_encode_h264.cpp`, `custom_filter`) | none | crop, rotate, mirror a frame | video encoder |
| QR scanner, widgets, base classes, adapters, models, utilities | views and static helpers | display | not modelled, reasons in `PROJECT.json` |

What is hard here: the main, audio and two encoder threads of a recording share
plain fields and pointers without locks; a second recording can start while the
first is still muxing; release, stop and start reach the encoders through the
same globals; external calls fail and their results are dropped. In the player
everything runs on one thread, but in any order: messages of the native player,
surfaces that come and go, delayed runnables, the life cycle and the user's
clicks interleave, and intentions (a pending seek, a target state, a consent)
must survive until somebody can act on them. The ffmpeg command is a program made
into a function: its reader threads, queues and clean-up run inside the
application, and what ended a process before now returns into it. The position
screen shares its client and its result between two threads without a lock. `PROJECT.json` lists these hazards
line by line, each with the properties that watch it, or with a note when the
code simply does not prevent it.

## 2. Plan

Order: the behaviour that loses or damages the user's data first.

| step | modules | state |
|---|---|---|
| 1 | `RecordSession` with the abstract `RecordingJob`; `RecordSessionProofs`, `RecordEndProofs`, `OneRecorderProofs` | done: every safety invariant and the safety half of the refinement proved, and the safety core of both liveness properties |
| 2 | `VideoView`; `VideoViewProofs` | done: every invariant proved, and the safety core of `WishIsServed` |
| 3 | `PlayerScreen`, which composes `VideoView` with the controls and the activity; `PlayerScreenProofs`, on the method lemmas of `VideoViewProofs` | done: every invariant proved, and that a screen that is to play is on its way to |
| 4 | `FfmpegCommand` with the threads of its inputs, and the abstract `SequentialCommand`; `FfmpegCommandProofs` | done for the command the muxer issues; every invariant, the refinement and the safety core of `CommandEnds` proved |
| 5 | `CameraPreview` with the recorder's screen and the media parts; `CameraPreviewProofs` | done: every invariant proved |
| 6 | `LocationScreen`; `LocationScreenProofs` | done: every invariant proved, and the safety core of `RequestShown` |
| 7 | the list of listeners in `FFmpegBridge` | open: the model would only show the exception its hazard names |
| 8 | the crop filter as functions against a reference definition | open: pure index arithmetic without concurrency |
| 9 | the thumbnail command and the camera manager of the QR scanner | open |

Modules stay apart where the code keeps its parts apart. `RecordSession` starts the
muxer and takes it to return in the end, successfully or not; what happens inside is
`FfmpegCommand`, whose `CommandEnds` is what justifies the first. They differ in one
outcome, which the first leaves out: a command whose input is missing or whose output
exists does not return an error but runs on into freed memory (`OpenFails`).
`CameraPreview` and `RecordSession` both model the recorder's screen, one for the
camera and one for the encoders; they share only the recording flag.

## 3. RecordSession

One *session* is what a call of `prepareJXFFmpegEncoder` allocates: handler,
arguments, two encoders. One *recorder* is a `MediaRecorderNative` with the
output paths of its screen.

| state | code |
|---|---|
| `mRecording`, `screen` | `MediaRecorderBase.mRecording`; which fragment is in front |
| `mainPc`, `caller` | where the main thread is inside the call it runs |
| `audioPc`, `audioEncoder`, `interrupted` | the `AudioRecorder` thread, the pointer it has loaded |
| `encoder` | the globals `h264_encoder`, `aac_encoder` |
| `is_end`, `is_release`, `frame_queue` | the encoder's flags and queue |
| `pc`, `file`, `owner` | where an encoder thread is; what became of its file; who truncated a path last |
| `state`, `handler_freed` | `video_state`, `audio_state`; the handler was deleted |
| `sent`, `encoded`, `muxed`, `notified` | histories the properties compare |

Calls of the main thread that encoder or audio threads can observe half done are
split at those points (`StopRecord`, `EndVideo`, `EndAudio`, `NullAudio`; the
release the other way round). The loop test `while (!is_end || !frame_queue.empty())`
is two steps, since the flag and the queue are read one after the other, and so
are the two states in the handler. The first use of a null or deleted object
stops the process (`fault`): nothing is claimed of what undefined behaviour does
next.

`RecordingJob` is the promise: while recording, frames are captured; an ended
recording's clip is made of all of them, then its completion is reported; a
recording that is given up yields neither. `ImplementsJob` maps `muxed`,
`notified` and the flags to its phases.

Abstractions. Frames are numbers; codec settings, time stamps and pixels are left
out; an encode error is only logged by the code and consumes the frame. Flags are
plain ints read from memory in program order; `RacyEmpty` adds what a data race
on the deque may return in `empty()`: a push not ordered with the reader may be
missed. `Failures` names the external calls that may fail: an encoder's init, its
flush, the mux command, attaching the thread to the VM. A muxer that finds its arguments freed, by the other
thread of a doubly muxed recording, reads freed memory (`fault`). `release()` is a public
call which the screens do not make; it is modelled as leaving the screen. An
audio thread whose microphone cannot be opened never captures.

## 4. VideoView and PlayerScreen

`VideoView` is `IjkVideoView` as one record, `video`, and one operator from view
to view per method and callback, so that a caller can chain methods within one
step of its own, as `PlayerView` does on the main thread. `Spec` drives it with
the most general client. `PlayerScreen` extends it with `PlayerView`, the handler's
messages, the network and the activity, and is the client the application
really has.

| state | code |
|---|---|
| `current`, `target`, `seek`, `uri` | `mCurrentState`, `mTargetState`, `mSeekWhenPrepared`, `mUri` |
| `width`, `surfaceWidth` | `mVideoWidth/Height`, `mSurfaceWidth/Height` |
| `kind`, `holder` | class of `mRenderView`; whose surface `mSurfaceHolder` is |
| `phase`, `source`, `size`, `at`, `display`, `inbox` | the native player and its messages not yet delivered |
| `surface`, `shown`, `fixed` | the render view's surface and its size, told and asked for |
| `status`, `currentUrl`, `currentPosition`, `bgState`, ... | the fields of `PlayerView` of that name |
| `ticks`, `seekPosted`, `restartPosted`, `autoPosted`, `revealsPosted` | messages and runnables in the handler |
| `netTie`, `replay`, `playIcon` | the prompts and the middle play button that are visible |
| `network` | what `NetworkUtils.getNetworkType` returns |
| `wish`, `playedOn` | histories: what the user last asked for; the network `startPlay` read when it last started the view |

External parts, modelled from how the code uses them. The native player posts its
messages to the main looper in order, and `reset` and `release` drop those not
delivered; it plays exactly while started; a source has at most one picture size
and tells it once; `setDataSource` may fail. Of its informational messages those
count that `statusChange` distinguishes: 1 ("unknown"), 3 and 702 ("rendering"),
701 ("buffering"). Completion and errors reach the video view alone, because
`PlayerView` only sets the info listener. Surfaces are created and resized while
the activity is resumed or paused, and destroyed once it is stopped.

`getNetworkType` answers 4, 5 or 6 for 2G, 3G and 4G, 2 or 3 for cable and wifi, 0 or 1
without a connection, and -1 for what its table does not list (TD-SCDMA, 5G);
`startPlay` prompts for 4, 5 and 6 alone. The network may change at any time and nobody is
told: it is read where `startPlay` reads it. `NothingPlaysUnasked` therefore speaks of the
network read, `playedOn`, and not of the one the player uses. What plays was let through
by a `startPlay` that did not prompt, and before the user consented by one that read none
of 4, 5, 6. That is less than the comment at `PlayerView.java:750`, a prompt for
2/3/4/5G, asks for, and section 8 says where they part.

Both screens configure the player the same way, and so does the model: no charge
limit, touch allowed, third-party library present. The restart message does what the
replay button does, and is one action with it; the code never posts it (see
`screen_reconnect`). Volume, brightness, orientation and layout are left out.

## 5. FfmpegCommand, CameraPreview, LocationScreen

### FfmpegCommand

`ffmpeg -i video -i audio -c copy clip`, as `jxRun` runs it: one reader thread per
input, each with a message queue to the thread that runs the command.

| state | code |
|---|---|
| `pc`, `cur`, `runs` | where `transcode` and `free_input_threads` are, and for which input; commands begun |
| `reader`, `nread` | where each `input_thread` is; packets it has read |
| `fifo`, `err_send`, `err_recv`, `alive` | `AVThreadMessageQueue` of each input, and whether it is allocated |
| `asleep` | threads inside `pthread_cond_wait`; who is not woken stays there |
| `finished`, `main_return_code` | `ost->finished`, the return code, which no command resets |
| `length`, `key` | the input: its packets and its first key packet |
| `taken`, `written`, `failed`, `trailer` | histories |

A wait is a step of its own, so a signal that comes too early is lost as in the code;
`queue_send`, `queue_recv` and the two `set_err` functions hold the queue's lock and
are one step each. `CopyPacket` is the whole of `process_input` and `write_packet`
for a copied stream. Packets carry their number; the time of a packet is its number
times the input's `Period`. Inputs are local files, so a queue never answers
EAGAIN. Left out, because this command does not reach them: the size and
frame limits of `need_output`, decoders, filters and
encoders, seeking and loops, option parsing, correction of time stamps.

`SequentialCommand` is the promise: the same copy made by one thread, which reads the
file of the chosen stream itself, as `get_input_packet` does when there are no reader
threads. It has no queue, no reader and nothing to stop or join. `CopiesAsOneThread` maps
its phase to `pc` and every other variable to the one of its name, so whatever the
threads do, the packets written, the return code and the trailer are those of a copy
without threads.

### CameraPreview

`VideoFragment` with the camera of its `MediaRecorderBase`; all on the main thread.

| state | code |
|---|---|
| `rec.mPrepared`, `mSurfaceHolder`, `mStartPreview`, `mCameraId`, `mParameters` | the fields of that name |
| `rec.camera`, `running`, `torch` | the open camera, its preview and its lamp |
| `rec.failed`, `rec.lost` | histories: the last start failed; a camera was opened over another |
| `held` | cameras open in the process that nobody will release |
| `ui` | check mark of the lamp, enabled buttons, `isRunning` |
| `parts` | `MediaObject.mMediaList` |
| `honest` | history: since the camera was last chosen nothing parted lamp and check mark |

A surface comes while the fragment is resumed and goes while it is paused. Every
camera call may fail: opening, starting, releasing, setting the lamp, and making the
output directory, without which there is no `MediaObject`. Sizes, frame rates, focus
and zoom are left out. The lamp of a camera that
could not be released is not followed.

### LocationScreen

| state | code |
|---|---|
| `located`, `started` | `mSelfLatLng` is set, `mLocClient` is started |
| `queue`, `worker` | tasks of the single-thread executor; where the running one is |
| `messages` | `MESSAGE_REFRESH` in the main queue |
| `requests`, `shown`, `overlapped`, `overtaken` | histories |

The worker's task is four steps (take, find the position, announce it, stop the
client), and any click, fix or message can fall between them. The map, the markers
and the hook that fakes the position for other applications read none of this state
and are left out.

## 6. Runs

| run | instance | shows |
|---|---|---|
| `record_one` | 1 recorder, 1 session, 2 frames a track, every failure; 111,429 states | all safety invariants of the pipeline and `ToldThreadsExit` |
| `record_job` | 2 screens one after the other, 1 session, 2 frames, no failures; 211,310 states | the pipeline implements `RecordingJob`, liveness included; an ended recording is reported |
| `view_all` | 1 address, 2 sizes, 1 position beside the start; 119,828 states | every property of the video view, under any client |
| `screen_live` | live, 2 streams, the network changes between 4G and one that is not listed; 6.3 million states | types; nothing plays on after `onDestroy`; nothing plays that no `startPlay` let through |
| `screen_video` | video, 2 streams, 4G; 7.5 million states | a pause lasts, a shown panel's progress goes on |
| `command` | 2 inputs of up to 3 packets, queues of 2, 2 commands one after the other, every failure; 271,674 states | no lost wake-up, queues outlive their threads, the copy is the one a single thread would make (`SequentialCommand`), complete and interleaved, every command ends |
| `location` | 5 requests; 3,683 states | who waits has a client, no client without a task, when the screen crashes, requests are shown |
| `camera` | 2 screens, 2 recordings each, every failure; 16,463 states | no camera opened over another, preview runs when it can, check mark shows the lamp, one camera a recording |
| `record_muxed` | violation | both encoder threads find both states ended and both start the muxer |
| `record_racy` | violation | with the race in `empty()` a captured frame stays in the queue |
| `record_saved` | violation | completion is reported though muxing failed |
| `screen_reconnect` | violation | the default reconnection never happens |

Bounds. Two frames tell apart lost, doubled and reordered frames, and let one be
in the queue while another is encoded; one session with four threads reaches every
interleaving of stop, release and drain. A second recording shares only the globals
with the first; what is said of overlapping recordings is proved for any number of
them (section 7). Two picture sizes are enough for one that differs from the
surface's; a longer inbox only repeats informational messages. `QueueBound`
saturates the count of duplicate handler messages, of which each does what the first
did. In `command` the inputs are longer than their queues, so that a reader blocks and
is stopped while it does; the video's first key packet is its first or second; the
second command starts with what the first has left. Five requests of a position let
several overlap one task and still leave one that does not. Network types matter by
whether `startPlay` prompts for them: -1 stands for 0, 1, 2 and 3 as well, 6 for 4 and 5.
The live screen runs the change between the two; the video, whose panel and position make
its states many, starts on 4G, where both the prompt and the time after it occur. Two screens with two
cameras let the camera held by the first be missing for the second.
`CHECK_DEADLOCK FALSE` where a process or a screen really ends.

Fairness. Recorder: a call the main thread has begun goes on, started encoder
threads are scheduled, and so are an audio thread's steps after a capture; nobody is
assumed to press a button, deliver a preview frame or fill a buffer. View: the
main looper delivers what was posted, an opened source is prepared or fails, and
the window system resizes a surface it was asked to resize. Nothing is assumed of
the client: `WishIsServed` is a statement about behaviours in which it stops
calling. It is stated of a `SurfaceRenderView`; a render view replaced while its
player waits for a resize loses that start (a hazard, with its note). Command: the
scheduler runs the command's thread and each reader whenever they are not asleep;
nothing is assumed of files. Location: a started client reports again and again, the
main looper delivers messages, the worker runs; nobody is assumed to click.

## 7. Proofs

All hold for all values of the constants, from the assumptions the modules state:
bounds are natural numbers, `Failures` and `Infos` name known members, `NoUri` is no
address, a command has at least two inputs with a positive period each.

`RecordSessionProofs`
- `TypeCorrect`: one lemma per thread, one step per action.
- `PointersCorrect`: the inductive invariant on the globals. `OneCleanup` alone is
  not inductive: a release could reach an ended encoder unless one knows that a
  global which is not null points at the latest session, whose encoder is
  neither ended nor released except between telling it and nulling the pointer.
  `OneCleanupHolds` and `NoDanglingGlobalHolds` follow.
- `FramesKeptHolds`: what was pushed is what was encoded followed by what waits.
- `VideoFullyEncodedHolds`, `MuxInputsCompleteHolds`: once ended, nobody pushes
  (from the pointers), and a thread past its loop saw an empty queue; both need
  `~RacyEmpty`, and `record_racy` shows why.

`RecordEndProofs`, for any number of overlapping recordings
- `ClosedHolds` says which way an encoder thread has come from its flags and its
  state, `ResultsCorrect` that a result needs both states, and that a thread past the
  test left either the other state unset or a started muxer behind.
  `LastOneMuxesHolds` and `ReleasedNeverMuxedHolds` follow.
- `StepsOfJob`: the safety half of `ImplementsJob`, for `~RacyEmpty`. One lemma per
  step of the job (`JobAdvances`, `JobCaptures`, `JobMuxes`, `JobStops`), one per thread of
  the pipeline that names the step each action shows. That `recordEnd` finds the
  recording in its phase "recording" is `PointersCorrect`; that the clip has every
  captured frame is `VideoFullyEncodedHolds`; that both muxers of a doubly muxed
  recording show one clip is `ClosedHolds`.

`OneRecorderProofs`, for one recorder (`MaxRecorders = 1`), as the invariants say. The
invariant ties `mRecording`, which only the main thread writes, to the globals and to the
main thread's place inside a call: `NoOrphanEncoderHolds`, `VideoNeverFaultsHolds`, and,
with what the audio thread may still have in its hands, `AtMostOneLateBufferHolds`. With two
recorders a stopped screen's audio thread can still read the other's global, and these
statements are not claimed.

`RecordEndProofs` also proves how a recording comes to its end
- `CountsCorrect` counts the threads that are between the handler's test and its last
  step: what was muxed was reported or has a thread on its way to report it.
  `MuxedAtMostTwiceHolds` bounds what `record_muxed` shows: the unlocked test lets two
  threads through, never three, since each encoder thread tests once.
  `LeftIsReportedHolds` is the safety part of `EndedIsReported`, without a failing flush or
  attach, either of which loses the report: `flush` ends the thread before it sets its
  state, and a thread that is not attached cannot call back. `FreedWasReportedHolds` says
  that the crash on a deleted handler comes after the report, not instead of it.
- `ToldAdvanceHolds` and `ToldComeToEndHolds` are the safety part of `ToldThreadsExit`: a
  number, four turns' steps for each frame that waits and one for each place up to the
  end, falls with every step of a thread that is told to end or released, and is zero
  only where the thread is gone or its encoder never opened. Only the audio buffer
  that `AtMostOneLateBuffer` speaks of adds to it. The measure needs `~RacyEmpty`: with
  the race in `empty()` a thread may look again at a queue that has become no shorter.
- `ClipIsFinalHolds`: from the start of its muxer on, a recording's video frames are what
  they were, in any overlap of recordings.

`VideoViewProofs`
- `Sound` says that what the view believes of its player agrees with what the
  player does and with what it has posted: an error is the last message and
  its player is broken, a completion comes from a player that was playing, a running
  player belongs to a view in a playback state that wants to play, the holder is
  current exactly while there is a surface. The invariants alone are not
  inductive, because a message in the inbox may arrive in any later state.
- One lemma per method for any view, then client, window, player and delivery
  steps, then `ViewTypeCorrect`, `PendingSeekAppliedHolds`,
  `PlaysOnlyAsWishedHolds`, `DisplayFollowsSurfaceHolds`.
- `WaitingProceedsHolds` and `ResizeServesHolds` are the safety part of `WishIsServed`. Two
  ways lead from waiting to playing, `onPrepared` and, when the surface has not yet the
  picture's size, `onSurfaceChanged`; the second invariant, `Awaited`, says that one is
  always due: a prepared player that does not play waits for a surface that differs from
  the size asked of it, and a source tells its size once. Both hold under any client.

`PlayerScreenProofs` applies the method lemmas of `VideoViewProofs` to the steps of the
screen: `ScreenCorrect` is the inductive invariant, `Sound` of its view together with what
its handler messages and prompts stand for; `ScreenTypeCorrect`, `DestroyedIsSilentHolds`,
`UserPauseKeptHolds`, `ShownPanelTicksHolds` and `NothingPlaysUnaskedHolds` follow. The last
holds for any networks and changes of them; what it rests on is that a view which no
`startPlay` let through is quiet (`Asked`), under every callback and life-cycle step.
`PlayUnderWayHolds` is what becomes of `WaitingProceeds` under the calls `PlayerView` makes:
a resumed screen that is to play lacks a surface, prepares, has the message in its inbox
that moves it on, or plays. Its invariant, `PlayInv`, adds to `Awaited` that a video is shown on
a texture, which waits for no size, and that whoever asks to play has opened a player if
there is a surface: `startPlay` does not open a video that is not switched, but a resume
has. A failed player is excepted: `PlayerView` hears nothing of its error (a hazard).

`FfmpegCommandProofs`: the invariant relates each reader's place to its queue's error
flags (`err_recv` is set only when the reader leaves) and the packets read to those taken,
queued and in the reader's hands; `SleepersMustWaitHolds`, `QueueOutlivesReaderHolds`,
`CopiedInOrderHolds`, `CopyCompleteHolds` for any number of inputs and commands.
`StreamsInterleavedHolds` adds that the input waited for is the one `choose_output` chose
(`Chosen`): the stream behind the others is the only one that gets a packet, and one packet of
a gapless stream is one period later (`OnePacketAhead`).
- `CopiesAsOneThreadHolds` is the whole refinement of `SequentialCommand`, which claims no
  liveness: a step of a reader shows nothing, a round of the loop is one round there.
  That a stream ends only when its input has is where the queue's order and its error
  flags are needed. It implies `CopiedInOrder`, so no run checks that one; it stays
  proved, because `CopyComplete` and the refinement rest on it.
- The safety part of `CommandEnds`. `NothingLeftHolds`: between two commands no reader,
  queue or sleeper of the last one is left, whatever failed. `NeverStuckHolds`: in a
  command its thread, or the reader it waits for, has a step; `MainMayStep` and
  `ReaderMayStep` are the guards of their actions, read off them, since the provers do not
  take ENABLED. `WorkShrinksHolds`: each input has an amount of work, a natural number, that no
  step raises and every step but the last lessens for some input. `StreamToChoose` (there
  is always a stream behind the others) rests on `Least`, every non-empty set of numbers
  has a least one, which follows from the well-founded order of the library.

`CameraPreviewProofs`, `LocationScreenProofs`: types and every invariant of the two
screens, for any number of screens, recordings and requests. `PartsPairedHolds` extends
`RecordedByOneCamera` from the last recording to all of them: the list of parts is pairs of one
camera, the recorder's part, which nobody closes, and the screen's, which the stop closes.
`PreviewKeptHolds` is the price of `mStartPreview`: from the first attempt on only switching the
camera or leaving the screen changes whether the preview runs. For `RequestShown` `LocationScreenProofs` also
proves `RequestProceedsHolds`, a request that overlapped no finishing task always has
somebody who can move it, and `TasksAdvanceHolds`, the worker and the handler only ever
lessen what is left and a click alone adds to it.

Model-checked only: liveness itself (`ToldThreadsExit`, `EndedIsReported`, `WishIsServed`,
`CommandEnds`, `RequestShown`, and the fairness of `ImplementsJob`), which is out of the
prover's reach. Of each of the first five the proofs give the safety part named above: nobody
is stuck, and what is left only shrinks. What TLC adds is that fairness then leads to the end.

## 8. Findings

Shown by a run:

- Both encoder threads may start the muxer, notify and delete the handler
  (`jx_jni_handler.cpp:27`, run `record_muxed`).
- `empty()` reads the deque without its lock (`threadsafe_queue.cpp:75`,
  run `record_racy`).
- A failed mux is reported as saved (run `record_saved`).
- `isErrorStop` is never false, so the reconnection documented as the default does
  not happen (run `screen_reconnect`). `PlayerView.java:97` documents it as the default;
  `:94` documents stopping on an error as the default, and the code does that.

Met while modelling, and part of the models as the code has it:

- `prepareJXFFmpegEncoder` returns -1 when an encoder fails to open, and nobody looks:
  `startRecord` returns a part although `IMediaRecorder.java:10` promises null.
- `AutoPlayRunnable`, documented to fold the control panel (`PlayerView.java:1542`), only
  ever shows it (`:1567`).
- A failed trailer is logged and 0 returned (`ffmpeg.c:4468`), which
  `jx_ffmpeg_cmd_run.c:6` calls success; `main_return_code` is not reset, so a failed write
  fails every later command.
- The comment at `PlayerView.java:750` speaks of a prompt for 2/3/4/5G; `:656` prompts for
  the types 4, 5 and 6. On 5G (-1), and on a device without a connection that finds a mobile
  network before its player opens, a stream starts unasked. So does one that was let through
  on wifi when the device has moved to 4G, and one that is switched while it plays keeps its
  target and plays on behind the prompt.
- `exit_program` (`cmdutils.c:129`) returns to code that counted on the end of the process.
- A task of the position screen that has announced its position stops the client of the
  request that came meanwhile (`SimulationLocPresenter.java:99`); that request waits for
  ever. A position forgotten or a screen left before it is shown crashes the handler.
- `mStartPreview` is set before `Camera.open`: after one failure nothing tries again until
  the camera is switched. A screen that is left keeps its camera open.
- The lamp's check mark is cleared by a resume while the lamp burns
  (`VideoFragment.java:174`), and the end of a recording enables it for a front camera.

## 9. Not modelled

Pixels (the crop filter included), time stamps, codec and layout arithmetic; of the
vendored ffmpeg 3.2.5 everything but the message queue of its threads; the ijkplayer and map
libraries; screens that only bind lists to views. The listeners' list of `FFmpegBridge` is
walked by an encoder thread under a lock that adding and removing do not take: a model of
it would show the exception and nothing else, so it is a hazard with a note. Recorders never
remove themselves, so each screen adds one listener for the life of the process. Rates (a
codec slower than the camera) and buffer sizes are outside what these models tell apart;
the hazards that depend on them carry a note.
