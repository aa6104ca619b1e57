------------------------- MODULE PlayerScreenProofs -------------------------
(***************************************************************************)
(* The safety properties of the player screen for every set of streams,    *)
(* sizes and positions, live or not, on any network.  What a method does   *)
(* to the view comes from the lemmas of VideoViewProofs; what is new is    *)
(* which methods can make a view play that was not to.                     *)
(***************************************************************************)
EXTENDS PlayerScreen, VideoViewProofs

\* a view that neither plays nor will when its player or its surface is ready
Quiet(v) == v.target # "PLAYING" /\ v.phase # "started"

FlagsOK ==
  /\ isHasSwitchStream \in BOOLEAN /\ isGNetWork \in BOOLEAN /\ isDragging \in BOOLEAN
  /\ isShowControlPanl \in BOOLEAN /\ mShouldAutoPlay \in BOOLEAN /\ netTie \in BOOLEAN
  /\ replay \in BOOLEAN /\ swiping \in BOOLEAN /\ seekPosted \in BOOLEAN
  /\ restartPosted \in BOOLEAN /\ autoPosted \in BOOLEAN /\ playIcon \in BOOLEAN

ValuesOK ==
  /\ life \in {"created", "resumed", "paused", "stopped", "destroyed"}
  /\ network \in Networks
  /\ status \in {"IDLE", "ERROR", "PREPARING", "PLAYING", "PAUSED"}
  /\ currentUrl \in Uris /\ bgState \in {0, 1}
  /\ currentPosition \in Positions \cup {NoPosition} /\ (~Live => currentPosition \in Positions)
  /\ newPosition \in Positions \cup {NoPosition}
  /\ ticks \in 0 .. QueueBound /\ revealsPosted \in 0 .. QueueBound
  /\ wish \in {"none", "play", "pause"} /\ playedOn \in Networks \cup {NoNetwork}

\* after onDestroy there is no player and no message is left that calls the view
Silent == life = "destroyed" => video.phase = "none" /\ ~seekPosted /\ ~restartPosted

Obeyed == wish = "pause" => Quiet(video)

\* nothing that was not let through plays or is to play, and what was let through
\* without the user's consent was not on 2G, 3G or 4G
Asked ==
  /\ playedOn = NoNetwork => Quiet(video)
  /\ isGNetWork => playedOn \notin {4, 5, 6}

ScreenInv ==
  Inv /\ FlagsOK /\ ValuesOK /\ Silent /\ Obeyed /\ Asked /\ ShownPanelTicks

----------------------------------------------------------------------------
\* A new view is well typed and in agreement with itself, and it is quiet.
LEMMA NewViewSound == NewView \in View /\ Sound(NewView) /\ Quiet(NewView)
<1>1. NewView \in View
  <2>1. NoUri \in Uris \cup {NoUri}
    OBVIOUS
  <2> QED BY <2>1, Stored DEF NewView, View
<1>2. Sound(NewView) /\ Quiet(NewView)
  BY DEF NewView, Sound, PostsAgree, RunningAgrees, SeekAgrees, DisplayAgrees, NothingPosted,
         InPlaybackState, Playback, Quiet
<1> QED BY <1>1, <1>2

\* Only start makes a view play: every other call leaves a quiet view quiet.
LEMMA QuietCalls ==
  ASSUME NEW v \in View, Quiet(v)
  PROVE  /\ \A position \in Positions : Quiet(SeekTo(v, position))
         /\ \A clear \in BOOLEAN : Quiet(ReleasePlayer(v, clear))
         /\ \A opened \in BOOLEAN : Quiet(OpenVideo(v, opened))
         /\ Quiet(SetRender(v))
<1> USE DEF Quiet, View
<1>1. \A position \in Positions : Quiet(SeekTo(v, position))
  BY DEF SeekTo
<1>2. \A clear \in BOOLEAN : Quiet(ReleasePlayer(v, clear))
  BY DEF ReleasePlayer, WithoutPlayer
<1>3. \A opened \in BOOLEAN : Quiet(OpenVideo(v, opened))
  BY <1>2 DEF OpenVideo, ReleasePlayer, WithoutPlayer
<1>4. Quiet(SetRender(v))
  BY DEF SetRender
<1> QED BY <1>1, <1>2, <1>3, <1>4

\* pause makes any sound view quiet, whatever its player was doing.
LEMMA PauseQuiet ==
  ASSUME NEW v \in View, Sound(v)
  PROVE  Quiet(Pause(v))
  BY DEF Quiet, View, Pause, IsPlaying, InPlaybackState, Sound, RunningAgrees, Playback

\* An address that is set opens a player that does not start by itself.
LEMMA SetVideoURIQuiet ==
  ASSUME NEW v \in View, Quiet(v), NEW uri \in Uris, NEW opened \in BOOLEAN
  PROVE  Quiet(SetVideoURI(v, uri, opened))
<1> DEFINE asked == [v EXCEPT !.uri = uri, !.seek = 0]
<1>1. asked \in View
  <2>1. uri \in Uris \cup {NoUri} /\ 0 \in Positions
    BY Stored
  <2> QED BY <2>1, Zenon DEF View
<1>2. Quiet(asked)
  BY DEF Quiet, View
<1> HIDE DEF asked
<1>3. Quiet(OpenVideo(asked, opened))
  BY <1>1, <1>2, QuietCalls
<1> QED BY <1>3 DEF SetVideoURI, asked

\* Surfaces and messages of the player leave a quiet view quiet.
LEMMA QuietWindow ==
  ASSUME video \in View, Quiet(video), Window
  PROVE  Quiet(video')
<1>1. CASE SurfaceCreated
  BY <1>1 DEF SurfaceCreated, OnSurfaceCreated, OpenVideo, ReleasePlayer, WithoutPlayer,
     Quiet, View
<1>2. CASE SurfaceChanged
  BY <1>2 DEF SurfaceChanged, OnSurfaceChanged, Quiet, View
<1>3. CASE SurfaceDestroyed
  BY <1>3 DEF SurfaceDestroyed, OnSurfaceDestroyed, ReleaseWithoutStop, Quiet, View
<1> QED BY <1>1, <1>2, <1>3 DEF Window

\* What the player does and posts by itself leaves a quiet view quiet.
LEMMA QuietNative ==
  ASSUME video \in View, Quiet(video), Native
  PROVE  Quiet(video')
  BY DEF Native, NativeSize, NativePrepared, NativeCompleted, NativeFailed, NativeInforms,
     NativeAdvances, Post, Quiet, View

\* So does every message that is delivered.
LEMMA QuietHandled ==
  ASSUME NEW v \in View, Quiet(v), v.inbox # << >>
  PROVE  Quiet(Handled(v))
<1> DEFINE event == Head(v.inbox)
           rest == [v EXCEPT !.inbox = Tail(v.inbox)]
<1>1. /\ event \in Events /\ Tail(v.inbox) \in Seq(Events)
  BY DEF View
<1>2. rest \in View
  BY <1>1, Zenon DEF View
<1>3. Quiet(rest) /\ rest.target = v.target
  BY DEF Quiet, View
<1> HIDE DEF rest
<1>4. Quiet(OnPrepared(rest))
  BY <1>2, <1>3 DEF OnPrepared, Resized, SeekTo, Quiet, View
<1>5. Quiet(OnVideoSizeChanged(rest, event.size))
  BY <1>2, <1>3 DEF OnVideoSizeChanged, Resized, Quiet, View
<1>6. Quiet(OnCompletion(rest)) /\ Quiet(OnError(rest))
  BY <1>2, <1>3 DEF OnCompletion, OnError, Quiet, View
<1>7. event.what \in {"prepared", "size", "completed", "error"} \cup Infos
  BY <1>1 DEF Events
<1>8. Handled(v) \in {OnPrepared(rest), OnVideoSizeChanged(rest, event.size), OnCompletion(rest),
                      OnError(rest), rest}
  BY <1>7 DEF Handled, rest
<1> QED BY <1>3, <1>4, <1>5, <1>6, <1>8

----------------------------------------------------------------------------
\* startPlay opens by the rules of the view, and without consent it starts
\* nothing.
LEMMA StartPlayView ==
  ASSUME NEW v \in View, Sound(v), NEW url \in Uris, NEW position, NEW again, NEW askNetwork,
         ~Live => position \in Positions,
         StartPlay(v, url, position, again, askNetwork)
  PROVE  /\ video' \in View /\ Sound(video')
         /\ NeedsConsent(askNetwork) /\ Quiet(v) => Quiet(video')
<1>1. PICK opened \in BOOLEAN :
        video' = Played(Opened(v, url, position, again, opened), askNetwork)
  BY DEF StartPlay
<1> DEFINE set == SetVideoURI(v, url, opened)
           turned == SetVideoURI(SetRender(v), url, opened)
           open == Opened(v, url, position, again, opened)
<1>2. 0 \in Positions
  BY Stored
<1>3. /\ SetRender(v) \in View /\ Sound(SetRender(v))
      /\ Quiet(v) => Quiet(SetRender(v))
  BY SetRenderSound, QuietCalls
<1>4. /\ set \in View /\ Sound(set)
      /\ Quiet(v) => Quiet(set)
  BY SetVideoURISound, SetVideoURIQuiet
<1>5. /\ turned \in View /\ Sound(turned)
      /\ Quiet(v) => Quiet(turned)
  BY <1>3, SetVideoURISound, SetVideoURIQuiet
<1>6. \/ open = SeekTo(set, 0)
      \/ position \in Positions /\ open = SeekTo(turned, position)
      \/ open = v
  BY DEF Opened
<1> HIDE DEF set, turned, open
<1>7. /\ open \in View /\ Sound(open)
      /\ Quiet(v) => Quiet(open)
  BY <1>2, <1>4, <1>5, <1>6, SeekToSound, QuietCalls
<1>8. Start(open) \in View /\ Sound(Start(open))
  BY <1>7, StartSound
<1>9. /\ video' = IF NeedsConsent(askNetwork) THEN open ELSE Start(open)
  BY <1>1 DEF Played, open
<1> QED BY <1>7, <1>8, <1>9

\* A screen opens with a view that plays only if it need not ask.
LEMMA InitScreenInv == ScreenInit => ScreenInv
<1> SUFFICES ASSUME ScreenInit PROVE ScreenInv
  OBVIOUS
<1> DEFINE turned == SetVideoURI(SetRender(NewView), FirstStream, TRUE)
           live == SetVideoURI(NewView, FirstStream, TRUE)
           open == Opened(NewView, FirstStream, 0, TRUE, TRUE)
<1>1. FirstStream \in Uris /\ 0 \in Positions /\ Live \in BOOLEAN
  BY ScreenAssumption, Stored
<1>2. SetRender(NewView) \in View /\ Sound(SetRender(NewView)) /\ Quiet(SetRender(NewView))
  BY NewViewSound, SetRenderSound, QuietCalls
<1>3. /\ turned \in View /\ Sound(turned) /\ Quiet(turned)
      /\ live \in View /\ Sound(live) /\ Quiet(live)
  BY <1>1, <1>2, NewViewSound, SetVideoURISound, SetVideoURIQuiet
<1>4. open = SeekTo(turned, 0) \/ open = SeekTo(live, 0)
  BY DEF Opened
<1> HIDE DEF turned, live, open
<1>5. open \in View /\ Sound(open) /\ Quiet(open)
  BY <1>1, <1>3, <1>4, SeekToSound, QuietCalls
<1>6. video = IF NeedsConsent(TRUE) THEN open ELSE Start(open)
  BY DEF ScreenInit, Played, open
<1>7. Inv
  BY <1>5, <1>6, StartSound DEF Inv, TypeOK
<1>8. FlagsOK
  BY <1>1 DEF ScreenInit, FlagsOK, NeedsConsent
<1>9. ValuesOK
  <2>1. network \in Networks /\ (playedOn = NoNetwork \/ playedOn = network)
    BY DEF ScreenInit
  <2>2. wish = "none" \/ wish = "play"
    BY DEF ScreenInit
  <2>3. /\ life = "created" /\ status = "IDLE" /\ bgState = 0
        /\ currentUrl = FirstStream /\ currentPosition = 0 /\ newPosition = NoPosition
    BY DEF ScreenInit
  <2>4. ticks = 0 /\ revealsPosted = 0 /\ 0 \in 0 .. QueueBound
    BY ScreenAssumption DEF ScreenInit
  <2> QED BY <1>1, <2>1, <2>2, <2>3, <2>4 DEF ValuesOK
<1>10. Silent /\ Obeyed /\ ShownPanelTicks
  BY DEF ScreenInit, Silent, Obeyed, ShownPanelTicks
<1>11. Asked
  <2>1. CASE NeedsConsent(TRUE)
    <3>1. playedOn = NoNetwork
      BY <2>1 DEF ScreenInit
    <3>2. Quiet(video)
      BY <1>5, <1>6, <2>1
    <3> QED BY <3>1, <3>2 DEF Asked, NoNetwork
  <2>2. CASE ~NeedsConsent(TRUE)
    <3>1. playedOn = network /\ network \in -1 .. 6 /\ network \notin {4, 5, 6}
      BY <2>2, ScreenAssumption DEF ScreenInit, NeedsConsent
    <3> QED BY <3>1 DEF Asked, NoNetwork
  <2> QED BY <2>1, <2>2
<1> QED BY <1>7, <1>8, <1>9, <1>10, <1>11 DEF ScreenInv

----------------------------------------------------------------------------
\* The buttons that start the view: nobody is disobeyed and nobody unasked.
LEMMA StartStep ==
  ASSUME ScreenInv, ClickToPlay \/ ClickNetTie \/ Replay \/ SelectStream
  PROVE  video' \in View /\ Sound(video') /\ Obeyed' /\ Asked'
<1>0. /\ video \in View /\ Sound(video) /\ (~Live => currentPosition \in Positions)
      /\ currentUrl \in Uris /\ network \in Networks
  BY DEF ScreenInv, Inv, TypeOK, ValuesOK
<1>1. ASSUME NEW v \in View, Sound(v), Quiet(video) => Quiet(v), NEW url \in Uris,
             NEW position, NEW again, ~Live => position \in Positions,
             StartPlay(v, url, position, again, isGNetWork), isGNetWork' = isGNetWork
      PROVE  video' \in View /\ Sound(video') /\ Obeyed' /\ Asked'
  <2>1. /\ video' \in View /\ Sound(video')
        /\ NeedsConsent(isGNetWork) /\ Quiet(v) => Quiet(video')
    BY <1>1, StartPlayView
  <2>2. wish' = IF NeedsConsent(isGNetWork) THEN wish ELSE "play"
    BY <1>1 DEF StartPlay
  <2>3. Obeyed'
    BY <1>1, <2>1, <2>2 DEF ScreenInv, Obeyed
  <2>4. CASE NeedsConsent(isGNetWork)
    <3>1. playedOn' = playedOn
      BY <1>1, <2>4 DEF StartPlay
    <3> QED BY <1>1, <2>1, <2>3, <2>4, <3>1 DEF ScreenInv, Asked
  <2>5. CASE ~NeedsConsent(isGNetWork)
    <3>1. playedOn' = network /\ network \in -1 .. 6
      BY <1>0, <1>1, <2>5, ScreenAssumption DEF StartPlay
    <3>2. Asked'
      BY <1>1, <2>5, <3>1 DEF Asked, NeedsConsent, NoNetwork
    <3> QED BY <2>1, <2>3, <3>2
  <2> QED BY <2>4, <2>5
<1>2. CASE ClickToPlay
  BY <1>0, <1>1, <1>2 DEF ClickToPlay
<1>3. CASE ClickNetTie
  <2>1. /\ isGNetWork' = FALSE
        /\ StartPlay(video, currentUrl, currentPosition, isHasSwitchStream \/ status = "ERROR", FALSE)
    BY <1>3 DEF ClickNetTie
  <2>2. video' \in View /\ Sound(video')
    BY <1>0, <2>1, StartPlayView
  <2>3. wish' = "play" /\ playedOn' = network /\ network \in -1 .. 6
    BY <1>0, <2>1, ScreenAssumption DEF StartPlay, NeedsConsent
  <2> QED BY <2>1, <2>2, <2>3 DEF Obeyed, Asked, NoNetwork
<1>4. CASE Replay
  BY <1>0, <1>1, <1>4 DEF Replay
<1>5. CASE SelectStream
  <2> DEFINE position == IF IsPlaying(video) THEN PositionIn(video) ELSE currentPosition
             view == IF IsPlaying(video) THEN ReleasePlayer(video, FALSE) ELSE video
  <2>1. PICK url \in Uris : StartPlay(view, url, position, TRUE, isGNetWork)
    BY <1>5 DEF SelectStream
  <2>2. isGNetWork' = isGNetWork
    BY <1>5 DEF SelectStream
  <2>3. view \in View /\ Sound(view) /\ (Quiet(video) => Quiet(view))
    BY <1>0, ReleaseSound, QuietCalls
  <2>4. ~Live => position \in Positions
    BY <1>0, Stored DEF PositionIn, CurrentPosition, View
  <2> HIDE DEF view, position
  <2> QED BY <1>1, <2>1, <2>2, <2>3, <2>4
<1> QED BY <1>2, <1>3, <1>4, <1>5

\* The play button of a playing video leaves a quiet view.
LEMMA PauseStep ==
  ASSUME ScreenInv, ClickWhilePlaying
  PROVE  video' \in View /\ Sound(video') /\ Quiet(video')
<1>0. video \in View /\ Sound(video)
  BY DEF ScreenInv, Inv, TypeOK
<1>1. CASE Live
  <2>1. video' = ReleasePlayer(video, TRUE) /\ video.phase # "none"
    BY <1>1 DEF ClickWhilePlaying, StopPlayback, IsPlaying, InPlaybackState
  <2>2. Quiet(ReleasePlayer(video, TRUE))
    BY <1>0, <2>1 DEF ReleasePlayer, WithoutPlayer, Quiet, View
  <2> QED BY <1>0, <2>1, <2>2, ReleaseSound
<1>2. CASE ~Live
  <2>1. video' = Pause(video)
    BY <1>2 DEF ClickWhilePlaying
  <2> QED BY <1>0, <2>1, PauseSound, PauseQuiet
<1> QED BY <1>1, <1>2

OtherViewSteps ==
  DragEnds \/ ResumeActivity \/ PauseActivity \/ DestroyActivity \/ ScreenSurface
  \/ SeekMessage \/ HandleNative \/ NativeSteps

PanelSteps ==
  Tap \/ SwipeBegins \/ SwipeEnds \/ DragBegins \/ StopActivity \/ NetworkChanges
  \/ ProgressMessage \/ Reveal \/ AutoPlayRun

\* Everything else that reaches the view leaves a quiet view quiet.
LEMMA OtherStep ==
  ASSUME ScreenInv, OtherViewSteps
  PROVE  video' \in View /\ Sound(video') /\ (Quiet(video) => Quiet(video'))
<1>0. /\ video \in View /\ Sound(video) /\ 0 \in Positions
      /\ (~Live => currentPosition \in Positions) /\ newPosition \in Positions \cup {NoPosition}
  BY Stored DEF ScreenInv, Inv, TypeOK, ValuesOK
<1>1. CASE DragEnds
  <2>1. PICK position \in Positions : video' = SeekTo(video, position)
    BY <1>0, <1>1 DEF DragEnds
  <2> QED BY <1>0, <2>1, SeekToSound, QuietCalls
<1>2. CASE ResumeActivity
  <2>1. PICK opened \in BOOLEAN :
          \/ video' = SeekTo(OpenVideo(video, opened), ResumePosition)
          \/ video' = Pause(SeekTo(OpenVideo(video, opened), ResumePosition))
    BY <1>2 DEF ResumeActivity
  <2> DEFINE open == OpenVideo(video, opened)
             view == SeekTo(open, ResumePosition)
  <2>2. ResumePosition \in Positions
    BY <1>0 DEF ResumePosition
  <2>3. open \in View /\ Sound(open) /\ (Quiet(video) => Quiet(open))
    BY <1>0, OpenVideoSound, QuietCalls
  <2> HIDE DEF open
  <2>4. view \in View /\ Sound(view) /\ (Quiet(video) => Quiet(view))
    BY <2>2, <2>3, SeekToSound, QuietCalls
  <2>5. video' \in {view, Pause(view)}
    BY <2>1 DEF open
  <2> HIDE DEF view
  <2> QED BY <2>4, <2>5, PauseSound, PauseQuiet
<1>3. CASE PauseActivity
  BY <1>0, <1>3, ReleaseSound, QuietCalls DEF PauseActivity
<1>4. CASE DestroyActivity
  BY <1>0, <1>4, ReleaseSound, QuietCalls DEF DestroyActivity, Destroyed, StopPlayback
<1>5. CASE ScreenSurface
  BY <1>0, <1>5, WindowStep, QuietWindow DEF ScreenSurface, Window
<1>6. CASE SeekMessage
  <2>1. video' = video \/ \E position \in Positions : video' = SeekTo(video, position)
    BY <1>0, <1>6 DEF SeekMessage, NoPosition
  <2> QED BY <1>0, <2>1, SeekToSound, QuietCalls
<1>7. CASE HandleNative
  BY <1>0, <1>7, HandledSound, QuietHandled DEF HandleNative, Handle
<1>8. CASE NativeSteps
  BY <1>0, <1>8, NativeStep, QuietNative DEF NativeSteps
<1> QED BY <1>1, <1>2, <1>3, <1>4, <1>5, <1>6, <1>7, <1>8 DEF OtherViewSteps

\* The view stays sound, and what the user asked for is kept, in every step.
LEMMA ViewKept ==
  ASSUME ScreenInv, [ScreenNext]_screenVars
  PROVE  Inv' /\ Obeyed' /\ Asked'
<1>0. video \in View /\ Sound(video) /\ Obeyed /\ Asked
  BY DEF ScreenInv, Inv, TypeOK
<1>1. CASE ClickToPlay \/ ClickNetTie \/ Replay \/ SelectStream
  BY <1>1, StartStep DEF Inv, TypeOK
<1>2. CASE ClickWhilePlaying
  <2>1. isGNetWork' = isGNetWork /\ playedOn' = playedOn
    BY <1>2 DEF ClickWhilePlaying
  <2> QED BY <1>0, <1>2, <2>1, PauseStep DEF Inv, TypeOK, Obeyed, Asked
<1>3. CASE OtherViewSteps
  <2>1. isGNetWork' = isGNetWork /\ wish' = wish /\ playedOn' = playedOn
    BY <1>3 DEF OtherViewSteps, DragEnds, ResumeActivity, PauseActivity, DestroyActivity,
       ScreenSurface, SeekMessage, HandleNative, NativeSteps, control, history
  <2> QED BY <1>0, <1>3, <2>1, OtherStep DEF Inv, TypeOK, Obeyed, Asked
<1>4. CASE PanelSteps \/ UNCHANGED screenVars
  <2>1. isGNetWork' = isGNetWork /\ wish' = wish /\ playedOn' = playedOn /\ video' = video
    BY <1>4 DEF PanelSteps, Tap, SwipeBegins, SwipeEnds, DragBegins, StopActivity,
       NetworkChanges, ProgressMessage, Reveal, AutoPlayRun, control, history, screenVars
  <2> QED BY <1>0, <2>1 DEF Inv, TypeOK, Obeyed, Asked
<1> QED BY <1>1, <1>2, <1>3, <1>4 DEF ScreenNext, OtherViewSteps, PanelSteps

\* After onDestroy the screen has no player, no message of one and none of the
\* handler's that would call the view; the surface goes without opening one.
LEMMA SilentKept ==
  ASSUME ScreenInv, [ScreenNext]_screenVars
  PROVE  Silent'
<1>0. /\ video \in View /\ NothingPosted(video)
      /\ life = "destroyed" => video.phase = "none" /\ ~seekPosted /\ ~restartPosted
  BY DEF ScreenInv, Inv, TypeOK, Sound, Silent
<1>1. CASE DestroyActivity
  <2>1. video' = ReleasePlayer(video, TRUE) /\ ~seekPosted' /\ ~restartPosted'
    BY <1>1 DEF DestroyActivity, Destroyed, StopPlayback
  <2>2. ReleasePlayer(video, TRUE).phase = "none"
    BY <1>0 DEF ReleasePlayer, WithoutPlayer, View
  <2> QED BY <2>1, <2>2 DEF Silent
<1>2. CASE life # "destroyed" /\ ~DestroyActivity
  <2>1. life' # "destroyed"
    BY <1>2 DEF ScreenNext, Tap, SwipeBegins, SwipeEnds, DragBegins, DragEnds, ClickWhilePlaying,
       ClickToPlay, ClickNetTie, Replay, SelectStream, ResumeActivity, PauseActivity, StopActivity,
       ScreenSurface, NetworkChanges, SeekMessage, ProgressMessage, Reveal,
       AutoPlayRun, HandleNative, NativeSteps, screenVars
  <2> QED BY <2>1 DEF Silent
<1>3. CASE life = "destroyed"
  <2>1. video.phase = "none" /\ ~seekPosted /\ ~restartPosted /\ video.inbox = << >>
    BY <1>0, <1>3 DEF NothingPosted
  <2>2. CASE ScreenSurface
    <3>1. video' = OnSurfaceDestroyed(video)
      BY <1>3, <2>2 DEF ScreenSurface, SurfaceDestroyed
    <3>2. video'.phase = "none"
      BY <1>0, <2>1, <3>1 DEF OnSurfaceDestroyed, ReleaseWithoutStop, View
    <3>3. UNCHANGED <<seekPosted, restartPosted>>
      BY <2>2 DEF ScreenSurface, queue
    <3> QED BY <2>1, <3>2, <3>3 DEF Silent
  <2>3. ~HandleNative /\ ~NativeSteps /\ ~SeekMessage /\ ~Replay
    BY <1>3, <2>1 DEF HandleNative, Handle, NativeSteps, Native, NativeSize, NativePrepared,
       NativeCompleted, NativeFailed, NativeInforms, NativeAdvances, Alive, SeekMessage, Replay
  <2>4. CASE ~ScreenSurface
    <3>1. UNCHANGED <<video, seekPosted, restartPosted>>
      BY <1>3, <2>3, <2>4 DEF ScreenNext, Tap, SwipeBegins, SwipeEnds, DragBegins, DragEnds,
         ClickWhilePlaying, ClickToPlay, ClickNetTie, SelectStream, ResumeActivity, PauseActivity,
         StopActivity, DestroyActivity, NetworkChanges, ProgressMessage, Reveal, AutoPlayRun,
         CanClickPlay, queue, screenVars
    <3> QED BY <2>1, <3>1 DEF Silent
  <2> QED BY <2>2, <2>4
<1> QED BY <1>1, <1>2, <1>3

\* A shown panel keeps its progress message through taps, drags and runnables.
LEMMA PanelKept ==
  ASSUME ScreenInv, [ScreenNext]_screenVars
  PROVE  ShownPanelTicks'
<1>0. ticks \in 0 .. QueueBound /\ QueueBound \in Nat \ {0} /\ ShownPanelTicks
  BY ScreenAssumption DEF ScreenInv, ValuesOK
<1>1. Saturated(ticks) > 0 /\ TicksAfterDrag > 0
  BY <1>0 DEF Saturated, TicksAfterDrag
<1>2. CASE ticks' \in {Saturated(ticks), TicksAfterDrag}
  BY <1>1, <1>2 DEF ShownPanelTicks
<1>3. CASE ~isShowControlPanl' \/ isDragging'
  BY <1>3 DEF ShownPanelTicks
<1>4. CASE UNCHANGED <<isShowControlPanl, isDragging, ticks>>
  BY <1>0, <1>4 DEF ShownPanelTicks
<1>5. CASE ProgressMessage
  BY <1>0, <1>3, <1>4, <1>5 DEF ProgressMessage, panel
<1>6. CASE Tap \/ Reveal \/ AutoPlayRun
  BY <1>2, <1>3, <1>4, <1>6 DEF Tap, HidePanel, Reveal, PanelShown, AutoPlayRun
<1>7. CASE DragBegins \/ DragEnds
  BY <1>2, <1>3, <1>7 DEF DragBegins, DragEnds
<1>8. CASE ~ProgressMessage /\ ~Tap /\ ~Reveal /\ ~AutoPlayRun /\ ~DragBegins /\ ~DragEnds
  <2>1. UNCHANGED <<isShowControlPanl, isDragging, ticks>>
    BY <1>8 DEF ScreenNext, SwipeBegins, SwipeEnds, ClickWhilePlaying, ClickToPlay, ClickNetTie,
       Replay, SelectStream, ResumeActivity, PauseActivity, StopActivity, DestroyActivity,
       ScreenSurface, NetworkChanges, SeekMessage, HandleNative, NativeSteps, panel, queue,
       screenVars
  <2> QED BY <1>4, <2>1
<1> QED BY <1>5, <1>6, <1>7, <1>8

----------------------------------------------------------------------------
\* The types of the screen's fields.

\* startPlay stores truth values.
LEMMA StartPlayFlags ==
  ASSUME NEW v, NEW url, NEW position, NEW again, NEW askNetwork,
         StartPlay(v, url, position, again, askNetwork), askNetwork \in BOOLEAN
  PROVE  /\ isHasSwitchStream' \in BOOLEAN
         /\ netTie' \in BOOLEAN /\ replay' \in BOOLEAN /\ playIcon' \in BOOLEAN
<1>1. Live \in BOOLEAN /\ NeedsConsent(askNetwork) \in BOOLEAN
  BY ScreenAssumption DEF NeedsConsent
<1> QED BY <1>1 DEF StartPlay

\* Every flag stays a truth value.
LEMMA FlagsKept ==
  ASSUME ScreenInv, [ScreenNext]_screenVars
  PROVE  FlagsOK'
<1>0. FlagsOK
  BY DEF ScreenInv
<1>1. CASE ClickToPlay \/ ClickNetTie \/ Replay \/ SelectStream
  <2>1. /\ isHasSwitchStream' \in BOOLEAN
        /\ netTie' \in BOOLEAN /\ replay' \in BOOLEAN /\ playIcon' \in BOOLEAN
    BY <1>0, <1>1, StartPlayFlags DEF FlagsOK, ClickToPlay, ClickNetTie, Replay, SelectStream
  <2>2. /\ isGNetWork' \in {isGNetWork, FALSE} /\ restartPosted' \in {restartPosted, FALSE}
        /\ UNCHANGED <<isDragging, isShowControlPanl, mShouldAutoPlay, swiping, seekPosted,
                       autoPosted>>
    BY <1>1 DEF ClickToPlay, ClickNetTie, Replay, SelectStream, panel, queue
  <2> QED BY <1>0, <2>1, <2>2 DEF FlagsOK
<1>2. AutoPlayStart \/ AutoPlayStop => mShouldAutoPlay' \in BOOLEAN /\ autoPosted' \in BOOLEAN
  BY DEF AutoPlayStart, AutoPlayStop
<1>7. /\ PanelShown => isShowControlPanl' = TRUE /\ playIcon' \in BOOLEAN
      /\ HidePanel => /\ isShowControlPanl' = FALSE /\ playIcon' \in BOOLEAN
                      /\ mShouldAutoPlay' \in BOOLEAN /\ autoPosted' \in BOOLEAN
  BY <1>2, ScreenAssumption DEF PanelShown, HidePanel
<1>3. CASE Tap \/ SwipeBegins \/ DragBegins \/ DragEnds \/ ProgressMessage \/ Reveal \/ AutoPlayRun
           \/ SwipeEnds \/ SeekMessage
  <2> USE DEF FlagsOK, control, prompts, panel
  <2>1. CASE Tap
    BY <1>0, <1>2, <1>7, <2>1 DEF Tap
  <2>2. CASE SwipeBegins
    BY <1>0, <1>2, <2>2 DEF SwipeBegins
  <2>3. CASE SwipeEnds
    <3>1. seekPosted' \in BOOLEAN
      BY <2>3 DEF SwipeEnds
    <3> QED BY <1>0, <1>2, <2>3, <3>1 DEF SwipeEnds
  <2>4. CASE DragBegins \/ DragEnds
    BY <1>0, <2>4, ZenonT(60) DEF DragBegins, DragEnds
  <2>5. CASE ProgressMessage \/ SeekMessage
    BY <1>0, <2>5, ZenonT(60) DEF ProgressMessage, SeekMessage
  <2>6. CASE Reveal
    BY <1>0, <1>2, <1>7, <2>6 DEF Reveal
  <2>7. CASE AutoPlayRun
    BY <1>0, <1>7, <2>7 DEF AutoPlayRun
  <2> QED BY <1>3, <2>1, <2>2, <2>3, <2>4, <2>5, <2>6, <2>7
<1>4. CASE ClickWhilePlaying \/ ResumeActivity \/ PauseActivity \/ StopActivity \/ DestroyActivity
  <2>1. CASE ClickWhilePlaying
    BY <1>0, <2>1 DEF FlagsOK, ClickWhilePlaying, prompts, panel, queue
  <2>2. CASE ResumeActivity
    BY <1>0, <2>2 DEF FlagsOK, ResumeActivity, prompts, panel, queue
  <2>3. CASE PauseActivity
    BY <1>0, <2>3 DEF FlagsOK, PauseActivity, prompts, queue
  <2>4. CASE StopActivity
    BY <1>0, <2>4 DEF FlagsOK, StopActivity, control, prompts, panel, queue
  <2>5. CASE DestroyActivity
    BY <1>0, <2>5 DEF FlagsOK, DestroyActivity, control, prompts, panel
  <2> QED BY <1>4, <2>1, <2>2, <2>3, <2>4, <2>5
<1>5. CASE ScreenSurface \/ NetworkChanges \/ NativeSteps \/ UNCHANGED screenVars
  BY <1>0, <1>5 DEF FlagsOK, ScreenSurface, NetworkChanges, NativeSteps, control, prompts, panel,
     queue, screenVars
<1>6. CASE HandleNative
  <2> DEFINE what == Head(video.inbox).what
  <2>1. StatusChange(what) /\ UNCHANGED <<isHasSwitchStream, isGNetWork, panel, seekPosted, autoPosted>>
    BY <1>6 DEF HandleNative
  <2> HIDE DEF what
  <2>2. /\ netTie' \in {netTie, TRUE, FALSE} /\ replay' \in {replay, TRUE, FALSE}
        /\ playIcon' \in {playIcon, FALSE}
    BY <2>1 DEF StatusChange, prompts
  <2>3. restartPosted' = restartPosted
    BY <1>0, <2>1 DEF StatusChange, IsErrorStop, FlagsOK
  <2> QED BY <1>0, <2>1, <2>2, <2>3, ZenonT(60) DEF FlagsOK, panel
<1> QED BY <1>1, <1>3, <1>4, <1>5, <1>6 DEF ScreenNext

\* Every field of the screen keeps its type, position and counters included.
LEMMA ValuesKept ==
  ASSUME ScreenInv, [ScreenNext]_screenVars
  PROVE  ValuesOK'
<1> USE DEF history
<1>0. ValuesOK /\ video \in View
  BY DEF ScreenInv, Inv, TypeOK
<1>1. /\ QueueBound \in Nat \ {0} /\ 0 \in Positions
      /\ 1 \in 0 .. QueueBound /\ 0 \in 0 .. QueueBound
      /\ \A n \in 0 .. QueueBound : Saturated(n) \in 0 .. QueueBound
  BY ScreenAssumption, Stored DEF Saturated
<1>2. ASSUME NEW v \in View
      PROVE  /\ PositionIn(v) \in Positions \cup {NoPosition}
             /\ ~Live => PositionIn(v) \in Positions
  BY <1>1 DEF PositionIn, CurrentPosition, View
<1>3. CASE ClickToPlay \/ ClickNetTie \/ Replay \/ SelectStream
  <2>1. /\ UNCHANGED <<life, network, bgState, newPosition, ticks, revealsPosted>>
        /\ status' \in {status, "PREPARING", "ERROR"}
        /\ wish' \in {wish, "play"} /\ playedOn' \in {playedOn, network}
    BY <1>3 DEF ClickToPlay, ClickNetTie, Replay, SelectStream, StartPlay, panel, queue
  <2>2. currentUrl' \in Uris
    BY <1>0, <1>3 DEF ClickToPlay, ClickNetTie, Replay, SelectStream, ValuesOK
  <2>3. currentPosition' \in {currentPosition, PositionIn(video)}
    BY <1>3 DEF ClickToPlay, ClickNetTie, Replay, SelectStream
  <2> QED BY <1>0, <1>2, <2>1, <2>2, <2>3 DEF ValuesOK
<1>4. CASE ClickWhilePlaying
  BY <1>0, <1>2, <1>4 DEF ClickWhilePlaying, ValuesOK, panel, queue
<1>5. CASE ResumeActivity
  <2>1. PICK opened \in BOOLEAN :
          LET view == SeekTo(OpenVideo(video, opened), ResumePosition)
          IN  IF bgState # 0
                THEN /\ video' = Pause(view)
                     /\ status' = "PAUSED"
                     /\ currentPosition' = PositionIn(view)
                ELSE /\ video' = view
                     /\ UNCHANGED << status, currentPosition >>
    BY <1>5 DEF ResumeActivity
  <2> DEFINE view == SeekTo(OpenVideo(video, opened), ResumePosition)
  <2>2. OpenVideo(video, opened) \in View /\ Sound(OpenVideo(video, opened))
    BY OpenVideoSound DEF ScreenInv, Inv, TypeOK
  <2>3. view \in View
    BY <1>0, <1>1, <2>2, SeekToSound DEF ResumePosition, ValuesOK
  <2>4. currentPosition' \in {currentPosition, PositionIn(view)} /\ status' \in {status, "PAUSED"}
    BY <2>1
  <2>5. UNCHANGED <<network, currentUrl, bgState, newPosition, ticks, revealsPosted, history>>
        /\ life' = "resumed"
    BY <1>5 DEF ResumeActivity, panel, queue
  <2> HIDE DEF view
  <2> QED BY <1>0, <1>2, <2>3, <2>4, <2>5 DEF ValuesOK
<1>6. CASE PauseActivity
  BY <1>0, <1>2, <1>6 DEF PauseActivity, BackgroundState, ValuesOK, queue
<1>7. CASE StopActivity \/ DestroyActivity \/ ScreenSurface \/ NativeSteps \/ UNCHANGED screenVars
  BY <1>0, <1>7 DEF StopActivity, DestroyActivity, ScreenSurface, NativeSteps, ValuesOK, control,
     panel, queue, screenVars
<1>8. CASE NetworkChanges
  BY <1>0, <1>8 DEF NetworkChanges, ValuesOK, control, panel, queue
<1>9. CASE Tap \/ SwipeBegins \/ SwipeEnds \/ DragBegins \/ DragEnds
  BY <1>0, <1>1, <1>9 DEF Tap, PanelShown, HidePanel, SwipeBegins, SwipeEnds, DragBegins,
     DragEnds, TicksAfterDrag, ValuesOK, control
<1>10. CASE SeekMessage
  BY <1>0, <1>10 DEF SeekMessage, ValuesOK, control
<1>11. CASE ProgressMessage
  BY <1>0, <1>1, <1>11 DEF ProgressMessage, ValuesOK, control, panel
<1>12. CASE Reveal \/ AutoPlayRun
  BY <1>0, <1>1, <1>12 DEF Reveal, PanelShown, AutoPlayStart, AutoPlayRun, ValuesOK, control
<1>13. CASE HandleNative
  <2> DEFINE what == Head(video.inbox).what
  <2>1. /\ StatusChange(what)
        /\ UNCHANGED <<life, network, currentUrl, currentPosition, bgState, newPosition, history, ticks>>
    BY <1>13 DEF HandleNative, panel
  <2> HIDE DEF what
  <2>2. /\ status' \in {status, "PAUSED", "PLAYING", "PREPARING", "ERROR"}
        /\ revealsPosted' \in {revealsPosted, Saturated(revealsPosted)}
    BY <2>1 DEF StatusChange
  <2> QED BY <1>0, <1>1, <2>1, <2>2 DEF ValuesOK
<1> QED BY <1>3, <1>4, <1>5, <1>6, <1>7, <1>8, <1>9, <1>10, <1>11, <1>12, <1>13 DEF ScreenNext

----------------------------------------------------------------------------
\* The invariant holds in every reachable state of the screen.
THEOREM ScreenCorrect == ScreenSpec => []ScreenInv
<1>1. ScreenInv /\ [ScreenNext]_screenVars => ScreenInv'
  BY ViewKept, FlagsKept, ValuesKept, SilentKept, PanelKept DEF ScreenInv
<1> QED BY InitScreenInv, <1>1, PTL DEF ScreenSpec

\* The fields of the screen and of its view have their types.
THEOREM ScreenTypeCorrect == ScreenSpec => []ScreenTypeOK
<1>1. ScreenInv => ScreenTypeOK
  BY DEF ScreenInv, Inv, FlagsOK, ValuesOK, ScreenTypeOK
<1> QED BY ScreenCorrect, <1>1, PTL

\* No player outlives the screen.
THEOREM DestroyedIsSilentHolds == ScreenSpec => []DestroyedIsSilent
<1>1. ScreenInv => DestroyedIsSilent
  BY DEF ScreenInv, Silent, DestroyedIsSilent
<1> QED BY ScreenCorrect, <1>1, PTL

\* A video the user paused does not start by itself.
THEOREM UserPauseKeptHolds == ScreenSpec => []UserPauseKept
<1>1. ScreenInv => UserPauseKept
  BY DEF ScreenInv, Obeyed, Quiet, UserPauseKept
<1> QED BY ScreenCorrect, <1>1, PTL

\* A shown panel that nobody drags has its progress message waiting.
THEOREM ShownPanelTicksHolds == ScreenSpec => []ShownPanelTicks
<1>1. ScreenInv => ShownPanelTicks
  BY DEF ScreenInv
<1> QED BY ScreenCorrect, <1>1, PTL

\* What plays was let through: with the user's consent, or on a network that is
\* none of 2G, 3G and 4G, however the network changes.
THEOREM NothingPlaysUnaskedHolds == ScreenSpec => []NothingPlaysUnasked
<1>1. ScreenInv => NothingPlaysUnasked
  BY DEF ScreenInv, Asked, Quiet, NothingPlaysUnasked
<1> QED BY ScreenCorrect, <1>1, PTL

----------------------------------------------------------------------------
(***************************************************************************)
(* A screen that is to play.  What Awaited says of a view under any client *)
(* is stronger under the calls of PlayerView: a video is rendered on a     *)
(* texture, which waits for no size, and a resumed screen has opened its   *)
(* player as soon as it has a surface.                                     *)
(***************************************************************************)

CompletedSaid(v) == \E i \in 1 .. Len(v.inbox) : v.inbox[i].what = "completed"

\* A player that has run belongs to a view in a playback state.
Ran(v) == v.phase \in {"started", "paused", "completed"} => v.current \in Playback

\* A view that is to play has no paused player, and one whose player is at its end
\* has not heard of it.
Busy(v) ==
  v.target = "PLAYING" => v.phase # "paused" /\ (v.phase = "completed" => CompletedSaid(v))

\* A view that knows that its player is prepared, and is to play, plays.
Prompt(v) == ~(v.phase = "prepared" /\ v.current = "PREPARED" /\ v.target = "PLAYING")

Eager(v) == Ran(v) /\ Busy(v) /\ (~Live => Prompt(v))

\* The stream of the screen, on the render view its kind of stream is shown on.
Placed(v) == v.uri \in Uris /\ v.kind = (IF Live THEN "surface" ELSE "texture")

\* A view without a player has no surface to open one on, or is not to play.
Bound(v) == v.phase = "none" => v.holder = "null" \/ (Live /\ v.target # "PLAYING")

PlayInv ==
  /\ Awaited(video) /\ Eager(video) /\ Placed(video)
  /\ life = "resumed" => Bound(video)

\* What a resumed screen that is to play is doing, unless its player has failed: it
\* waits for a surface, prepares, has the player's word that it is prepared or at
\* its end to handle, waits for the surface to take the size of a live picture, or
\* plays.
PlayUnderWay ==
  life = "resumed" /\ video.target = "PLAYING" /\ video.phase # "broken" =>
    \/ video.phase = "none" /\ video.holder = "null"
    \/ video.phase = "preparing"
    \/ video.phase = "prepared" /\ PreparedSaid(video)
    \/ Live /\ video.phase = "prepared" /\ (video.surface = "absent" \/ video.shown # video.fixed)
    \/ video.phase = "started"
    \/ video.phase = "completed" /\ CompletedSaid(video)

----------------------------------------------------------------------------
\* The calls keep a view eager,
LEMMA EagerCalls ==
  ASSUME NEW v \in View, Eager(v)
  PROVE  /\ Eager(Start(v)) /\ Eager(Pause(v)) /\ Eager(SetRender(v))
         /\ \A position \in Positions : Eager(SeekTo(v, position))
         /\ \A clear \in BOOLEAN : Eager(ReleasePlayer(v, clear))
         /\ \A opened \in BOOLEAN : Eager(OpenVideo(v, opened))
<1> USE DEF Eager, Ran, Busy, Prompt, CompletedSaid, Playback, View
<1>1. Eager(Start(v))
  BY DEF Start, NativeStarted, InPlaybackState
<1>2. Eager(Pause(v))
  BY DEF Pause, IsPlaying, InPlaybackState
<1>3. Eager(SetRender(v))
  BY DEF SetRender
<1>4. \A position \in Positions : Eager(SeekTo(v, position))
  BY DEF SeekTo
<1>5. \A clear \in BOOLEAN : Eager(ReleasePlayer(v, clear))
  BY DEF ReleasePlayer, WithoutPlayer
<1>6. \A opened \in BOOLEAN : Eager(OpenVideo(v, opened))
  BY DEF OpenVideo, ReleasePlayer, WithoutPlayer
<1> QED BY <1>1, <1>2, <1>3, <1>4, <1>5, <1>6

\* and leave its address and its render view alone.
LEMMA PlacedCalls ==
  ASSUME NEW v \in View
  PROVE  /\ Placed(v) => Placed(Start(v)) /\ Placed(Pause(v))
         /\ \A position \in Positions : Placed(v) => Placed(SeekTo(v, position))
         /\ \A clear \in BOOLEAN : Placed(v) => Placed(ReleasePlayer(v, clear))
         /\ \A opened \in BOOLEAN : Placed(v) => Placed(OpenVideo(v, opened))
         /\ \A opened \in BOOLEAN, uri \in Uris :
              v.kind = (IF Live THEN "surface" ELSE "texture") => Placed(SetVideoURI(v, uri, opened))
         /\ SetRender(v).kind = "texture"
<1> USE DEF Placed, View
<1>1. Placed(v) => Placed(Start(v)) /\ Placed(Pause(v))
  BY DEF Start, NativeStarted, Pause
<1>2. \A position \in Positions : Placed(v) => Placed(SeekTo(v, position))
  BY DEF SeekTo
<1>3. \A clear \in BOOLEAN : Placed(v) => Placed(ReleasePlayer(v, clear))
  BY DEF ReleasePlayer, WithoutPlayer
<1>4. \A opened \in BOOLEAN : Placed(v) => Placed(OpenVideo(v, opened))
  BY DEF OpenVideo, ReleasePlayer, WithoutPlayer
<1>5. \A opened \in BOOLEAN, uri \in Uris :
        v.kind = (IF Live THEN "surface" ELSE "texture") => Placed(SetVideoURI(v, uri, opened))
  BY DEF SetVideoURI, OpenVideo, ReleasePlayer, WithoutPlayer
<1>6. SetRender(v).kind = "texture"
  BY DEF SetRender
<1> QED BY <1>1, <1>2, <1>3, <1>4, <1>5, <1>6

\* A view that opens is without a player only when it is without a surface, and
\* stays so when it is started, paused or sent to a position.
LEMMA BoundCalls ==
  ASSUME NEW v \in View
  PROVE  /\ \A opened \in BOOLEAN :
              Placed(v) => (OpenVideo(v, opened).phase = "none" => OpenVideo(v, opened).holder = "null")
         /\ \A opened \in BOOLEAN, uri \in Uris :
              SetVideoURI(v, uri, opened).phase = "none" => SetVideoURI(v, uri, opened).holder = "null"
         /\ Start(v).phase = "none" => v.phase = "none" /\ Start(v).holder = v.holder
         /\ Pause(v).phase = "none" => v.phase = "none" /\ Pause(v).holder = v.holder
                                       /\ Pause(v).target # "PLAYING"
         /\ \A position \in Positions :
              /\ SeekTo(v, position).phase = v.phase /\ SeekTo(v, position).holder = v.holder
              /\ SeekTo(v, position).target = v.target
<1> USE NoUriAssumption DEF View
<1>1. \A opened \in BOOLEAN :
        Placed(v) => (OpenVideo(v, opened).phase = "none" => OpenVideo(v, opened).holder = "null")
  BY DEF Placed, OpenVideo, ReleasePlayer, WithoutPlayer
<1>2. \A opened \in BOOLEAN, uri \in Uris :
        SetVideoURI(v, uri, opened).phase = "none" => SetVideoURI(v, uri, opened).holder = "null"
  BY DEF SetVideoURI, OpenVideo, ReleasePlayer, WithoutPlayer
<1>3. Start(v).phase = "none" => v.phase = "none" /\ Start(v).holder = v.holder
  BY DEF Start, NativeStarted
<1>4. Pause(v).phase = "none" => v.phase = "none" /\ Pause(v).holder = v.holder
                                 /\ Pause(v).target # "PLAYING"
  BY DEF Pause
<1>5. \A position \in Positions :
        /\ SeekTo(v, position).phase = v.phase /\ SeekTo(v, position).holder = v.holder
        /\ SeekTo(v, position).target = v.target
  BY DEF SeekTo
<1> QED BY <1>1, <1>2, <1>3, <1>4, <1>5

\* An address that is set keeps what is awaited and the eagerness.
LEMMA SetVideoURIGoesOn ==
  ASSUME NEW v \in View, Sound(v), Awaited(v), Eager(v), NEW uri \in Uris, NEW opened \in BOOLEAN
  PROVE  Awaited(SetVideoURI(v, uri, opened)) /\ Eager(SetVideoURI(v, uri, opened))
<1> DEFINE asked == [v EXCEPT !.uri = uri, !.seek = 0]
<1>1. asked \in View
  <2>1. uri \in Uris \cup {NoUri} /\ 0 \in Positions
    BY Stored
  <2> QED BY <2>1, Zenon DEF View
<1>2. Sound(asked)
  BY DEF View, Sound, PostsAgree, RunningAgrees, SeekAgrees, DisplayAgrees, NothingPosted,
         InPlaybackState
<1>3. Awaited(asked)
  BY DEF View, Awaited, SizesAgree, PhaseAgrees, MessagesAgree, WaitAgrees, PreparedSaid
<1>4. Eager(asked)
  BY DEF View, Eager, Ran, Busy, Prompt, CompletedSaid
<1> HIDE DEF asked
<1>5. Awaited(OpenVideo(asked, opened)) /\ Eager(OpenVideo(asked, opened))
  BY <1>1, <1>2, <1>3, <1>4, OpenVideoAwaited, EagerCalls
<1> QED BY <1>5 DEF SetVideoURI, asked

----------------------------------------------------------------------------
\* Surfaces that come and take their size, or go.
LEMMA WindowGoesOn ==
  ASSUME video \in View, Sound(video), Eager(video), Placed(video), Window
  PROVE  /\ Eager(video') /\ Placed(video')
         /\ Bound(video) /\ ~SurfaceDestroyed => Bound(video')
<1>1. CASE SurfaceCreated
  <2>1. PICK opened \in BOOLEAN : video' = OnSurfaceCreated(video, opened)
    BY <1>1 DEF SurfaceCreated
  <2> DEFINE held == [video EXCEPT !.holder = "current", !.surface = "present", !.shown = 0]
             bound == [held EXCEPT !.display = "current"]
  <2>2. held \in View
    <3>1. "current" \in {"null", "current", "removed"} /\ "present" \in {"absent", "present"}
          /\ 0 \in Sizes \cup {0, LayoutSize}
      OBVIOUS
    <3> QED BY <3>1, Zenon DEF View
  <2>3. Eager(held) /\ Eager(bound) /\ Placed(held) /\ Placed(bound)
    BY DEF View, Eager, Ran, Busy, Prompt, CompletedSaid, Placed
  <2>4. video' = IF video.phase # "none" THEN bound ELSE OpenVideo(held, opened)
    BY <2>1 DEF OnSurfaceCreated
  <2>5. bound.phase = video.phase
    BY DEF View
  <2> HIDE DEF held, bound
  <2>6. CASE video.phase # "none"
    BY <2>3, <2>4, <2>5, <2>6 DEF Bound
  <2>7. CASE video.phase = "none"
    BY <2>2, <2>3, <2>4, <2>7, EagerCalls, PlacedCalls, BoundCalls DEF Bound
  <2> QED BY <2>6, <2>7
<1>2. CASE SurfaceChanged
  <2> DEFINE sized == [video EXCEPT !.surfaceWidth = video.fixed, !.shown = video.fixed]
             sought == IF video.seek # 0 THEN SeekTo(sized, video.seek) ELSE sized
  <2>1. video.fixed \in Sizes \cup {0, LayoutSize} /\ video.seek \in Positions
    BY DEF View
  <2>2. sized \in View
    BY <2>1, Zenon DEF View
  <2>3. /\ Eager(sized) /\ Placed(sized)
        /\ sized.phase = video.phase /\ sized.holder = video.holder /\ sized.target = video.target
    BY DEF View, Eager, Ran, Busy, Prompt, CompletedSaid, Placed
  <2>4. video' = sized \/ (video.phase # "none" /\ video' = Start(sought))
    BY <1>2 DEF SurfaceChanged, OnSurfaceChanged
  <2> HIDE DEF sized
  <2>5. /\ sought \in View /\ Eager(sought) /\ Placed(sought)
        /\ sought.phase = video.phase
    BY <2>1, <2>2, <2>3, SeekToType, EagerCalls, PlacedCalls, BoundCalls
  <2> HIDE DEF sought
  <2>6. Eager(Start(sought)) /\ Placed(Start(sought)) /\ (video.phase # "none" => Start(sought).phase # "none")
    BY <2>5, EagerCalls, PlacedCalls, BoundCalls
  <2> QED BY <2>3, <2>4, <2>6 DEF Bound
<1>3. CASE SurfaceDestroyed
  BY <1>3 DEF SurfaceDestroyed, OnSurfaceDestroyed, ReleaseWithoutStop, View, Eager, Ran, Busy,
     Prompt, CompletedSaid, Placed
<1> QED BY <1>1, <1>2, <1>3 DEF Window

\* A message that is posted takes none of the others away.
LEMMA PostedGoesOn ==
  ASSUME NEW v \in View, NEW event \in Events, Ran(v), Placed(v), ~Live => Prompt(v),
         v.target = "PLAYING" => v.phase # "paused",
         v.target = "PLAYING" /\ v.phase = "completed" => CompletedSaid(v) \/ event.what = "completed"
  PROVE  Eager(Post(v, event)) /\ Placed(Post(v, event)) /\ Post(v, event).phase = v.phase
<1> DEFINE posted == Post(v, event)
<1>1. /\ v.inbox \in Seq(Events) /\ Len(v.inbox) \in Nat
      /\ Len(Append(v.inbox, event)) = Len(v.inbox) + 1
      /\ \A i \in 1 .. Len(v.inbox) : Append(v.inbox, event)[i] = v.inbox[i]
      /\ Append(v.inbox, event)[Len(v.inbox) + 1] = event
  BY DEF View
<1>2. /\ posted.inbox = Append(v.inbox, event)
      /\ posted.phase = v.phase /\ posted.current = v.current /\ posted.target = v.target
      /\ posted.uri = v.uri /\ posted.kind = v.kind
  BY DEF Post, View
<1> HIDE DEF posted
<1>3. CompletedSaid(v) \/ event.what = "completed" => CompletedSaid(posted)
  <2>1. ASSUME NEW i \in 1 .. Len(v.inbox), v.inbox[i].what = "completed"
        PROVE  CompletedSaid(posted)
    <3>1. i \in 1 .. Len(posted.inbox) /\ posted.inbox[i] = v.inbox[i]
      BY <1>1, <1>2
    <3> QED BY <2>1, <3>1 DEF CompletedSaid
  <2>2. ASSUME event.what = "completed"
        PROVE  CompletedSaid(posted)
    <3>1. Len(v.inbox) + 1 \in 1 .. Len(posted.inbox) /\ posted.inbox[Len(v.inbox) + 1] = event
      BY <1>1, <1>2
    <3> QED BY <2>2, <3>1 DEF CompletedSaid
  <2> QED BY <2>1, <2>2 DEF CompletedSaid
<1>4. Eager(posted) /\ Placed(posted)
  BY <1>2, <1>3 DEF Eager, Ran, Busy, Prompt, Placed
<1> QED BY <1>2, <1>4 DEF posted

\* What the player does and posts by itself.
LEMMA NativeGoesOn ==
  ASSUME video \in View, Awaited(video), Eager(video), Placed(video), Native
  PROVE  Eager(video') /\ Placed(video') /\ video'.phase # "none"
<1>0. Event("prepared", 0) \in Events /\ Event("completed", 0) \in Events /\ Event("error", 0) \in Events
      /\ Event("completed", 0).what = "completed"
  BY DEF Event, Events
<1>1. CASE NativeSize
  <2>1. PICK size \in Sizes : video' = Post(video, Event("size", size))
    BY <1>1 DEF NativeSize
  <2>2. Event("size", size) \in Events
    BY DEF Event, Events
  <2>3. video.phase # "none"
    BY <1>1 DEF NativeSize, Alive
  <2> QED BY <2>1, <2>2, <2>3, PostedGoesOn DEF Eager, Busy
<1>2. CASE NativePrepared
  <2> DEFINE ready == [video EXCEPT !.phase = "prepared"]
  <2>1. video.phase = "preparing" /\ video' = Post(ready, Event("prepared", 0))
    BY <1>2 DEF NativePrepared
  <2>2. ready \in View
    BY Stored, Zenon DEF View
  <2>3. ready.phase = "prepared" /\ ready.current = "PREPARING" /\ Placed(ready)
    BY <2>1 DEF View, Awaited, PhaseAgrees, Placed
  <2> HIDE DEF ready
  <2> QED BY <1>0, <2>1, <2>2, <2>3, PostedGoesOn DEF Ran, Prompt
<1>3. CASE NativeCompleted
  <2> DEFINE over == [video EXCEPT !.phase = "completed"]
  <2>1. video.phase = "started" /\ video' = Post(over, Event("completed", 0))
    BY <1>3 DEF NativeCompleted
  <2>2. over \in View
    BY Stored, Zenon DEF View
  <2>3. over.phase = "completed" /\ Ran(over) /\ Placed(over)
    BY <2>1 DEF View, Eager, Ran, Placed
  <2> HIDE DEF over
  <2> QED BY <1>0, <2>1, <2>2, <2>3, PostedGoesOn DEF Prompt
<1>4. CASE NativeFailed
  <2> DEFINE lost == [video EXCEPT !.phase = "broken"]
  <2>1. video' = Post(lost, Event("error", 0))
    BY <1>4 DEF NativeFailed
  <2>2. lost \in View
    BY Stored, Zenon DEF View
  <2>3. lost.phase = "broken" /\ Placed(lost)
    BY DEF View, Placed
  <2> HIDE DEF lost
  <2> QED BY <1>0, <2>1, <2>2, <2>3, PostedGoesOn DEF Ran, Prompt
<1>5. CASE NativeInforms
  <2>1. PICK what \in Infos : video' = Post(video, Event(what, 0))
    BY <1>5 DEF NativeInforms
  <2>2. Event(what, 0) \in Events
    BY DEF Event, Events
  <2>3. video.phase # "none"
    BY <1>5 DEF NativeInforms, Alive
  <2> QED BY <2>1, <2>2, <2>3, PostedGoesOn DEF Eager, Busy
<1>6. CASE NativeAdvances
  BY <1>6 DEF NativeAdvances, View, Eager, Ran, Busy, Prompt, CompletedSaid, Placed
<1> QED BY <1>1, <1>2, <1>3, <1>4, <1>5, <1>6 DEF Native

\* A view on a texture that hears of its prepared player starts it at once.
LEMMA PreparedGoesOn ==
  ASSUME NEW v \in View, Placed(v), v.phase # "none", Busy(v)
  PROVE  Eager(OnPrepared(v)) /\ Placed(OnPrepared(v)) /\ OnPrepared(v).phase # "none"
<1> DEFINE counted == [v EXCEPT !.current = "PREPARED"]
           ready == Resized(counted, v.size)
           sought == IF v.seek # 0 THEN SeekTo(ready, v.seek) ELSE ready
<1>1. v.size \in Sizes \cup {0} /\ v.seek \in Positions
  BY DEF View
<1>2. counted \in View
  BY Stored, Zenon DEF View
<1>3. ready \in View
  <2> HIDE DEF counted
  <2> QED BY <1>1, <1>2, ResizedType
<1>4. sought \in View
  <2> HIDE DEF ready
  <2> QED BY <1>1, <1>3, SeekToType
<1>5. /\ sought.phase = v.phase /\ sought.current = "PREPARED" /\ sought.target = v.target
      /\ sought.kind = v.kind /\ sought.uri = v.uri /\ sought.inbox = v.inbox
  <2>1. /\ ready.phase = v.phase /\ ready.current = "PREPARED" /\ ready.target = v.target
        /\ ready.kind = v.kind /\ ready.uri = v.uri /\ ready.inbox = v.inbox
    BY DEF Resized, View
  <2> HIDE DEF ready
  <2> QED BY <1>3, <2>1 DEF SeekTo, View
<1>6. OnPrepared(v) = IF v.target = "PLAYING" /\ (v.size = 0 \/ HasValidSize(sought)) THEN Start(sought) ELSE sought
  BY DEF OnPrepared
<1> HIDE DEF sought
<1>7. Placed(sought) /\ Ran(sought) /\ Busy(sought)
  BY <1>5 DEF Placed, Ran, Busy, Playback, CompletedSaid
<1>8. CASE OnPrepared(v) = sought /\ (~Live => v.target # "PLAYING")
  BY <1>5, <1>7, <1>8 DEF Eager, Prompt
<1>9. CASE OnPrepared(v) = Start(sought)
  <2>1. Eager(Start(sought))
    BY <1>4, <1>5, <1>7 DEF Start, NativeStarted, InPlaybackState, View, Eager, Ran, Busy, Prompt,
       Playback, CompletedSaid
  <2>2. Placed(Start(sought)) /\ Start(sought).phase # "none"
    BY <1>4, <1>5, <1>7, PlacedCalls, BoundCalls
  <2> QED BY <1>9, <2>1, <2>2
<1>10. ~Live => HasValidSize(sought)
  BY <1>5 DEF Placed, HasValidSize
<1> QED BY <1>6, <1>8, <1>9, <1>10

\* Every message that is delivered.
LEMMA HandledGoesOn ==
  ASSUME NEW v \in View, Sound(v), Awaited(v), Eager(v), Placed(v), v.inbox # << >>
  PROVE  Eager(Handled(v)) /\ Placed(Handled(v)) /\ Handled(v).phase # "none"
<1> DEFINE event == Head(v.inbox)
           rest == [v EXCEPT !.inbox = Tail(v.inbox)]
<1>1. /\ v.inbox \in Seq(Events) /\ Len(v.inbox) \in Nat \ {0}
      /\ event = v.inbox[1] /\ event \in Events /\ 1 \in 1 .. Len(v.inbox)
      /\ Tail(v.inbox) \in Seq(Events) /\ Len(Tail(v.inbox)) = Len(v.inbox) - 1
      /\ \A i \in 1 .. Len(Tail(v.inbox)) : Tail(v.inbox)[i] = v.inbox[i + 1]
  BY DEF View
<1>2. /\ event.what \in {"prepared", "size", "completed", "error"} \cup Infos
      /\ event.size \in Sizes \cup {0}
  BY <1>1 DEF Events
<1>3. rest \in View
  BY <1>1, Zenon DEF View
<1>4. /\ rest.phase = v.phase /\ rest.current = v.current /\ rest.target = v.target
      /\ rest.uri = v.uri /\ rest.kind = v.kind /\ rest.inbox = Tail(v.inbox)
  BY DEF View
<1>5. v.phase # "none"
  BY DEF Sound, NothingPosted
<1>6. \/ event.what = "prepared" /\ Handled(v) = OnPrepared(rest)
      \/ event.what = "size" /\ Handled(v) = OnVideoSizeChanged(rest, event.size)
      \/ event.what = "completed" /\ Handled(v) = OnCompletion(rest)
      \/ event.what = "error" /\ Handled(v) = OnError(rest)
      \/ event.what \in Infos /\ Handled(v) = rest
  BY <1>2, ViewAssumption DEF Handled
<1> HIDE DEF rest, event
<1>7. Placed(rest) /\ Ran(rest) /\ (~Live => Prompt(rest))
  BY <1>4 DEF Placed, Eager, Ran, Prompt
<1>8. event.what # "completed" => Busy(rest)
  <2>1. ASSUME event.what # "completed", NEW i \in 1 .. Len(v.inbox), v.inbox[i].what = "completed"
        PROVE  CompletedSaid(rest)
    <3>1. i # 1
      BY <1>1, <2>1
    <3>2. i - 1 \in 1 .. Len(Tail(v.inbox)) /\ (i - 1) + 1 = i
      BY <1>1, <3>1
    <3>3. Tail(v.inbox)[i - 1] = v.inbox[i]
      BY <1>1, <3>2
    <3> QED BY <1>4, <2>1, <3>2, <3>3 DEF CompletedSaid
  <2> QED BY <1>4, <2>1 DEF Eager, Busy, CompletedSaid
<1>9. CASE event.what = "prepared" /\ Handled(v) = OnPrepared(rest)
  BY <1>3, <1>4, <1>5, <1>7, <1>8, <1>9, PreparedGoesOn
<1>10. CASE event.what = "size" /\ Handled(v) = OnVideoSizeChanged(rest, event.size)
  <2>1. Busy(rest)
    BY <1>8, <1>10
  <2> QED BY <1>3, <1>4, <1>5, <1>7, <1>10, <2>1 DEF OnVideoSizeChanged, Resized, View, Placed, Eager, Ran,
             Busy, Prompt, CompletedSaid
<1>11. CASE event.what = "completed" /\ Handled(v) = OnCompletion(rest)
  BY <1>3, <1>4, <1>5, <1>7, <1>11 DEF OnCompletion, View, Placed, Eager, Ran, Busy, Prompt, Playback
<1>12. CASE event.what = "error" /\ Handled(v) = OnError(rest)
  <2>1. v.phase = "broken"
    BY <1>1, <1>12 DEF Sound, PostsAgree
  <2> QED BY <1>3, <1>4, <1>7, <1>12, <2>1 DEF OnError, View, Placed, Eager, Ran, Busy, Prompt
<1>13. CASE event.what \in Infos /\ Handled(v) = rest
  BY <1>4, <1>5, <1>7, <1>8, <1>13, ViewAssumption DEF Eager
<1> QED BY <1>6, <1>9, <1>10, <1>11, <1>12, <1>13

----------------------------------------------------------------------------
\* startPlay: what it does not open again must be open, or wait for a surface.
LEMMA StartPlayGoesOn ==
  ASSUME NEW v \in View, Sound(v), Awaited(v), Eager(v), NEW url \in Uris, NEW position,
         NEW again \in BOOLEAN, NEW askNetwork, ~Live => position \in Positions,
         Live => v.kind = "surface",
         ~Live /\ ~again => Placed(v) /\ Bound(v),
         StartPlay(v, url, position, again, askNetwork)
  PROVE  Awaited(video') /\ Eager(video') /\ Placed(video') /\ Bound(video')
<1>1. PICK opened \in BOOLEAN :
        video' = Played(Opened(v, url, position, again, opened), askNetwork)
  BY DEF StartPlay
<1> DEFINE set == SetVideoURI(v, url, opened)
           turned == SetVideoURI(SetRender(v), url, opened)
           open == Opened(v, url, position, again, opened)
           Going(w) == w \in View /\ Awaited(w) /\ Eager(w) /\ Placed(w)
           Shut(w) == w.phase = "none" => w.holder = "null"
<1>2. 0 \in Positions /\ Live \in BOOLEAN
  BY Stored, ScreenAssumption
<1>3. SetRender(v) \in View /\ Sound(SetRender(v)) /\ Awaited(SetRender(v)) /\ Eager(SetRender(v))
      /\ SetRender(v).kind = "texture"
  BY SetRenderSound, SetRenderAwaited, EagerCalls, PlacedCalls
<1>4. CASE Live
  <2>1. Going(set) /\ Shut(set)
    BY <1>4, SetVideoURISound, SetVideoURIGoesOn, PlacedCalls, BoundCalls
  <2>2. open = SeekTo(set, 0)
    BY <1>4 DEF Opened
  <2> HIDE DEF set, open
  <2>3. Going(open) /\ Shut(open)
    BY <1>2, <2>1, <2>2, SeekToType, SeekToAwaited, EagerCalls, PlacedCalls, BoundCalls
  <2>4. Awaited(Start(open)) /\ Eager(Start(open)) /\ Placed(Start(open)) /\ Shut(Start(open))
    BY <2>3, StartAwaited, EagerCalls, PlacedCalls, BoundCalls
  <2>5. video' = open \/ video' = Start(open)
    BY <1>1 DEF Played, open
  <2> QED BY <2>3, <2>4, <2>5 DEF Bound
<1>5. CASE ~Live
  <2>1. ASSUME again PROVE Going(open) /\ Shut(open)
    <3>1. Going(turned) /\ Shut(turned)
      BY <1>3, <1>5, SetVideoURISound, SetVideoURIGoesOn, PlacedCalls, BoundCalls
    <3>2. open = SeekTo(turned, position)
      BY <1>5, <2>1 DEF Opened
    <3> HIDE DEF turned, open
    <3> QED BY <1>5, <3>1, <3>2, SeekToType, SeekToAwaited, EagerCalls, PlacedCalls, BoundCalls
  <2>2. ASSUME ~again PROVE Going(open) /\ Shut(open)
    <3>1. open = v
      BY <1>5, <2>2 DEF Opened
    <3> HIDE DEF open
    <3> QED BY <1>5, <2>2, <3>1 DEF Bound
  <2>3. Going(open) /\ Shut(open)
    BY <2>1, <2>2
  <2> HIDE DEF open
  <2>4. Awaited(Start(open)) /\ Eager(Start(open)) /\ Placed(Start(open)) /\ Shut(Start(open))
    BY <2>3, StartAwaited, EagerCalls, PlacedCalls, BoundCalls
  <2>5. video' = open \/ video' = Start(open)
    BY <1>1 DEF Played, open
  <2> QED BY <2>3, <2>4, <2>5 DEF Bound
<1> QED BY <1>4, <1>5

\* A screen opens on a new view, which has no surface yet.
LEMMA InitPlayInv == ScreenInit => PlayInv
<1> SUFFICES ASSUME ScreenInit PROVE PlayInv
  OBVIOUS
<1> DEFINE turned == SetVideoURI(SetRender(NewView), FirstStream, TRUE)
           live == SetVideoURI(NewView, FirstStream, TRUE)
           open == Opened(NewView, FirstStream, 0, TRUE, TRUE)
           Going(w) == w \in View /\ Awaited(w) /\ Eager(w) /\ Placed(w)
<1>1. FirstStream \in Uris /\ 0 \in Positions /\ Live \in BOOLEAN
  BY ScreenAssumption, Stored
<1>2. NewView \in View /\ Sound(NewView) /\ Awaited(NewView) /\ Eager(NewView) /\ NewView.kind = "surface"
  BY NewViewSound DEF NewView, Awaited, SizesAgree, PhaseAgrees, MessagesAgree, WaitAgrees, Eager, Ran,
     Busy, Prompt
<1>3. /\ SetRender(NewView) \in View /\ Sound(SetRender(NewView)) /\ Awaited(SetRender(NewView))
      /\ Eager(SetRender(NewView)) /\ SetRender(NewView).kind = "texture"
  BY <1>2, SetRenderSound, SetRenderAwaited, EagerCalls, PlacedCalls
<1>4. (Live => Going(live)) /\ (~Live => Going(turned))
  BY <1>1, <1>2, <1>3, SetVideoURISound, SetVideoURIGoesOn, PlacedCalls
<1>5. open = IF Live THEN SeekTo(live, 0) ELSE SeekTo(turned, 0)
  BY DEF Opened
<1> HIDE DEF turned, live, open
<1>6. Going(open)
  BY <1>1, <1>4, <1>5, SeekToType, SeekToAwaited, EagerCalls, PlacedCalls
<1>7. video = open \/ video = Start(open)
  BY DEF ScreenInit, Played, open
<1>8. Awaited(video) /\ Eager(video) /\ Placed(video)
  BY <1>6, <1>7, StartAwaited, EagerCalls, PlacedCalls
<1> QED BY <1>8 DEF PlayInv, ScreenInit

\* Every step of the screen keeps it.
LEMMA PlayStep == ScreenInv /\ PlayInv /\ [ScreenNext]_screenVars => PlayInv'
<1> SUFFICES ASSUME ScreenInv, PlayInv, [ScreenNext]_screenVars PROVE PlayInv'
  OBVIOUS
<1>0. /\ video \in View /\ Sound(video) /\ (~Live => currentPosition \in Positions)
      /\ currentUrl \in Uris /\ 0 \in Positions /\ newPosition \in Positions \cup {NoPosition}
      /\ isHasSwitchStream \in BOOLEAN /\ Live \in BOOLEAN
      /\ Awaited(video) /\ Eager(video) /\ Placed(video) /\ (life = "resumed" => Bound(video))
  BY Stored, ScreenAssumption DEF ScreenInv, Inv, TypeOK, ValuesOK, FlagsOK, PlayInv
<1> DEFINE Going(w) == Awaited(w) /\ Eager(w) /\ Placed(w)
<1>1. CASE ClickToPlay \/ ClickNetTie
  <2>1. PICK askNetwork : StartPlay(video, currentUrl, currentPosition,
                                    isHasSwitchStream \/ status = "ERROR", askNetwork)
    BY <1>1 DEF ClickToPlay, ClickNetTie
  <2>2. life = "resumed" /\ (isHasSwitchStream \/ status = "ERROR") \in BOOLEAN
    BY <1>0, <1>1 DEF ClickToPlay, ClickNetTie, CanClickPlay
  <2>3. Live => video.kind = "surface"
    BY <1>0 DEF Placed
  <2> QED BY <1>0, <2>1, <2>2, <2>3, StartPlayGoesOn DEF PlayInv
<1>2. CASE Replay
  <2>1. StartPlay(video, currentUrl, currentPosition, TRUE, isGNetWork)
    BY <1>2 DEF Replay
  <2>2. Live => video.kind = "surface"
    BY <1>0 DEF Placed
  <2> QED BY <1>0, <2>1, <2>2, StartPlayGoesOn DEF PlayInv
<1>3. CASE SelectStream
  <2> DEFINE position == IF IsPlaying(video) THEN PositionIn(video) ELSE currentPosition
             view == IF IsPlaying(video) THEN ReleasePlayer(video, FALSE) ELSE video
  <2>1. PICK url \in Uris : StartPlay(view, url, position, TRUE, isGNetWork)
    BY <1>3 DEF SelectStream
  <2>2. view \in View /\ Sound(view) /\ Awaited(view) /\ Eager(view) /\ Placed(view)
    BY <1>0, ReleaseSound, ReleaseAwaited, EagerCalls, PlacedCalls
  <2>3. ~Live => position \in Positions
    BY <1>0, Stored DEF PositionIn, CurrentPosition, View
  <2> HIDE DEF view, position
  <2>4. Live => view.kind = "surface"
    BY <2>2 DEF Placed
  <2> QED BY <2>1, <2>2, <2>3, <2>4, StartPlayGoesOn DEF PlayInv
<1>4. CASE ClickWhilePlaying
  <2>1. CASE Live
    <3>1. video' = ReleasePlayer(video, TRUE) /\ video.phase # "none"
      BY <1>4, <2>1 DEF ClickWhilePlaying, StopPlayback, IsPlaying, InPlaybackState
    <3>2. ReleasePlayer(video, TRUE).target # "PLAYING"
      BY <1>0, <3>1 DEF ReleasePlayer, WithoutPlayer, View
    <3> QED BY <1>0, <2>1, <3>1, <3>2, ReleaseAwaited, EagerCalls, PlacedCalls DEF Bound, PlayInv
  <2>2. CASE ~Live
    <3>1. video' = Pause(video) /\ life = "resumed"
      BY <1>4, <2>2 DEF ClickWhilePlaying, CanClickPlay
    <3> QED BY <1>0, <3>1, PauseAwaited, EagerCalls, PlacedCalls, BoundCalls DEF Bound, PlayInv
  <2> QED BY <2>1, <2>2
<1>5. CASE DragEnds \/ SeekMessage
  <2>1. life' = life /\ (video' = video \/ \E position \in Positions : video' = SeekTo(video, position))
    BY <1>0, <1>5 DEF DragEnds, SeekMessage, NoPosition
  <2> QED BY <1>0, <2>1, SeekToAwaited, EagerCalls, PlacedCalls, BoundCalls DEF Bound, PlayInv
<1>6. CASE ResumeActivity
  <2>1. PICK opened \in BOOLEAN :
          \/ video' = SeekTo(OpenVideo(video, opened), ResumePosition)
          \/ video' = Pause(SeekTo(OpenVideo(video, opened), ResumePosition))
    BY <1>6 DEF ResumeActivity
  <2> DEFINE open == OpenVideo(video, opened)
             view == SeekTo(open, ResumePosition)
  <2>2. ResumePosition \in Positions
    BY <1>0 DEF ResumePosition
  <2>3. open \in View /\ Going(open) /\ Bound(open)
    BY <1>0, OpenVideoSound, OpenVideoAwaited, EagerCalls, PlacedCalls, BoundCalls DEF Bound
  <2> HIDE DEF open
  <2>4. view \in View /\ Going(view) /\ Bound(view)
    BY <2>2, <2>3, SeekToType, SeekToAwaited, EagerCalls, PlacedCalls, BoundCalls DEF Bound
  <2>5. video' \in {view, Pause(view)}
    BY <2>1 DEF open
  <2> HIDE DEF view
  <2>6. Going(Pause(view)) /\ Bound(Pause(view))
    BY <2>4, PauseAwaited, EagerCalls, PlacedCalls, BoundCalls DEF Bound
  <2> QED BY <2>4, <2>5, <2>6 DEF PlayInv
<1>7. CASE PauseActivity \/ DestroyActivity
  <2>1. life' # "resumed" /\ \E clear \in BOOLEAN : video' = ReleasePlayer(video, clear)
    BY <1>7 DEF PauseActivity, DestroyActivity, Destroyed, StopPlayback
  <2> QED BY <1>0, <2>1, ReleaseAwaited, EagerCalls, PlacedCalls DEF PlayInv
<1>8. CASE ScreenSurface
  <2>1. life' = life /\ Window /\ (life = "resumed" => ~SurfaceDestroyed)
    <3>1. life = "resumed" => SurfaceCreated \/ SurfaceChanged
      BY <1>8 DEF ScreenSurface
    <3>2. SurfaceCreated \/ SurfaceChanged => ~SurfaceDestroyed
      <4>1. SurfaceCreated => ~SurfaceDestroyed
        BY DEF SurfaceCreated, SurfaceDestroyed
      <4>2. video.surface = "present" /\ video' = OnSurfaceChanged(video, video.fixed)
              => video'.surface = "present"
        BY <1>0 DEF OnSurfaceChanged, Start, NativeStarted, SeekTo, View
      <4>3. OnSurfaceDestroyed(video).surface = "absent"
        BY <1>0 DEF OnSurfaceDestroyed, ReleaseWithoutStop, View
      <4> QED BY <4>1, <4>2, <4>3 DEF SurfaceChanged, SurfaceDestroyed
    <3> QED BY <1>8, <3>1, <3>2 DEF ScreenSurface, Window
  <2> QED BY <1>0, <2>1, WindowAwaited, WindowGoesOn DEF PlayInv
<1>9. CASE HandleNative
  <2>1. life' = life /\ video.inbox # << >> /\ video' = Handled(video)
    BY <1>9 DEF HandleNative, Handle
  <2> QED BY <1>0, <2>1, HandledAwaited, HandledGoesOn DEF Bound, PlayInv
<1>10. CASE NativeSteps
  <2>1. life' = life /\ Native
    BY <1>10 DEF NativeSteps
  <2> QED BY <1>0, <2>1, NativeAwaited, NativeGoesOn DEF Bound, PlayInv
<1>11. CASE PanelSteps \/ UNCHANGED screenVars
  <2>1. video' = video /\ (life' = life \/ life' = "stopped")
    BY <1>11 DEF PanelSteps, Tap, SwipeBegins, SwipeEnds, DragBegins, StopActivity,
       NetworkChanges, ProgressMessage, Reveal, AutoPlayRun, screenVars
  <2> QED BY <1>0, <2>1 DEF PlayInv
<1> QED BY <1>1, <1>2, <1>3, <1>4, <1>5, <1>6, <1>7, <1>8, <1>9, <1>10, <1>11
        DEF ScreenNext, PanelSteps

\* A resumed screen that is to play is on its way to, whatever life cycle, clicks,
\* surfaces and messages came before; only a player that has failed is not, since
\* PlayerView hears nothing of it.
THEOREM PlayUnderWayHolds == ScreenSpec => []PlayUnderWay
<1>1. ScreenInv /\ PlayInv => PlayUnderWay
  <2> SUFFICES ASSUME video \in View, PlayInv, life = "resumed", video.target = "PLAYING",
                      video.phase \notin {"broken", "preparing", "started"}
               PROVE  PlayUnderWay
    BY DEF ScreenInv, Inv, TypeOK, PlayUnderWay
  <2>1. video.phase \in {"none", "prepared", "paused", "completed"}
    BY DEF View, Phases
  <2>2. CASE video.phase = "none"
    BY <2>2 DEF PlayInv, Bound, PlayUnderWay
  <2>3. CASE video.phase = "prepared"
    <3>1. PreparedSaid(video) \/ video.current = "PREPARED"
      BY <2>3 DEF PlayInv, Awaited, PhaseAgrees
    <3>2. video.current = "PREPARED" => Live
      BY <2>3 DEF PlayInv, Eager, Prompt
    <3>3. video.current = "PREPARED" => video.surface = "absent" \/ video.shown # video.fixed
      BY <2>3, <3>2 DEF PlayInv, Awaited, WaitAgrees, Placed, View
    <3> QED BY <2>3, <3>1, <3>2, <3>3 DEF PlayUnderWay
  <2>4. CASE video.phase \in {"paused", "completed"}
    BY <2>4 DEF PlayInv, Eager, Busy, PlayUnderWay
  <2> QED BY <2>1, <2>2, <2>3, <2>4
<1> QED BY <1>1, ScreenCorrect, InitPlayInv, PlayStep, PTL DEF ScreenSpec
============================================================================
