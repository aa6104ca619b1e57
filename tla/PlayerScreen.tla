---------------------------- MODULE PlayerScreen ----------------------------
(***************************************************************************)
(* PlayerView on a playing screen (TVPlayFragment, NowPlayFragment): the   *)
(* controls around one VideoView.  Clicks, gestures, the activity's        *)
(* lifecycle, the messages of the handler and those of the native player   *)
(* all run on the main thread, one at a time, in any order in which they   *)
(* can come up.  The screen is configured as both fragments configure it:  *)
(* touch allowed, no charge, the network prompt and the automatic          *)
(* reconnection left at their defaults.                                    *)
(***************************************************************************)
EXTENDS VideoView

CONSTANTS
  Live,          \* what isLive() says of the streams on offer
  FirstStream,   \* the stream the screen opens with
  Networks,      \* what getNetworkType may return: 0, 1 without a connection, 2, 3
                 \* cable and wifi, 4, 5, 6 2G, 3G and 4G, -1 whatever it does not
                 \* list (TD-SCDMA, 5G)
  QueueBound     \* bound: messages of one kind waiting in the handler

ASSUME ScreenAssumption ==
  /\ Live \in BOOLEAN
  /\ FirstStream \in Uris
  /\ Networks \subseteq -1 .. 6
  /\ QueueBound \in Nat \ {0}

VARIABLES
  life,            \* the activity: created, resumed, paused, stopped, destroyed
  network,         \* what getNetworkType returns of the one the device uses
  status,          \* PlayerView's own state
  currentUrl, currentPosition, newPosition,
  bgState,         \* recorded when the screen goes to the background
  isHasSwitchStream, isGNetWork, isDragging, isShowControlPanl,
  mShouldAutoPlay, \* of the runnable that folds the panel
  netTie, replay,  \* the network prompt and the replay prompt are visible
  playIcon,        \* the play button in the middle, iv_player, is visible
  swiping,         \* a horizontal swipe is under way
  ticks,           \* MESSAGE_SHOW_PROGRESS waiting
  seekPosted,      \* MESSAGE_SEEK_NEW_POSITION waiting
  restartPosted,   \* MESSAGE_RESTART_PLAY waiting
  autoPosted,      \* the runnable that folds the panel waits
  revealsPosted,   \* runnables of statusChange waiting, 500 ms each
  wish,            \* history: what the user last asked for
  playedOn         \* history: the network startPlay read when it last started the view

control == << currentPosition, bgState, isHasSwitchStream, isGNetWork, status, currentUrl >>
panel == << isDragging, isShowControlPanl, mShouldAutoPlay, newPosition, swiping >>
queue == << ticks, seekPosted, restartPosted, autoPosted, revealsPosted >>
prompts == << netTie, replay, playIcon >>
history == << wish, playedOn >>
screenVars == << video, life, network, control, panel, queue, prompts, history >>

NoPosition == -1
NoNetwork == -2
Saturated(n) == IF n < QueueBound THEN n + 1 ELSE QueueBound

\* The fields nobody sets after their initial value, except stopPlay, which
\* stores the same value again.
IsErrorStop == TRUE
IsAutoReConnect == TRUE

----------------------------------------------------------------------------
\* startPlay.

NeedsConsent(askNetwork) == askNetwork /\ network \in {4, 5, 6}

PositionIn(view) == IF Live THEN NoPosition ELSE CurrentPosition(view)

\* The view once startPlay has opened what there is to open: a live stream is
\* always opened again, a video when it was switched or has failed.
Opened(view, url, position, again, opened) ==
  IF Live THEN SeekTo(SetVideoURI(view, url, opened), 0)
  ELSE IF again THEN SeekTo(SetVideoURI(SetRender(view), url, opened), position)
  ELSE view

\* Mutant: a prompt that is shown does not keep the video from starting.
PlayedUnasked(view, askNetwork) == Start(view)

Played(view, askNetwork) == IF NeedsConsent(askNetwork) THEN view ELSE Start(view)

StartPlay(view, url, position, again, askNetwork) ==
  /\ \E opened \in BOOLEAN :
       video' = Played(Opened(view, url, position, again, opened), askNetwork)
  /\ isHasSwitchStream' = Live
  /\ netTie' = NeedsConsent(askNetwork)
  /\ replay' = FALSE /\ playIcon' = FALSE
  /\ wish' = IF NeedsConsent(askNetwork) THEN wish ELSE "play"
  /\ playedOn' = IF NeedsConsent(askNetwork) THEN playedOn ELSE network

ScreenInit ==
  /\ life = "created"
  /\ network \in Networks
  /\ LET view == Played(Opened(NewView, FirstStream, 0, TRUE, TRUE), TRUE)
     IN  video = view
  /\ status = "IDLE" /\ currentUrl = FirstStream
  /\ currentPosition = 0 /\ newPosition = NoPosition /\ bgState = 0
  /\ isHasSwitchStream = Live /\ isGNetWork = TRUE
  /\ isDragging = FALSE /\ isShowControlPanl = FALSE /\ mShouldAutoPlay = FALSE
  /\ netTie = NeedsConsent(TRUE) /\ replay = FALSE /\ playIcon = FALSE /\ swiping = FALSE
  /\ ticks = 0 /\ seekPosted = FALSE /\ restartPosted = FALSE
  /\ autoPosted = FALSE /\ revealsPosted = 0
  /\ wish = IF NeedsConsent(TRUE) THEN "none" ELSE "play"
  /\ playedOn = IF NeedsConsent(TRUE) THEN NoNetwork ELSE network

----------------------------------------------------------------------------
\* The control panel and the runnable that is to fold it.

AutoPlayStart ==
  /\ mShouldAutoPlay' = TRUE
  /\ autoPosted' = (autoPosted \/ ~mShouldAutoPlay)

AutoPlayStop ==
  /\ mShouldAutoPlay' = FALSE
  /\ autoPosted' = (autoPosted /\ ~mShouldAutoPlay)

\* A panel that comes shows the play button of a video that plays or may, one
\* that goes leaves it to a paused video alone.
PanelShown ==
  /\ isShowControlPanl' = TRUE
  /\ playIcon' = (~Live /\ status \in {"PLAYING", "PREPARING", "PAUSED"})
  /\ ticks' = Saturated(ticks)

HidePanel ==
  /\ isShowControlPanl' = FALSE
  /\ playIcon' = (~Live /\ status = "PAUSED" /\ ~IsPlaying(video))
  /\ ticks' = 0
  /\ AutoPlayStop

\* A tap stops the folding when it touches down and toggles the panel; the end
\* of the gesture is not reached for a tap.
Tap ==
  /\ life = "resumed" /\ ~swiping
  /\ \/ isShowControlPanl /\ HidePanel
     \/ /\ ~isShowControlPanl /\ PanelShown
        /\ mShouldAutoPlay' = TRUE /\ autoPosted' = TRUE
  /\ UNCHANGED << video, life, network, control, netTie, replay, history, isDragging,
                  newPosition, swiping, seekPosted, restartPosted, revealsPosted >>

\* A horizontal swipe chooses a position while the finger is down.
SwipeBegins ==
  /\ life = "resumed" /\ ~swiping /\ ~isDragging /\ ~Live
  /\ swiping' = TRUE
  /\ AutoPlayStop
  /\ newPosition' \in IF InPlaybackState(video) THEN Positions ELSE {NoPosition}
  /\ UNCHANGED << video, life, network, control, prompts, history, isDragging,
                  isShowControlPanl, ticks, seekPosted, restartPosted, revealsPosted >>

SwipeEnds ==
  /\ life = "resumed" /\ swiping
  /\ swiping' = FALSE
  /\ seekPosted' = (seekPosted \/ newPosition >= 0)
  /\ AutoPlayStart
  /\ UNCHANGED << video, life, network, control, prompts, history, isDragging, newPosition,
                  isShowControlPanl, ticks, restartPosted, revealsPosted >>

DragBegins ==
  /\ life = "resumed" /\ isShowControlPanl /\ ~Live /\ ~isDragging /\ ~swiping
  /\ isDragging' = TRUE
  /\ ticks' = 0
  /\ UNCHANGED << video, life, network, control, prompts, history, newPosition, swiping,
                  isShowControlPanl, mShouldAutoPlay, seekPosted, restartPosted,
                  autoPosted, revealsPosted >>

\* Mutant: the progress message that was taken away is not posted again.
TicksAfterDragNone == 0

TicksAfterDrag == 1

DragEnds ==
  /\ isDragging /\ life # "destroyed"
  /\ isDragging' = FALSE
  /\ ticks' = TicksAfterDrag
  /\ \E position \in IF InPlaybackState(video) THEN Positions ELSE {0} :
       video' = SeekTo(video, position)
  /\ UNCHANGED << life, network, control, prompts, history, newPosition, swiping,
                  isShowControlPanl, mShouldAutoPlay, seekPosted, restartPosted,
                  autoPosted, revealsPosted >>

----------------------------------------------------------------------------
\* Clicks.

CanClickPlay ==
  /\ life = "resumed" /\ ~swiping
  /\ isShowControlPanl \/ playIcon

\* The play button of a playing video pauses it and that of a live stream ends
\* the player.
ClickWhilePlaying ==
  /\ CanClickPlay /\ IsPlaying(video)
  /\ IF Live
       THEN /\ video' = StopPlayback(video)
            /\ UNCHANGED << status, currentPosition >>
       ELSE /\ video' = Pause(video)
            /\ status' = "PAUSED" /\ currentPosition' = PositionIn(video)
  /\ wish' = "pause"
  /\ UNCHANGED << playedOn, life, network, currentUrl, bgState, isHasSwitchStream, isGNetWork,
                  panel, queue, prompts >>

ClickToPlay ==
  /\ CanClickPlay /\ ~IsPlaying(video)
  /\ StartPlay(video, currentUrl, currentPosition,
               isHasSwitchStream \/ status = "ERROR", isGNetWork)
  /\ status' = IF IsPlaying(video)' THEN "PREPARING" ELSE status
  /\ UNCHANGED << life, network, currentPosition, currentUrl, bgState, isGNetWork,
                  panel, queue >>

\* The prompt's button allows the mobile network for good.
ClickNetTie ==
  /\ life = "resumed" /\ netTie
  /\ isGNetWork' = FALSE
  /\ StartPlay(video, currentUrl, currentPosition,
               isHasSwitchStream \/ status = "ERROR", FALSE)
  /\ UNCHANGED << life, network, currentPosition, currentUrl, bgState, status, panel, queue >>

\* The replay button, and the message that is to do the same after an error.
Replay ==
  /\ \/ life = "resumed" /\ replay /\ UNCHANGED restartPosted
     \/ restartPosted /\ restartPosted' = FALSE
  /\ status' = "ERROR"
  /\ StartPlay(video, currentUrl, currentPosition, TRUE, isGNetWork)
  /\ UNCHANGED << life, network, currentPosition, currentUrl, bgState, isGNetWork, panel,
                  ticks, seekPosted, autoPosted, revealsPosted >>

\* Another stream of the list: switchStream, then startPlay.
SelectStream ==
  /\ life = "resumed" /\ isShowControlPanl /\ ~swiping
  /\ \E url \in Uris \ {currentUrl} :
       LET position == IF IsPlaying(video) THEN PositionIn(video) ELSE currentPosition
           view == IF IsPlaying(video) THEN ReleasePlayer(video, FALSE) ELSE video
       IN  /\ currentUrl' = url
           /\ currentPosition' = position
           /\ StartPlay(view, url, position, TRUE, isGNetWork)
  /\ UNCHANGED << life, network, bgState, isGNetWork, status, panel, queue >>

----------------------------------------------------------------------------
\* The activity's lifecycle.  The view is resumed, then sent to the position of
\* the pause, then paused again when it was not playing.

BackgroundState(view) == IF IsPlaying(view) THEN 0 ELSE 1

\* Mutant: the position of a live stream is used as that of a video.
ResumePositionRaw == currentPosition

ResumePosition == IF Live THEN 0 ELSE currentPosition

ResumeActivity ==
  /\ life \in {"created", "paused", "stopped"}
  /\ life' = "resumed"
  /\ \E opened \in BOOLEAN :
       LET view == SeekTo(OpenVideo(video, opened), ResumePosition)
       IN  IF bgState # 0
             THEN /\ video' = Pause(view)
                  /\ status' = "PAUSED"
                  /\ currentPosition' = PositionIn(view)
             ELSE /\ video' = view
                  /\ UNCHANGED << status, currentPosition >>
  /\ UNCHANGED << network, currentUrl, bgState, isHasSwitchStream, isGNetWork, panel, queue,
                  prompts, history >>

PauseActivity ==
  /\ life = "resumed"
  /\ life' = "paused"
  /\ bgState' = BackgroundState(video)
  /\ currentPosition' = PositionIn(video)
  /\ video' = ReleasePlayer(video, FALSE)
  /\ swiping' = FALSE
  /\ UNCHANGED << network, currentUrl, isHasSwitchStream, isGNetWork, status, isDragging,
                  isShowControlPanl, mShouldAutoPlay, newPosition, queue, prompts, history >>

StopActivity ==
  /\ life = "paused"
  /\ life' = "stopped"
  /\ UNCHANGED << video, network, control, panel, queue, prompts, history >>

\* Mutant: the player is left to the pause before.
DestroyedKept(view) == view

Destroyed(view) == StopPlayback(view)

DestroyActivity ==
  /\ life = "stopped"
  /\ life' = "destroyed"
  /\ video' = Destroyed(video)
  /\ seekPosted' = FALSE /\ restartPosted' = FALSE
  /\ UNCHANGED << network, control, panel, prompts, history, ticks, autoPosted, revealsPosted >>

\* The window of a visible activity creates and resizes the surface; that of a
\* stopped one takes it away.
ScreenSurface ==
  /\ \/ life \in {"resumed", "paused"} /\ (SurfaceCreated \/ SurfaceChanged)
     \/ life \in {"stopped", "destroyed"} /\ SurfaceDestroyed
  /\ UNCHANGED << life, network, control, panel, queue, prompts, history >>

NetworkChanges ==
  /\ network' \in Networks \ {network}
  /\ UNCHANGED << video, life, control, panel, queue, prompts, history >>

----------------------------------------------------------------------------
\* The messages of the handler.

SeekMessage ==
  /\ seekPosted
  /\ seekPosted' = FALSE
  /\ IF ~Live /\ newPosition >= 0
       THEN video' = SeekTo(video, newPosition) /\ newPosition' = NoPosition
       ELSE UNCHANGED << video, newPosition >>
  /\ UNCHANGED << life, network, control, prompts, history, isDragging, isShowControlPanl,
                  mShouldAutoPlay, swiping, ticks, restartPosted, autoPosted, revealsPosted >>

\* The progress message posts itself again while the panel is shown and nobody
\* drags; the seek bar it updates is not modelled.
ProgressMessage ==
  /\ ticks > 0
  /\ ticks' = IF isShowControlPanl /\ ~isDragging THEN ticks ELSE ticks - 1
  /\ UNCHANGED << video, life, network, control, panel, prompts, history, seekPosted,
                  restartPosted, autoPosted, revealsPosted >>

\* 500 ms after the first picture: the prompts go and the panel is shown.
Reveal ==
  /\ revealsPosted > 0
  /\ revealsPosted' = revealsPosted - 1
  /\ netTie' = FALSE /\ replay' = FALSE
  /\ PanelShown /\ AutoPlayStart
  /\ UNCHANGED << video, life, network, control, history, isDragging, newPosition, swiping,
                  seekPosted, restartPosted >>

\* The runnable of the panel acts only on a hidden panel; mShouldAutoPlay stays.
AutoPlayRun ==
  /\ autoPosted
  /\ IF mShouldAutoPlay /\ ~isShowControlPanl
       THEN PanelShown
       ELSE UNCHANGED << isShowControlPanl, playIcon, ticks >>
  /\ autoPosted' = FALSE
  /\ UNCHANGED << video, life, network, control, netTie, replay, history, isDragging, newPosition,
                  swiping, mShouldAutoPlay, seekPosted, restartPosted, revealsPosted >>

----------------------------------------------------------------------------
\* Messages of the native player.  statusChange is given the informational
\* ones; completion and errors reach the view alone.

StatusChange(what) ==
  CASE what = "rendering" ->
         /\ status' = IF status = "PAUSED" THEN "PAUSED" ELSE "PLAYING"
         /\ revealsPosted' = Saturated(revealsPosted)
         /\ UNCHANGED << prompts, restartPosted >>
    [] what = "buffering" ->
         /\ status' = "PREPARING"
         /\ netTie' = FALSE /\ replay' = FALSE /\ playIcon' = FALSE
         /\ UNCHANGED << revealsPosted, restartPosted >>
    [] what = "unknown" ->
         /\ status' = "ERROR"
         /\ IF NeedsConsent(isGNetWork)
              THEN netTie' = TRUE /\ UNCHANGED << replay, playIcon, restartPosted >>
              ELSE /\ netTie' = FALSE /\ replay' = TRUE /\ playIcon' = FALSE
                   /\ restartPosted' = (restartPosted \/ (~IsErrorStop /\ IsAutoReConnect))
         /\ UNCHANGED revealsPosted
    [] OTHER -> UNCHANGED << status, revealsPosted, prompts, restartPosted >>

HandleNative ==
  /\ Handle
  /\ StatusChange(Head(video.inbox).what)
  /\ UNCHANGED << life, network, currentUrl, currentPosition, bgState, isHasSwitchStream,
                  isGNetWork, panel, history, ticks, seekPosted, autoPosted >>

NativeSteps ==
  /\ Native
  /\ UNCHANGED << life, network, control, panel, queue, prompts, history >>

----------------------------------------------------------------------------
ScreenNext ==
  \/ Tap \/ SwipeBegins \/ SwipeEnds \/ DragBegins \/ DragEnds
  \/ ClickWhilePlaying \/ ClickToPlay \/ ClickNetTie \/ Replay \/ SelectStream
  \/ ResumeActivity \/ PauseActivity \/ StopActivity \/ DestroyActivity
  \/ ScreenSurface \/ NetworkChanges
  \/ SeekMessage \/ ProgressMessage \/ Reveal \/ AutoPlayRun
  \/ HandleNative \/ NativeSteps

ScreenSpec == ScreenInit /\ [][ScreenNext]_screenVars

----------------------------------------------------------------------------
\* The fields of the screen have their types.
ScreenTypeOK ==
  /\ TypeOK
  /\ life \in {"created", "resumed", "paused", "stopped", "destroyed"}
  /\ network \in Networks
  /\ status \in {"IDLE", "ERROR", "PREPARING", "PLAYING", "PAUSED"}
  /\ currentUrl \in Uris
  /\ {currentPosition, newPosition} \subseteq Positions \cup {NoPosition}
  /\ bgState \in {0, 1}
  /\ {isHasSwitchStream, isGNetWork, isDragging, isShowControlPanl, mShouldAutoPlay, netTie,
      replay, playIcon, swiping, seekPosted, restartPosted, autoPosted} \subseteq BOOLEAN
  /\ {ticks, revealsPosted} \subseteq 0 .. QueueBound
  /\ wish \in {"none", "play", "pause"}
  /\ playedOn \in Networks \cup {NoNetwork}

\* No player outlives the screen: nothing that was posted, and no surface that
\* came while the activity was already paused, leaves one behind after onDestroy.
DestroyedIsSilent == life = "destroyed" => video.phase = "none"

\* A video the user paused does not start by itself: not when the activity comes
\* back, nor when a surface or a late message of the player arrives.
UserPauseKept == wish = "pause" => video.phase # "started"

\* The progress bar of a shown panel moves: unless the user drags it, the message
\* that updates it and posts itself again is waiting, whichever of taps, drags
\* and delayed runnables showed or hid the panel.
ShownPanelTicks == isShowControlPanl /\ ~isDragging => ticks > 0

\* What plays was let through by a startPlay that needed no consent, and as long
\* as the user has not given it, by one that read no 2G, 3G or 4G network, although
\* the network changes under the screen, the prompt can be covered, the stream
\* switched, and the screen left and entered again.  It is the network startPlay
\* read that counts, not the one the player then uses.
NothingPlaysUnasked ==
  video.phase = "started" =>
    /\ playedOn # NoNetwork
    /\ isGNetWork => playedOn \notin {4, 5, 6}

\* isAutoReConnect: "whether to reconnect automatically, by default after five
\* seconds": a playing error that is shown to the user is followed by a restart.
ErrorReconnects == [][replay' /\ ~replay => restartPosted']_screenVars
============================================================================
