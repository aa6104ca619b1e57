----------------------------- MODULE VideoView -----------------------------
(***************************************************************************)
(* IjkVideoView: a view that owns at most one native player and keeps it   *)
(* in step with a surface that comes and goes.  Every method and every     *)
(* callback runs on the main thread, so each is one step; the native       *)
(* player runs on threads of its own and talks to the main thread through  *)
(* messages, delivered in the order they were posted.                      *)
(*                                                                         *)
(* The state is one record, so that a caller such as PlayerView can chain  *)
(* several methods in one step of its own.  Spec drives the view with the  *)
(* most general client: any public call, at any time.                      *)
(***************************************************************************)
EXTENDS Integers, Sequences

CONSTANTS
  Uris,          \* the addresses a client may ask for
  Infos,         \* the informational messages a player may send
  Sizes,         \* the picture sizes a source may have, positive
  MaxPosition,   \* bound: the last position of a video, in seeking units
  InboxBound     \* bound: messages of the native player not yet delivered

ASSUME ViewAssumption ==
  /\ Infos \subseteq {"rendering", "buffering", "unknown"}
  /\ Sizes \subseteq Nat \ {0}
  /\ MaxPosition \in Nat
  /\ InboxBound \in Nat

VARIABLE video

NoUri == "no uri"          \* mUri == null
ASSUME NoUriAssumption == NoUri \notin Uris

LayoutSize == -1           \* a surface that has the size of its layout
Positions == 0 .. MaxPosition
States == {"ERROR", "IDLE", "PREPARING", "PREPARED", "PLAYING", "PAUSED", "COMPLETED"}
Phases == {"none", "preparing", "prepared", "started", "paused", "completed", "broken"}
Event(what, size) == [what |-> what, size |-> size]
Events == [what : {"prepared", "size", "completed", "error"} \cup Infos, size : Sizes \cup {0}]

(***************************************************************************)
(* The fields of the Java object: uri (mUri), seek (mSeekWhenPrepared),    *)
(* current and target (mCurrentState, mTargetState), width (mVideoWidth    *)
(* and mVideoHeight; 0 is unknown), surfaceWidth (mSurfaceWidth and        *)
(* mSurfaceHeight), kind (what mRenderView is), holder (whose surface      *)
(* mSurfaceHolder is: the current render view's, a removed one's, null).   *)
(* Of the native player: phase ("none": mMediaPlayer == null), source,     *)
(* size, at, display (the surface it draws on) and inbox (its messages).   *)
(* Of the current render view: surface, shown (the size last delivered),   *)
(* fixed (the size asked of it).                                           *)
(***************************************************************************)
View == [uri : Uris \cup {NoUri}, seek : Positions, current : States, target : States,
         width : Sizes \cup {0}, surfaceWidth : Sizes \cup {0, LayoutSize},
         kind : {"surface", "texture"}, holder : {"null", "current", "removed"},
         phase : Phases, source : Uris \cup {NoUri}, size : Sizes \cup {0}, at : Positions,
         display : {"null", "current", "removed"}, inbox : Seq(Events),
         surface : {"absent", "present"}, shown : Sizes \cup {0, LayoutSize},
         fixed : Sizes \cup {LayoutSize}]

NewView ==
  [uri |-> NoUri, seek |-> 0, current |-> "IDLE", target |-> "IDLE", width |-> 0,
   surfaceWidth |-> 0, kind |-> "surface", holder |-> "null", phase |-> "none",
   source |-> NoUri, size |-> 0, at |-> 0, display |-> "null", inbox |-> << >>,
   surface |-> "absent", shown |-> 0, fixed |-> LayoutSize]

Init == video = NewView

----------------------------------------------------------------------------
\* The native player: what the view sees of a library that is not in src/.

NativeStarted(v) ==
  IF v.phase \in {"prepared", "paused", "completed"}
    THEN [v EXCEPT !.phase = "started", !.at = IF v.phase = "completed" THEN 0 ELSE @]
    ELSE v

Post(v, event) == [v EXCEPT !.inbox = Append(@, event)]

----------------------------------------------------------------------------
\* The public methods.

InPlaybackState(v) ==
  /\ v.phase # "none"
  /\ v.current \notin {"ERROR", "IDLE", "PREPARING"}

IsPlaying(v) == InPlaybackState(v) /\ v.phase = "started"

CurrentPosition(v) == IF InPlaybackState(v) THEN v.at ELSE 0

Start(v) ==
  LET run == NativeStarted(v)
  IN  IF InPlaybackState(v)
        THEN [run EXCEPT !.current = "PLAYING", !.target = "PLAYING"]
        ELSE [v EXCEPT !.target = "PLAYING"]

\* Mutant: what to pause is told by the view's own state, not by the player.
PauseByState(v) ==
  IF v.current = "PLAYING" THEN [v EXCEPT !.phase = "paused", !.current = "PAUSED", !.target = "PAUSED"]
                           ELSE [v EXCEPT !.target = "PAUSED"]

Pause(v) ==
  IF IsPlaying(v) THEN [v EXCEPT !.phase = "paused", !.current = "PAUSED", !.target = "PAUSED"]
                  ELSE [v EXCEPT !.target = "PAUSED"]

SeekTo(v, position) ==
  IF InPlaybackState(v) THEN [v EXCEPT !.at = position, !.seek = 0]
                        ELSE [v EXCEPT !.seek = position]

\* What is left of a view whose player is reset and released: the library
\* drops the messages it had posted.
WithoutPlayer(v) ==
  [v EXCEPT !.phase = "none", !.source = NoUri, !.size = 0, !.at = 0, !.display = "null",
            !.inbox = << >>, !.current = "IDLE"]

ReleasePlayer(v, cleartargetstate) ==
  IF v.phase = "none" THEN v
  ELSE [WithoutPlayer(v) EXCEPT !.target = IF cleartargetstate THEN "IDLE" ELSE @]

\* stop() before the release changes nothing that the view sees afterwards.
StopPlayback(v) == ReleasePlayer(v, TRUE)

ReleaseWithoutStop(v) == [v EXCEPT !.display = "null"]

\* A new player; opened tells whether setDataSource took the address.
OpenVideo(v, opened) ==
  LET closed == ReleasePlayer(v, FALSE)
  IN  IF v.uri = NoUri \/ v.holder = "null" THEN v
      ELSE IF opened
        THEN [closed EXCEPT !.phase = "preparing", !.source = v.uri, !.display = v.holder,
                            !.current = "PREPARING"]
        ELSE [closed EXCEPT !.phase = "broken", !.source = v.uri,
                            !.current = "ERROR", !.target = "ERROR"]

SetVideoURI(v, uri, opened) == OpenVideo([v EXCEPT !.uri = uri, !.seek = 0], opened)

\* setRender(RENDER_TEXTURE_VIEW), the only render a client of this program
\* asks for: the old view is removed with its callback, so its surface goes
\* unnoticed; the new one has no surface yet, and binding the player to it
\* binds it to nothing.
SetRender(v) ==
  [v EXCEPT !.kind = "texture", !.display = "null", !.surface = "absent", !.shown = 0,
            !.fixed = LayoutSize, !.holder = IF @ = "null" THEN "null" ELSE "removed"]

----------------------------------------------------------------------------
\* The surface callbacks of the current render view.  A removed view has no
\* callback left, so "unmatched render callback" never happens.

\* Mutant: a surface that comes back is left unbound.
OnSurfaceCreatedUnbound(v, opened) ==
  LET held == [v EXCEPT !.holder = "current", !.surface = "present", !.shown = 0]
  IN  IF v.phase # "none" THEN held ELSE OpenVideo(held, opened)

OnSurfaceCreated(v, opened) ==
  LET held == [v EXCEPT !.holder = "current", !.surface = "present", !.shown = 0]
  IN  IF v.phase # "none" THEN [held EXCEPT !.display = "current"]
                          ELSE OpenVideo(held, opened)

HasValidSize(v) == v.kind # "surface" \/ v.width = v.surfaceWidth

OnSurfaceChanged(v, size) ==
  LET sized == [v EXCEPT !.surfaceWidth = size, !.shown = size]
  IN  IF v.phase # "none" /\ v.target = "PLAYING" /\ HasValidSize(sized)
        THEN Start(IF v.seek # 0 THEN SeekTo(sized, v.seek) ELSE sized)
        ELSE sized

OnSurfaceDestroyed(v) ==
  ReleaseWithoutStop([v EXCEPT !.holder = "null", !.surface = "absent", !.shown = 0])

----------------------------------------------------------------------------
\* The listeners of the native player, one for each message.

\* Mutant: an unknown size is asked of the surface as well.
ResizedUnchecked(v, size) ==
  [v EXCEPT !.width = size, !.fixed = IF v.kind = "surface" THEN size ELSE @]

\* setVideoSize of a SurfaceRenderView fixes the size of its surface, that of
\* a TextureRenderView only measures.
Resized(v, size) ==
  [v EXCEPT !.width = size,
            !.fixed = IF size # 0 /\ v.kind = "surface" THEN size ELSE @]

\* Mutants: a pending seek is tried before the state says prepared; a player
\* that was asked to pause is started as well; the sizes are compared as if a
\* resize was always to come.
OnPreparedSeekFirst(v) ==
  LET sought == IF v.seek # 0 THEN SeekTo(v, v.seek) ELSE v
      ready == Resized([sought EXCEPT !.current = "PREPARED"], v.size)
  IN  IF v.target = "PLAYING" /\ (v.size = 0 \/ HasValidSize(ready)) THEN Start(ready) ELSE ready
OnPreparedAlwaysStarts(v) ==
  LET ready == Resized([v EXCEPT !.current = "PREPARED"], v.size)
  IN  Start(IF v.seek # 0 THEN SeekTo(ready, v.seek) ELSE ready)
OnPreparedAwaitsResize(v) ==
  LET ready == Resized([v EXCEPT !.current = "PREPARED"], v.size)
      sought == IF v.seek # 0 THEN SeekTo(ready, v.seek) ELSE ready
  IN  IF v.target = "PLAYING" /\ v.size = 0 THEN Start(sought) ELSE sought

OnPrepared(v) ==
  LET ready == Resized([v EXCEPT !.current = "PREPARED"], v.size)
      sought == IF v.seek # 0 THEN SeekTo(ready, v.seek) ELSE ready
  IN  IF v.target = "PLAYING" /\ (v.size = 0 \/ HasValidSize(sought)) THEN Start(sought)
                                                                     ELSE sought

OnVideoSizeChanged(v, size) == Resized([v EXCEPT !.size = size], size)

OnCompletion(v) == [v EXCEPT !.current = "COMPLETED", !.target = "COMPLETED"]

OnError(v) == [v EXCEPT !.current = "ERROR", !.target = "ERROR"]

\* The head of the inbox is handled; the informational messages only go to
\* the listener of the client.
Handled(v) ==
  LET event == Head(v.inbox)
      rest == [v EXCEPT !.inbox = Tail(@)]
  IN  CASE event.what = "prepared" -> OnPrepared(rest)
        [] event.what = "size" -> OnVideoSizeChanged(rest, event.size)
        [] event.what = "completed" -> OnCompletion(rest)
        [] event.what = "error" -> OnError(rest)
        [] event.what \in Infos -> rest

----------------------------------------------------------------------------
\* The most general client.

ClientSetsURI == \E uri \in Uris, opened \in BOOLEAN : video' = SetVideoURI(video, uri, opened)
ClientStarts == video' = Start(video)
ClientPauses == video' = Pause(video)
ClientSeeks == \E position \in Positions : video' = SeekTo(video, position)
ClientStops == video' = StopPlayback(video)
ClientReleases == \E clear \in BOOLEAN : video' = ReleasePlayer(video, clear)
ClientResumes == \E opened \in BOOLEAN : video' = OpenVideo(video, opened)
ClientSetsRender == video' = SetRender(video)

Calls ==
  \/ ClientSetsURI \/ ClientStarts \/ ClientPauses \/ ClientSeeks
  \/ ClientStops \/ ClientReleases \/ ClientResumes \/ ClientSetsRender

----------------------------------------------------------------------------
\* The window system.  A surface is told its size after it was created and
\* whenever the size asked of it is another one.

SurfaceCreated ==
  /\ video.surface = "absent"
  /\ \E opened \in BOOLEAN : video' = OnSurfaceCreated(video, opened)

SurfaceChanged ==
  /\ video.surface = "present"
  /\ video.shown # video.fixed
  /\ video' = OnSurfaceChanged(video, video.fixed)

SurfaceDestroyed ==
  /\ video.surface = "present"
  /\ video' = OnSurfaceDestroyed(video)

Window == SurfaceCreated \/ SurfaceChanged \/ SurfaceDestroyed

----------------------------------------------------------------------------
\* The native player's threads.  A source has one picture size, or none, and
\* tells it once, before or after it is prepared.

Alive == video.phase \notin {"none", "broken"}
Room == Len(video.inbox) < InboxBound
SizePosted == \E i \in 1 .. Len(video.inbox) : video.inbox[i].what = "size"

NativeSize ==
  /\ Alive /\ video.size = 0 /\ ~SizePosted
  /\ \E size \in Sizes : video' = Post(video, Event("size", size))

NativePrepared ==
  /\ video.phase = "preparing"
  /\ video' = Post([video EXCEPT !.phase = "prepared"], Event("prepared", 0))

NativeCompleted ==
  /\ video.phase = "started" /\ Room
  /\ video' = Post([video EXCEPT !.phase = "completed"], Event("completed", 0))

NativeFailed ==
  /\ Alive
  /\ video' = Post([video EXCEPT !.phase = "broken"], Event("error", 0))

NativeInforms ==
  /\ Alive /\ Room
  /\ \E what \in Infos : video' = Post(video, Event(what, 0))

NativeAdvances ==
  /\ video.phase = "started" /\ video.at < MaxPosition
  /\ video' = [video EXCEPT !.at = @ + 1]

Native ==
  \/ NativeSize \/ NativePrepared \/ NativeCompleted
  \/ NativeFailed \/ NativeInforms \/ NativeAdvances

Handle == video.inbox # << >> /\ video' = Handled(video)

Next == Calls \/ Window \/ Native \/ Handle

Spec == Init /\ [][Next]_video

\* The main looper delivers what was posted, an opened source is prepared or
\* fails, and the window system resizes a surface it was asked to resize.
Fairness ==
  /\ WF_video(Handle)
  /\ WF_video(NativePrepared)
  /\ WF_video(SurfaceChanged)

FairSpec == Spec /\ Fairness

----------------------------------------------------------------------------
\* The fields of the view, of its player and of its surface have their types.
TypeOK == video \in View

\* seekTo before the player is prepared is remembered and carried out: once the
\* view counts as being in a playback state no seek is left pending, whatever
\* was opened, released or asked again in between.
PendingSeekApplied == InPlaybackState(video) => video.seek = 0

\* A player never plays against the last wish: while it runs the view wants to
\* play, or has just been told that the playback it restarted was complete.
\* The wish may have been given before the player existed.
PlaysOnlyAsWished == video.phase = "started" => video.target \in {"PLAYING", "COMPLETED"}

\* A player draws on the surface of the current render view whenever there is
\* one and is detached from it when it goes, over every order of opening,
\* releasing, replacing the render view and losing the surface.
DisplayFollowsSurface ==
  /\ video.surface = "present" /\ Alive => video.display = "current"
  /\ video.surface = "absent" => video.display # "current"

\* A view that wants to play starts its player: once the client leaves it alone,
\* waiting for the surface to take the size of the picture never lasts for ever.
\* It is stated of the render view that has to wait, a SurfaceRenderView; one that
\* replaces it under a waiting player need not report a size again.
Waiting ==
  /\ video.target = "PLAYING" /\ video.phase \in {"preparing", "prepared"}
  /\ video.kind = "surface"

WishIsServed ==
  <>[][~Calls]_video => (Waiting ~> (~Waiting \/ video.surface = "absent"))
============================================================================
