-------------------------- MODULE VideoViewProofs --------------------------
(***************************************************************************)
(* The safety properties of VideoView for every set of addresses, sizes    *)
(* and positions, and for inboxes of any bound, under the most general     *)
(* client.  Sound is the inductive invariant: what the view knows about    *)
(* its player agrees with what the player does and with what it has posted *)
(* and not delivered.  It is a predicate of a view, so that each method    *)
(* has a lemma of its own and a caller that chains methods can cite them.  *)
(***************************************************************************)
EXTENDS VideoView, TLAPS

Playback == {"PREPARED", "PLAYING", "PAUSED", "COMPLETED"}

\* An error is the last thing a player says; a completion is only said by a
\* player that was playing.
PostsAgree(v) ==
  \A i \in 1 .. Len(v.inbox) :
    /\ v.inbox[i].what = "error" => i = Len(v.inbox) /\ v.phase = "broken"
    /\ v.inbox[i].what = "completed" => v.current \in Playback

RunningAgrees(v) ==
  v.phase = "started" => v.current \in Playback /\ v.target \in {"PLAYING", "COMPLETED"}

SeekAgrees(v) == InPlaybackState(v) => v.seek = 0

DisplayAgrees(v) ==
  /\ v.holder = "current" <=> v.surface = "present"
  /\ v.surface = "present" /\ v.phase \notin {"none", "broken"} => v.display = "current"
  /\ v.surface = "absent" => v.display # "current"

NothingPosted(v) == v.phase = "none" => v.inbox = << >>

Sound(v) ==
  /\ PostsAgree(v)
  /\ RunningAgrees(v)
  /\ SeekAgrees(v)
  /\ DisplayAgrees(v)
  /\ NothingPosted(v)

Inv == TypeOK /\ Sound(video)

----------------------------------------------------------------------------
\* The values the methods store.

\* Every state and phase the code stores is one, the first position of a video
\* is one of its positions, and an empty inbox is an inbox.
LEMMA Stored ==
  /\ "ERROR" \in States /\ "IDLE" \in States /\ "PREPARING" \in States
  /\ "PREPARED" \in States /\ "PLAYING" \in States /\ "PAUSED" \in States
  /\ "COMPLETED" \in States
  /\ "none" \in Phases /\ "preparing" \in Phases /\ "prepared" \in Phases
  /\ "started" \in Phases /\ "paused" \in Phases /\ "completed" \in Phases
  /\ "broken" \in Phases
  /\ 0 \in Positions
  /\ << >> \in Seq(Events)
BY ViewAssumption DEF States, Phases, Positions

----------------------------------------------------------------------------
\* The methods: each keeps the types and the agreement.

\* The player's start() changes only what it is doing and where it is.
LEMMA NativeStartedType ==
  ASSUME NEW v \in View
  PROVE  NativeStarted(v) \in View
<1>1. CASE v.phase \in {"prepared", "paused", "completed"}
  <2> DEFINE from == IF v.phase = "completed" THEN 0 ELSE v.at
  <2>1. NativeStarted(v) = [v EXCEPT !.phase = "started", !.at = from]
    BY <1>1 DEF NativeStarted
  <2>2. from \in Positions
    BY Stored DEF View
  <2> HIDE DEF from
  <2>3. [v EXCEPT !.phase = "started", !.at = from] \in View
    BY <2>2, Stored, Zenon DEF View
  <2>4. QED
    BY <2>1, <2>3, Zenon
<1>2. CASE v.phase \notin {"prepared", "paused", "completed"}
  BY <1>2 DEF NativeStarted
<1>3. QED
  BY <1>1, <1>2

\* start(), whatever the player is doing.
LEMMA StartSound ==
  ASSUME NEW v \in View, Sound(v)
  PROVE  Start(v) \in View /\ Sound(Start(v))
<1>1. Start(v) \in View
  <2> DEFINE run == NativeStarted(v)
  <2>1. \/ Start(v) = [run EXCEPT !.current = "PLAYING", !.target = "PLAYING"]
        \/ Start(v) = [v EXCEPT !.target = "PLAYING"]
    BY DEF Start
  <2>2. run \in View
    BY NativeStartedType
  <2> HIDE DEF run
  <2>3. [run EXCEPT !.current = "PLAYING", !.target = "PLAYING"] \in View
    BY <2>2, Stored, ZenonT(60) DEF View
  <2>4. [v EXCEPT !.target = "PLAYING"] \in View
    BY Stored, Zenon DEF View
  <2>5. QED
    BY <2>1, <2>3, <2>4, Zenon
<1>2. Sound(Start(v))
  BY DEF Start, NativeStarted, View, Sound, PostsAgree, RunningAgrees, SeekAgrees,
         DisplayAgrees, NothingPosted, InPlaybackState, Playback
<1>3. QED
  BY <1>1, <1>2

\* pause(), before there is a player as well.
LEMMA PauseSound ==
  ASSUME NEW v \in View, Sound(v)
  PROVE  Pause(v) \in View /\ Sound(Pause(v))
<1>1. Pause(v) \in View
  <2>1. \/ Pause(v) = [v EXCEPT !.phase = "paused", !.current = "PAUSED", !.target = "PAUSED"]
        \/ Pause(v) = [v EXCEPT !.target = "PAUSED"]
    BY DEF Pause
  <2>2. [v EXCEPT !.phase = "paused", !.current = "PAUSED", !.target = "PAUSED"] \in View
    BY Stored, Zenon DEF View
  <2>3. [v EXCEPT !.target = "PAUSED"] \in View
    BY Stored, Zenon DEF View
  <2>4. QED
    BY <2>1, <2>2, <2>3, Zenon
<1>2. Sound(Pause(v))
  BY DEF Pause, IsPlaying, View, Sound, PostsAgree, RunningAgrees, SeekAgrees,
         DisplayAgrees, NothingPosted, InPlaybackState, Playback
<1>3. QED
  BY <1>1, <1>2

\* seekTo() keeps the types in a view that is not in agreement yet, too: so
\* onPrepared can cite it.
LEMMA SeekToType ==
  ASSUME NEW v \in View, NEW position \in Positions
  PROVE  SeekTo(v, position) \in View
<1>1. \/ SeekTo(v, position) = [v EXCEPT !.at = position, !.seek = 0]
      \/ SeekTo(v, position) = [v EXCEPT !.seek = position]
  BY DEF SeekTo
<1>2. [v EXCEPT !.at = position, !.seek = 0] \in View
  BY Stored, Zenon DEF View
<1>3. [v EXCEPT !.seek = position] \in View
  BY Zenon DEF View
<1>4. QED
  BY <1>1, <1>2, <1>3, Zenon

\* seekTo() leaves no seek pending in a playback state.
LEMMA SeekToSound ==
  ASSUME NEW v \in View, Sound(v), NEW position \in Positions
  PROVE  SeekTo(v, position) \in View /\ Sound(SeekTo(v, position))
<1>1. Sound(SeekTo(v, position))
  BY DEF SeekTo, View, Sound, PostsAgree, RunningAgrees, SeekAgrees,
         DisplayAgrees, NothingPosted, InPlaybackState, Playback
<1>2. QED
  BY <1>1, SeekToType

\* release(), with and without clearing the wish.
LEMMA ReleaseSound ==
  ASSUME NEW v \in View, Sound(v), NEW clear \in BOOLEAN
  PROVE  ReleasePlayer(v, clear) \in View /\ Sound(ReleasePlayer(v, clear))
<1> DEFINE bare == WithoutPlayer(v)
           target == IF clear THEN "IDLE" ELSE bare.target
<1>1. bare \in View
  <2>1. NoUri \in Uris \cup {NoUri} /\ 0 \in Sizes \cup {0} /\ "null" \in {"null", "current", "removed"}
    OBVIOUS
  <2>2. QED
    BY <2>1, Stored, Zenon DEF WithoutPlayer, View
<1>2. target \in States
  BY <1>1, Stored DEF View
<1>3. \/ ReleasePlayer(v, clear) = v
      \/ ReleasePlayer(v, clear) = [bare EXCEPT !.target = target]
  BY DEF ReleasePlayer
<1>4. Sound(ReleasePlayer(v, clear))
  BY DEF ReleasePlayer, WithoutPlayer, View, Sound, PostsAgree, RunningAgrees, SeekAgrees,
         DisplayAgrees, NothingPosted, InPlaybackState, Playback
<1> HIDE DEF bare, target
<1>5. [bare EXCEPT !.target = target] \in View
  BY <1>1, <1>2, SMTT(30) DEF View
<1>6. QED
  BY <1>3, <1>4, <1>5, Zenon

\* openVideo(), also when there is nothing to open yet and when the address is
\* refused.
LEMMA OpenVideoSound ==
  ASSUME NEW v \in View, Sound(v), NEW opened \in BOOLEAN
  PROVE  OpenVideo(v, opened) \in View /\ Sound(OpenVideo(v, opened))
<1> DEFINE closed == ReleasePlayer(v, FALSE)
           open == [closed EXCEPT !.phase = "preparing", !.source = v.uri,
                                  !.display = v.holder, !.current = "PREPARING"]
           failed == [closed EXCEPT !.phase = "broken", !.source = v.uri,
                                    !.current = "ERROR", !.target = "ERROR"]
<1>1. closed \in View /\ Sound(closed)
  BY ReleaseSound
<1>2. /\ closed.inbox = << >> /\ closed.phase = "none"
      /\ closed.holder = v.holder /\ closed.surface = v.surface
  BY DEF ReleasePlayer, WithoutPlayer, View, Sound, PostsAgree, RunningAgrees, SeekAgrees,
         DisplayAgrees, NothingPosted, InPlaybackState, Playback
<1>3. OpenVideo(v, opened) = v \/ OpenVideo(v, opened) = open \/ OpenVideo(v, opened) = failed
  BY DEF OpenVideo
<1>4. v.uri \in Uris \cup {NoUri} /\ v.holder \in {"null", "current", "removed"}
  BY DEF View
<1> HIDE DEF closed
<1>5. open \in View
  BY <1>1, <1>4, Stored, ZenonT(90) DEF View
<1>6. failed \in View
  BY <1>1, <1>4, Stored, ZenonT(60) DEF View
<1>7. Sound(open)
  BY <1>1, <1>2 DEF View, Sound, PostsAgree, RunningAgrees, SeekAgrees,
         DisplayAgrees, NothingPosted, InPlaybackState, Playback
<1>8. Sound(failed)
  BY <1>1, <1>2 DEF View, Sound, PostsAgree, RunningAgrees, SeekAgrees,
         DisplayAgrees, NothingPosted, InPlaybackState, Playback
<1>9. QED
  BY <1>3, <1>5, <1>6, <1>7, <1>8

\* setVideoURI() forgets a pending seek and opens.
LEMMA SetVideoURISound ==
  ASSUME NEW v \in View, Sound(v), NEW uri \in Uris, NEW opened \in BOOLEAN
  PROVE  SetVideoURI(v, uri, opened) \in View /\ Sound(SetVideoURI(v, uri, opened))
<1> DEFINE asked == [v EXCEPT !.uri = uri, !.seek = 0]
<1>1. uri \in Uris \cup {NoUri}
  OBVIOUS
<1>2. asked \in View
  BY <1>1, Stored, Zenon DEF View
<1>3. Sound(asked)
  BY DEF View, Sound, PostsAgree, RunningAgrees, SeekAgrees,
         DisplayAgrees, NothingPosted, InPlaybackState, Playback
<1>4. SetVideoURI(v, uri, opened) = OpenVideo(asked, opened)
  BY DEF SetVideoURI
<1> HIDE DEF asked
<1>5. QED
  BY <1>2, <1>3, <1>4, OpenVideoSound

\* setRender() of a new render view.
LEMMA SetRenderSound ==
  ASSUME NEW v \in View, Sound(v)
  PROVE  SetRender(v) \in View /\ Sound(SetRender(v))
<1> DEFINE held == IF v.holder = "null" THEN "null" ELSE "removed"
<1>1. /\ held \in {"null", "current", "removed"} /\ "null" \in {"null", "current", "removed"}
      /\ "texture" \in {"surface", "texture"} /\ "absent" \in {"absent", "present"}
      /\ 0 \in Sizes \cup {0, LayoutSize} /\ LayoutSize \in Sizes \cup {LayoutSize}
  OBVIOUS
<1>2. SetRender(v) = [v EXCEPT !.kind = "texture", !.display = "null", !.surface = "absent",
                               !.shown = 0, !.fixed = LayoutSize, !.holder = held]
  BY DEF SetRender
<1>3. Sound(SetRender(v))
  BY DEF SetRender, View, Sound, PostsAgree, RunningAgrees, SeekAgrees,
         DisplayAgrees, NothingPosted, InPlaybackState, Playback
<1> HIDE DEF held
<1>4. [v EXCEPT !.kind = "texture", !.display = "null", !.surface = "absent",
                !.shown = 0, !.fixed = LayoutSize, !.holder = held] \in View
  BY <1>1, ZenonT(60) DEF View
<1>5. QED
  BY <1>2, <1>3, <1>4, Zenon

----------------------------------------------------------------------------
\* The surface callbacks.

\* A surface that is created is bound to the player there is, or opens one.
LEMMA SurfaceCreatedSound ==
  ASSUME NEW v \in View, Sound(v), v.surface = "absent", NEW opened \in BOOLEAN
  PROVE  OnSurfaceCreated(v, opened) \in View /\ Sound(OnSurfaceCreated(v, opened))
<1> DEFINE held == [v EXCEPT !.holder = "current", !.surface = "present", !.shown = 0]
           bound == [held EXCEPT !.display = "current"]
<1>1. /\ "current" \in {"null", "current", "removed"} /\ "present" \in {"absent", "present"}
      /\ 0 \in Sizes \cup {0, LayoutSize}
  OBVIOUS
<1>2. held \in View
  BY <1>1, Zenon DEF View
<1>3. bound \in View
  BY <1>1, <1>2, Zenon DEF View
<1>4. CASE v.phase # "none"
  <2>1. OnSurfaceCreated(v, opened) = bound
    BY <1>4 DEF OnSurfaceCreated
  <2>2. Sound(bound)
    BY <1>4 DEF View, Sound, PostsAgree, RunningAgrees, SeekAgrees,
         DisplayAgrees, NothingPosted, InPlaybackState, Playback
  <2>3. QED
    BY <1>3, <2>1, <2>2
<1>5. CASE v.phase = "none"
  <2>1. OnSurfaceCreated(v, opened) = OpenVideo(held, opened)
    BY <1>5 DEF OnSurfaceCreated
  <2>2. Sound(held)
    BY <1>5 DEF View, Sound, PostsAgree, RunningAgrees, SeekAgrees,
         DisplayAgrees, NothingPosted, InPlaybackState, Playback
  <2> HIDE DEF held
  <2>3. QED
    BY <1>2, <2>1, <2>2, OpenVideoSound
<1>6. QED
  BY <1>4, <1>5

\* A surface that changes its size starts a player that waited for it.
LEMMA SurfaceChangedSound ==
  ASSUME NEW v \in View, Sound(v)
  PROVE  OnSurfaceChanged(v, v.fixed) \in View /\ Sound(OnSurfaceChanged(v, v.fixed))
<1> DEFINE sized == [v EXCEPT !.surfaceWidth = v.fixed, !.shown = v.fixed]
           sought == IF v.seek # 0 THEN SeekTo(sized, v.seek) ELSE sized
<1>1. v.fixed \in Sizes \cup {0, LayoutSize} /\ v.seek \in Positions
  BY DEF View
<1>2. sized \in View
  BY <1>1, Zenon DEF View
<1>3. Sound(sized)
  BY DEF View, Sound, PostsAgree, RunningAgrees, SeekAgrees,
         DisplayAgrees, NothingPosted, InPlaybackState, Playback
<1>4. OnSurfaceChanged(v, v.fixed) = Start(sought) \/ OnSurfaceChanged(v, v.fixed) = sized
  BY DEF OnSurfaceChanged
<1> HIDE DEF sized
<1>5. sought \in View /\ Sound(sought)
  BY <1>1, <1>2, <1>3, SeekToSound
<1> HIDE DEF sought
<1>6. QED
  BY <1>2, <1>3, <1>4, <1>5, StartSound

\* A surface that goes is let go of by the view and by its player.
LEMMA SurfaceDestroyedSound ==
  ASSUME NEW v \in View, Sound(v)
  PROVE  OnSurfaceDestroyed(v) \in View /\ Sound(OnSurfaceDestroyed(v))
<1>1. /\ "null" \in {"null", "current", "removed"} /\ "absent" \in {"absent", "present"}
      /\ 0 \in Sizes \cup {0, LayoutSize}
  OBVIOUS
<1>2. OnSurfaceDestroyed(v) =
        [v EXCEPT !.holder = "null", !.surface = "absent", !.shown = 0, !.display = "null"]
  BY DEF OnSurfaceDestroyed, ReleaseWithoutStop
<1>3. Sound(OnSurfaceDestroyed(v))
  BY DEF OnSurfaceDestroyed, ReleaseWithoutStop, View, Sound, PostsAgree, RunningAgrees, SeekAgrees,
         DisplayAgrees, NothingPosted, InPlaybackState, Playback
<1>4. [v EXCEPT !.holder = "null", !.surface = "absent", !.shown = 0, !.display = "null"] \in View
  BY <1>1, ZenonT(60) DEF View
<1>5. QED
  BY <1>2, <1>3, <1>4, Zenon

----------------------------------------------------------------------------
\* The messages of the player.

\* setVideoSize keeps the types.
LEMMA ResizedType ==
  ASSUME NEW v \in View, NEW size \in Sizes \cup {0}
  PROVE  Resized(v, size) \in View
<1> DEFINE fixed == IF size # 0 /\ v.kind = "surface" THEN size ELSE v.fixed
<1>1. Resized(v, size) = [v EXCEPT !.width = size, !.fixed = fixed]
  BY DEF Resized
<1>2. fixed \in Sizes \cup {LayoutSize}
  BY DEF View
<1> HIDE DEF fixed
<1>3. [v EXCEPT !.width = size, !.fixed = fixed] \in View
  BY <1>2, Zenon DEF View
<1>4. QED
  BY <1>1, <1>3, Zenon

\* onPrepared: a pending seek is carried out before the player is started.
LEMMA PreparedSound ==
  ASSUME NEW v \in View, Sound(v), v.phase # "none"
  PROVE  OnPrepared(v) \in View /\ Sound(OnPrepared(v))
<1> DEFINE counted == [v EXCEPT !.current = "PREPARED"]
           ready == Resized(counted, v.size)
           sought == IF v.seek # 0 THEN SeekTo(ready, v.seek) ELSE ready
<1>1. counted \in View
  BY Stored, Zenon DEF View
<1>2. v.size \in Sizes \cup {0} /\ v.seek \in Positions
  BY DEF View
<1>3. ready \in View
  <2> HIDE DEF counted
  <2>1. QED
    BY <1>1, <1>2, ResizedType
<1>4. sought \in View
  <2> HIDE DEF ready
  <2>1. QED
    BY <1>2, <1>3, SeekToType
<1>5. Sound(sought)
  BY DEF Resized, SeekTo, View, Sound, PostsAgree, RunningAgrees, SeekAgrees,
         DisplayAgrees, NothingPosted, InPlaybackState, Playback
<1>6. OnPrepared(v) = Start(sought) \/ OnPrepared(v) = sought
  BY DEF OnPrepared
<1> HIDE DEF sought
<1>7. QED
  BY <1>4, <1>5, <1>6, StartSound

\* onVideoSizeChanged.
LEMMA SizeChangedSound ==
  ASSUME NEW v \in View, Sound(v), NEW size \in Sizes \cup {0}
  PROVE  OnVideoSizeChanged(v, size) \in View /\ Sound(OnVideoSizeChanged(v, size))
<1> DEFINE told == [v EXCEPT !.size = size]
<1>1. told \in View
  BY Zenon DEF View
<1>2. Sound(OnVideoSizeChanged(v, size))
  BY DEF OnVideoSizeChanged, Resized, View, Sound, PostsAgree, RunningAgrees, SeekAgrees,
         DisplayAgrees, NothingPosted, InPlaybackState, Playback
<1>3. OnVideoSizeChanged(v, size) = Resized(told, size)
  BY DEF OnVideoSizeChanged
<1> HIDE DEF told
<1>4. QED
  BY <1>1, <1>2, <1>3, ResizedType

\* A message that is posted is the last of the inbox.
LEMMA Posted ==
  ASSUME NEW v \in View, NEW event \in Events
  PROVE  /\ Post(v, event) \in View
         /\ Post(v, event).inbox = Append(v.inbox, event)
<1>1. Append(v.inbox, event) \in Seq(Events)
  BY DEF View
<1>2. Post(v, event) \in View
  BY <1>1, Zenon DEF Post, View
<1>3. QED
  BY <1>2 DEF Post, View

\* Whatever message is at the head of the inbox, handling it keeps the agreement.
LEMMA HandledSound ==
  ASSUME NEW v \in View, Sound(v), v.inbox # << >>
  PROVE  Handled(v) \in View /\ Sound(Handled(v))
<1> DEFINE event == Head(v.inbox)
           rest == [v EXCEPT !.inbox = Tail(v.inbox)]
<1>1. /\ v.inbox \in Seq(Events) /\ Len(v.inbox) \in Nat \ {0}
      /\ event = v.inbox[1] /\ event \in Events
      /\ Tail(v.inbox) \in Seq(Events) /\ Len(Tail(v.inbox)) = Len(v.inbox) - 1
      /\ \A i \in 1 .. Len(Tail(v.inbox)) : Tail(v.inbox)[i] = v.inbox[i + 1]
  BY DEF View
<1>2. event.what \in {"prepared", "size", "completed", "error"} \cup Infos
  BY <1>1 DEF Events
<1>3. rest \in View
  BY <1>1, Zenon DEF View
<1>4. v.phase # "none"
  BY DEF Sound, NothingPosted
<1>5. Sound(rest)
  <2>1. PostsAgree(rest)
    <3>1. /\ rest.phase = v.phase /\ rest.current = v.current
          /\ rest.inbox = Tail(v.inbox)
      BY DEF View
    <3> HIDE DEF rest, event
    <3>2. SUFFICES ASSUME NEW i \in 1 .. Len(Tail(v.inbox))
                   PROVE  /\ Tail(v.inbox)[i].what = "error" =>
                                i = Len(Tail(v.inbox)) /\ v.phase = "broken"
                          /\ Tail(v.inbox)[i].what = "completed" => v.current \in Playback
      BY <3>1 DEF PostsAgree
    <3>3. i + 1 \in 1 .. Len(v.inbox) /\ Tail(v.inbox)[i] = v.inbox[i + 1]
      BY <1>1
    <3>4. /\ v.inbox[i + 1].what = "error" => i + 1 = Len(v.inbox) /\ v.phase = "broken"
          /\ v.inbox[i + 1].what = "completed" => v.current \in Playback
      BY <3>3 DEF Sound, PostsAgree
    <3>5. QED
      BY <1>1, <3>3, <3>4
  <2>2. QED
    BY <1>4, <2>1 DEF View, Sound, RunningAgrees, SeekAgrees, DisplayAgrees, NothingPosted,
                    InPlaybackState
<1>6. rest.phase = v.phase /\ rest.current = v.current /\ rest.inbox = Tail(v.inbox)
  BY DEF View
<1>7. \/ event.what = "prepared" /\ Handled(v) = OnPrepared(rest)
      \/ event.what = "size" /\ Handled(v) = OnVideoSizeChanged(rest, event.size)
      \/ event.what = "completed" /\ Handled(v) = OnCompletion(rest)
      \/ event.what = "error" /\ Handled(v) = OnError(rest)
      \/ event.what \in Infos /\ Handled(v) = rest
  BY <1>2, ViewAssumption DEF Handled
<1>8. CASE event.what = "completed"
  <2>1. v.current \in Playback
    BY <1>1, <1>8 DEF Sound, PostsAgree
  <2>2. OnCompletion(rest) \in View
    <3> HIDE DEF rest
    <3>1. QED
      BY <1>3, Stored, ZenonT(60) DEF OnCompletion, View
  <2>3. Sound(OnCompletion(rest))
    <3> HIDE DEF rest
    <3>1. QED
      BY <1>3, <1>4, <1>5, <1>6, <2>1 DEF OnCompletion, View, Sound, PostsAgree, RunningAgrees, SeekAgrees,
         DisplayAgrees, NothingPosted, InPlaybackState, Playback
  <2>4. Handled(v) = OnCompletion(rest)
    BY <1>8, ViewAssumption DEF Handled
  <2>5. QED
    BY <2>2, <2>3, <2>4
<1>9. CASE event.what = "error"
  <2>1. v.phase = "broken" /\ Len(v.inbox) = 1
    <3>1. 1 \in 1 .. Len(v.inbox) /\ v.inbox[1].what = "error"
      BY <1>1, <1>9
    <3>2. v.inbox[1].what = "error" => 1 = Len(v.inbox) /\ v.phase = "broken"
      BY <3>1 DEF Sound, PostsAgree
    <3>3. QED
      BY <3>1, <3>2
  <2>2. OnError(rest) \in View
    <3> HIDE DEF rest
    <3>1. QED
      BY <1>3, Stored, ZenonT(60) DEF OnError, View
  <2>3. Sound(OnError(rest))
    <3>1. Len(rest.inbox) = 0
      BY <1>1, <1>6, <2>1
    <3> HIDE DEF rest
    <3>2. QED
      BY <1>3, <1>4, <1>5, <1>6, <2>1, <3>1 DEF OnError, View, Sound, PostsAgree, RunningAgrees, SeekAgrees,
         DisplayAgrees, NothingPosted, InPlaybackState, Playback
  <2>4. Handled(v) = OnError(rest)
    BY <1>9, ViewAssumption DEF Handled
  <2>5. QED
    BY <2>2, <2>3, <2>4
<1>10. event.size \in Sizes \cup {0}
  BY <1>1 DEF Events
<1> HIDE DEF rest, event
<1>11. QED
  BY <1>3, <1>4, <1>5, <1>6, <1>7, <1>8, <1>9, <1>10, PreparedSound, SizeChangedSound

----------------------------------------------------------------------------
\* Every step.

\* A message about anything but an error or a completion disturbs nothing.
LEMMA PostedSound ==
  ASSUME NEW v \in View, Sound(v), v.phase \notin {"none", "broken"},
         NEW event \in Events, event.what \notin {"error", "completed"}
  PROVE  Post(v, event) \in View /\ Sound(Post(v, event))
<1> DEFINE posted == Post(v, event)
<1>1. posted \in View /\ posted.inbox = Append(v.inbox, event)
  BY Posted
<1>2. /\ posted.phase = v.phase /\ posted.current = v.current /\ posted.target = v.target
      /\ posted.seek = v.seek /\ posted.holder = v.holder /\ posted.surface = v.surface
      /\ posted.display = v.display
  BY DEF Post, View
<1>3. /\ v.inbox \in Seq(Events)
      /\ Len(Append(v.inbox, event)) = Len(v.inbox) + 1
      /\ \A i \in 1 .. Len(v.inbox) : Append(v.inbox, event)[i] = v.inbox[i]
      /\ Append(v.inbox, event)[Len(v.inbox) + 1] = event
  BY DEF View
<1> HIDE DEF posted
<1>4. PostsAgree(posted)
  BY <1>1, <1>2, <1>3 DEF Sound, PostsAgree
<1>5. Sound(posted)
  BY <1>2, <1>4 DEF Sound, RunningAgrees, SeekAgrees, DisplayAgrees, NothingPosted,
                    InPlaybackState
<1>6. QED
  BY <1>1, <1>5 DEF posted

\* The player says that it failed and is broken: nothing more will be posted.
LEMMA FailedSound ==
  ASSUME NEW v \in View, Sound(v), v.phase # "none", NEW event \in Events,
         event.what # "completed", v.phase # "broken"
  PROVE  LET failed == Post([v EXCEPT !.phase = "broken"], event)
         IN  failed \in View /\ Sound(failed)
<1> DEFINE broken == [v EXCEPT !.phase = "broken"]
           failed == Post(broken, event)
<1>1. broken \in View
  BY Stored, Zenon DEF View
<1>2. failed \in View /\ failed.inbox = Append(broken.inbox, event)
  <2> HIDE DEF broken
  <2>1. QED
    BY <1>1, Posted
<1>3. /\ failed.phase = "broken" /\ failed.current = v.current /\ failed.target = v.target
      /\ failed.seek = v.seek /\ failed.holder = v.holder /\ failed.surface = v.surface
      /\ failed.display = v.display /\ broken.inbox = v.inbox
  BY DEF Post, View
<1>4. /\ v.inbox \in Seq(Events)
      /\ Len(Append(v.inbox, event)) = Len(v.inbox) + 1
      /\ \A i \in 1 .. Len(v.inbox) : Append(v.inbox, event)[i] = v.inbox[i]
      /\ Append(v.inbox, event)[Len(v.inbox) + 1] = event
  BY DEF View
<1> HIDE DEF failed, broken
<1>5. PostsAgree(failed)
  BY <1>2, <1>3, <1>4 DEF Sound, PostsAgree
<1>6. Sound(failed)
  BY <1>3, <1>5 DEF Sound, RunningAgrees, SeekAgrees, DisplayAgrees, NothingPosted,
                    InPlaybackState
<1>7. QED
  BY <1>2, <1>6 DEF failed, broken

\* The player says that it has played to the end, which it only does when running.
LEMMA CompletedSound ==
  ASSUME NEW v \in View, Sound(v), v.phase = "started"
  PROVE  LET over == Post([v EXCEPT !.phase = "completed"], Event("completed", 0))
         IN  over \in View /\ Sound(over)
<1> DEFINE done == [v EXCEPT !.phase = "completed"]
           event == Event("completed", 0)
           over == Post(done, event)
<1>1. done \in View
  BY Stored, Zenon DEF View
<1>2. event \in Events /\ event.what = "completed"
  BY DEF Event, Events
<1>3. over \in View /\ over.inbox = Append(done.inbox, event)
  <2> HIDE DEF done, event
  <2>1. QED
    BY <1>1, <1>2, Posted
<1>4. /\ over.phase = "completed" /\ over.current = v.current /\ over.target = v.target
      /\ over.seek = v.seek /\ over.holder = v.holder /\ over.surface = v.surface
      /\ over.display = v.display /\ done.inbox = v.inbox
  BY DEF Post, View
<1>5. /\ v.inbox \in Seq(Events)
      /\ Len(Append(v.inbox, event)) = Len(v.inbox) + 1
      /\ \A i \in 1 .. Len(v.inbox) : Append(v.inbox, event)[i] = v.inbox[i]
      /\ Append(v.inbox, event)[Len(v.inbox) + 1] = event
  BY <1>2 DEF View
<1>6. v.current \in Playback
  BY DEF Sound, RunningAgrees
<1> HIDE DEF over, done, event
<1>7. PostsAgree(over)
  BY <1>2, <1>3, <1>4, <1>5, <1>6 DEF Sound, PostsAgree
<1>8. Sound(over)
  BY <1>4, <1>7 DEF Sound, RunningAgrees, SeekAgrees, DisplayAgrees, NothingPosted,
                    InPlaybackState
<1>9. QED
  BY <1>3, <1>8 DEF over, done, event

\* The public methods, in any order and with any argument.
LEMMA ClientStep ==
  ASSUME video \in View, Sound(video), Calls
  PROVE  video' \in View /\ Sound(video')
<1>1. CASE ClientSetsURI
  BY <1>1, SetVideoURISound DEF ClientSetsURI
<1>2. CASE ClientStarts
  BY <1>2, StartSound DEF ClientStarts
<1>3. CASE ClientPauses
  BY <1>3, PauseSound DEF ClientPauses
<1>4. CASE ClientSeeks
  BY <1>4, SeekToSound DEF ClientSeeks
<1>5. CASE ClientStops
  BY <1>5, ReleaseSound DEF ClientStops, StopPlayback
<1>6. CASE ClientReleases
  BY <1>6, ReleaseSound DEF ClientReleases
<1>7. CASE ClientResumes
  BY <1>7, OpenVideoSound DEF ClientResumes
<1>8. CASE ClientSetsRender
  BY <1>8, SetRenderSound DEF ClientSetsRender
<1>9. QED
  BY <1>1, <1>2, <1>3, <1>4, <1>5, <1>6, <1>7, <1>8 DEF Calls

\* The window system.
LEMMA WindowStep ==
  ASSUME video \in View, Sound(video), Window
  PROVE  video' \in View /\ Sound(video')
<1>1. CASE SurfaceCreated
  BY <1>1, SurfaceCreatedSound DEF SurfaceCreated
<1>2. CASE SurfaceChanged
  BY <1>2, SurfaceChangedSound DEF SurfaceChanged
<1>3. CASE SurfaceDestroyed
  BY <1>3, SurfaceDestroyedSound DEF SurfaceDestroyed
<1>4. QED
  BY <1>1, <1>2, <1>3 DEF Window

\* The player's threads.
LEMMA NativeStep ==
  ASSUME video \in View, Sound(video), Native
  PROVE  video' \in View /\ Sound(video')
<1>1. CASE NativeSize
  <2>1. PICK size \in Sizes : video' = Post(video, Event("size", size))
    BY <1>1 DEF NativeSize
  <2>2. /\ Event("size", size) \in Events
        /\ Event("size", size).what \notin {"error", "completed"}
    BY DEF Event, Events
  <2>3. video.phase \notin {"none", "broken"}
    BY <1>1 DEF NativeSize, Alive
  <2>4. QED
    BY <2>1, <2>2, <2>3, PostedSound
<1>2. CASE NativePrepared
  <2> DEFINE ready == [video EXCEPT !.phase = "prepared"]
  <2>1. video.phase = "preparing" /\ video' = Post(ready, Event("prepared", 0))
    BY <1>2 DEF NativePrepared
  <2>2. /\ Event("prepared", 0) \in Events
        /\ Event("prepared", 0).what \notin {"error", "completed"}
    BY DEF Event, Events
  <2>3. ready \in View
    BY Stored, Zenon DEF View
  <2>4. Sound(ready) /\ ready.phase = "prepared"
    BY <2>1 DEF View, Sound, PostsAgree, RunningAgrees, SeekAgrees,
         DisplayAgrees, NothingPosted, InPlaybackState, Playback
  <2> HIDE DEF ready
  <2>5. QED
    BY <2>1, <2>2, <2>3, <2>4, PostedSound
<1>3. CASE NativeCompleted
  BY <1>3, CompletedSound DEF NativeCompleted
<1>4. CASE NativeFailed
  <2>1. /\ Event("error", 0) \in Events /\ Event("error", 0).what # "completed"
    BY DEF Event, Events
  <2>2. video.phase # "none" /\ video.phase # "broken"
    BY <1>4 DEF NativeFailed, Alive
  <2>3. QED
    BY <1>4, <2>1, <2>2, FailedSound DEF NativeFailed
<1>5. CASE NativeInforms
  <2>1. PICK what \in Infos : video' = Post(video, Event(what, 0))
    BY <1>5 DEF NativeInforms
  <2>2. /\ Event(what, 0) \in Events
        /\ Event(what, 0).what \notin {"error", "completed"}
    BY ViewAssumption DEF Event, Events
  <2>3. video.phase \notin {"none", "broken"}
    BY <1>5 DEF NativeInforms, Alive
  <2>4. QED
    BY <2>1, <2>2, <2>3, PostedSound
<1>6. CASE NativeAdvances
  <2> DEFINE next == video.at + 1
  <2>1. next \in Positions
    BY <1>6, ViewAssumption DEF NativeAdvances, View, Positions
  <2>2. video' = [video EXCEPT !.at = next]
    BY <1>6 DEF NativeAdvances
  <2> HIDE DEF next
  <2>3. [video EXCEPT !.at = next] \in View
    BY <2>1, Zenon DEF View
  <2>4. Sound([video EXCEPT !.at = next])
    BY DEF View, Sound, PostsAgree, RunningAgrees, SeekAgrees,
         DisplayAgrees, NothingPosted, InPlaybackState, Playback
  <2>5. QED
    BY <2>2, <2>3, <2>4
<1>7. QED
  BY <1>1, <1>2, <1>3, <1>4, <1>5, <1>6 DEF Native

\* A new view is in agreement with itself.
LEMMA InitSound == Init => Inv
<1> SUFFICES ASSUME Init PROVE Inv
  OBVIOUS
<1>1. NewView \in View
  <2>1. NoUri \in Uris \cup {NoUri}
    OBVIOUS
  <2>2. QED
    BY <2>1, Stored DEF NewView, View
<1>2. Sound(NewView)
  BY DEF NewView, Sound, PostsAgree, RunningAgrees, SeekAgrees,
         DisplayAgrees, NothingPosted, InPlaybackState, Playback
<1>3. QED
  BY <1>1, <1>2 DEF Init, Inv, TypeOK

\* Every step keeps the view and its player in agreement.
LEMMA StepSound == Inv /\ [Next]_video => Inv'
<1> SUFFICES ASSUME video \in View, Sound(video), [Next]_video
             PROVE  video' \in View /\ Sound(video')
  BY DEF Inv, TypeOK
<1>1. CASE Calls
  BY <1>1, ClientStep
<1>2. CASE Window
  BY <1>2, WindowStep
<1>3. CASE Native
  BY <1>3, NativeStep
<1>4. CASE Handle
  BY <1>4, HandledSound DEF Handle
<1>5. CASE UNCHANGED video
  BY <1>5
<1>6. QED
  BY <1>1, <1>2, <1>3, <1>4, <1>5 DEF Next

\* The agreement of the view and its player is an invariant of the component.
LEMMA Agreement == Spec => []Inv
<1>1. QED
  BY InitSound, StepSound, PTL DEF Spec

----------------------------------------------------------------------------
\* The view, its player and its surface are well typed for every bound.
THEOREM ViewTypeCorrect == Spec => []TypeOK
<1>1. Inv => TypeOK
  BY DEF Inv
<1>2. QED
  BY <1>1, Agreement, PTL

\* No seek is left pending once the view counts as being in a playback state.
THEOREM PendingSeekAppliedHolds == Spec => []PendingSeekApplied
<1>1. Inv => PendingSeekApplied
  BY DEF Inv, Sound, SeekAgrees, PendingSeekApplied
<1>2. QED
  BY <1>1, Agreement, PTL

\* A player never runs against the last wish.
THEOREM PlaysOnlyAsWishedHolds == Spec => []PlaysOnlyAsWished
<1>1. Inv => PlaysOnlyAsWished
  BY DEF Inv, Sound, RunningAgrees, PlaysOnlyAsWished
<1>2. QED
  BY <1>1, Agreement, PTL

\* A player draws on the current surface while there is one and on none after.
THEOREM DisplayFollowsSurfaceHolds == Spec => []DisplayFollowsSurface
<1>1. Inv => DisplayFollowsSurface
  BY DEF Inv, Sound, DisplayAgrees, DisplayFollowsSurface, Alive
<1>2. QED
  BY <1>1, Agreement, PTL

----------------------------------------------------------------------------
(***************************************************************************)
(* A view that waits to play.  Two ways lead from waiting to playing: the  *)
(* listener of the prepared player starts it, or, when the surface has not *)
(* yet the size of the picture, the callback of the resized surface does.  *)
(* Awaited says that one of the two is always due.                         *)
(***************************************************************************)

\* The size asked of the render view's surface is the picture's, and the surface
\* tells the size it has.
SizesAgree(v) ==
  /\ v.kind = "surface" /\ v.width # 0 => v.fixed = v.width
  /\ v.surface = "present" /\ v.shown # 0 => v.surfaceWidth = v.shown

\* The player has posted that it is prepared.
PreparedSaid(v) == \E i \in 1 .. Len(v.inbox) : v.inbox[i].what = "prepared"

\* A player that is to be prepared, or has just said that it is, is one that the
\* view counts as preparing.
PhaseAgrees(v) ==
  /\ v.phase = "preparing" => v.current = "PREPARING"
  /\ v.phase = "prepared" => v.current = "PREPARED" \/ (v.current = "PREPARING" /\ PreparedSaid(v))

\* A source tells its size once; a player that has not run completes nothing.
MessagesAgree(v) ==
  \A i \in 1 .. Len(v.inbox) :
    /\ v.inbox[i].what = "size" =>
         /\ v.size = 0 /\ v.inbox[i].size # 0
         /\ \A j \in 1 .. Len(v.inbox) : v.inbox[j].what = "size" => i = j
    /\ v.inbox[i].what = "prepared" => v.phase # "preparing"
    /\ v.inbox[i].what = "completed" => v.phase \notin {"preparing", "prepared"}

\* A view that has heard its player is prepared and still waits to play knows the
\* size of the picture and waits for its surface to take it.
WaitAgrees(v) ==
  v.phase = "prepared" /\ v.current = "PREPARED" /\ v.target = "PLAYING" =>
    /\ v.size # 0 /\ v.width = v.size
    /\ v.kind = "surface" /\ v.surface = "present" => v.shown # v.fixed

\* What a waiting view relies on.
Awaited(v) == SizesAgree(v) /\ PhaseAgrees(v) /\ MessagesAgree(v) /\ WaitAgrees(v)

\* What a waiting view waits for is about to happen: its player will be prepared
\* or fail, has said that it is prepared, or the surface is to be resized or created.
WaitingProceeds ==
  Waiting => \/ video.phase = "preparing"
             \/ PreparedSaid(video)
             \/ video.surface = "present" /\ video.shown # video.fixed
             \/ video.surface = "absent"

\* A view that has heard that its player is prepared, and waits, is served by the
\* next size of its surface.
ResizeServes ==
  Waiting /\ video.phase = "prepared" /\ ~PreparedSaid(video) /\ SurfaceChanged
    => video'.phase = "started"

\* Starting keeps what a waiting view relies on.
LEMMA StartAwaited ==
  ASSUME NEW v \in View, Awaited(v) PROVE Awaited(Start(v))
BY DEF Start, NativeStarted, InPlaybackState, View, Awaited, SizesAgree, PhaseAgrees, MessagesAgree,
       WaitAgrees, PreparedSaid

\* So does pausing,
LEMMA PauseAwaited ==
  ASSUME NEW v \in View, Awaited(v) PROVE Awaited(Pause(v))
BY DEF Pause, IsPlaying, InPlaybackState, View, Awaited, SizesAgree, PhaseAgrees, MessagesAgree,
       WaitAgrees, PreparedSaid

\* and seeking.
LEMMA SeekToAwaited ==
  ASSUME NEW v \in View, NEW position \in Positions, Awaited(v) PROVE Awaited(SeekTo(v, position))
BY DEF SeekTo, View, Awaited, SizesAgree, PhaseAgrees, MessagesAgree, WaitAgrees, PreparedSaid

\* A released player leaves nothing to wait for.
LEMMA ReleaseAwaited ==
  ASSUME NEW v \in View, Awaited(v), NEW clear \in BOOLEAN
  PROVE  Awaited(ReleasePlayer(v, clear))
BY DEF ReleasePlayer, WithoutPlayer, View, Awaited, SizesAgree, PhaseAgrees, MessagesAgree,
       WaitAgrees, PreparedSaid

\* A player that is opened is preparing, or has failed at once.
LEMMA OpenVideoAwaited ==
  ASSUME NEW v \in View, Sound(v), Awaited(v), NEW opened \in BOOLEAN
  PROVE  Awaited(OpenVideo(v, opened))
<1> DEFINE closed == ReleasePlayer(v, FALSE)
           open == [closed EXCEPT !.phase = "preparing", !.source = v.uri,
                                  !.display = v.holder, !.current = "PREPARING"]
           failed == [closed EXCEPT !.phase = "broken", !.source = v.uri,
                                    !.current = "ERROR", !.target = "ERROR"]
<1>1. closed \in View /\ Awaited(closed) /\ closed.inbox = << >>
  <2>1. closed \in View
    BY ReleaseSound
  <2>2. Awaited(closed)
    BY ReleaseAwaited
  <2>3. closed.inbox = << >>
    BY DEF ReleasePlayer, WithoutPlayer, View, Sound, NothingPosted
  <2> QED BY <2>1, <2>2, <2>3
<1>2. OpenVideo(v, opened) = v \/ OpenVideo(v, opened) = open \/ OpenVideo(v, opened) = failed
  BY DEF OpenVideo
<1> HIDE DEF closed
<1>3. Awaited(open) /\ Awaited(failed)
  BY <1>1 DEF View, Awaited, SizesAgree, PhaseAgrees, MessagesAgree, WaitAgrees, PreparedSaid
<1> QED BY <1>2, <1>3

\* The texture view that replaces the render view has no surface yet.
LEMMA SetRenderAwaited ==
  ASSUME NEW v \in View, Awaited(v) PROVE Awaited(SetRender(v))
BY DEF SetRender, View, Awaited, SizesAgree, PhaseAgrees, MessagesAgree, WaitAgrees, PreparedSaid

\* A surface that is created has not told a size, and its size is to be told.
LEMMA SurfaceCreatedAwaited ==
  ASSUME NEW v \in View, Sound(v), Awaited(v), v.surface = "absent", NEW opened \in BOOLEAN
  PROVE  Awaited(OnSurfaceCreated(v, opened))
<1> DEFINE held == [v EXCEPT !.holder = "current", !.surface = "present", !.shown = 0]
           bound == [held EXCEPT !.display = "current"]
<1>1. held \in View
  <2>1. "current" \in {"null", "current", "removed"} /\ "present" \in {"absent", "present"}
        /\ 0 \in Sizes \cup {0, LayoutSize}
    OBVIOUS
  <2> QED BY <2>1, Zenon DEF View
<1>2. v.fixed # 0
  BY ViewAssumption DEF View, LayoutSize
<1>3. Awaited(held) /\ Awaited(bound)
  BY <1>2 DEF View, Awaited, SizesAgree, PhaseAgrees, MessagesAgree, WaitAgrees, PreparedSaid
<1>4. CASE v.phase # "none"
  BY <1>3, <1>4 DEF OnSurfaceCreated
<1>5. CASE v.phase = "none"
  <2>1. Sound(held)
    BY <1>5 DEF View, Sound, PostsAgree, RunningAgrees, SeekAgrees, DisplayAgrees, NothingPosted,
       InPlaybackState
  <2>2. OnSurfaceCreated(v, opened) = OpenVideo(held, opened)
    BY <1>5 DEF OnSurfaceCreated
  <2> HIDE DEF held
  <2> QED BY <1>1, <1>3, <2>1, <2>2, OpenVideoAwaited
<1> QED BY <1>4, <1>5

\* A surface that has taken the size asked of it starts a player that waited for it.
LEMMA SurfaceChangedAwaited ==
  ASSUME NEW v \in View, Awaited(v), v.surface = "present"
  PROVE  /\ Awaited(OnSurfaceChanged(v, v.fixed))
         /\ v.phase = "prepared" /\ v.current = "PREPARED" /\ v.target = "PLAYING"
              => OnSurfaceChanged(v, v.fixed).phase = "started"
<1> DEFINE sized == [v EXCEPT !.surfaceWidth = v.fixed, !.shown = v.fixed]
           sought == IF v.seek # 0 THEN SeekTo(sized, v.seek) ELSE sized
<1>1. v.fixed \in Sizes \cup {0, LayoutSize} /\ v.seek \in Positions
  BY DEF View
<1>2. sized \in View
  BY <1>1, Zenon DEF View
<1>3. v.phase = "prepared" /\ v.current = "PREPARED" /\ v.target = "PLAYING" => HasValidSize(sized)
  BY DEF HasValidSize, View, Awaited, SizesAgree, WaitAgrees
<1>4. SizesAgree(sized) /\ PhaseAgrees(sized) /\ MessagesAgree(sized)
  BY DEF View, Awaited, SizesAgree, PhaseAgrees, MessagesAgree, PreparedSaid
<1>5. /\ sized.phase = v.phase /\ sized.current = v.current /\ sized.target = v.target
      /\ sized.size = v.size /\ sized.width = v.width
  BY DEF View
<1>6. OnSurfaceChanged(v, v.fixed) =
        IF v.phase # "none" /\ v.target = "PLAYING" /\ HasValidSize(sized) THEN Start(sought) ELSE sized
  BY DEF OnSurfaceChanged
<1> HIDE DEF sized
<1>7. sought \in View
  BY <1>1, <1>2, SeekToType
<1>8. /\ SizesAgree(sought) /\ PhaseAgrees(sought) /\ MessagesAgree(sought)
      /\ sought.phase = v.phase /\ sought.current = v.current /\ sought.target = v.target
  BY <1>1, <1>2, <1>4, <1>5 DEF SeekTo, View, SizesAgree, PhaseAgrees, MessagesAgree, PreparedSaid
<1> HIDE DEF sought
<1>9. CASE v.phase = "prepared" /\ v.current = "PREPARED" /\ v.target = "PLAYING"
  <2>1. OnSurfaceChanged(v, v.fixed) = Start(sought)
    BY <1>3, <1>6, <1>9
  <2>2. Start(sought).phase = "started" /\ Awaited(Start(sought))
    BY <1>7, <1>8, <1>9 DEF Start, NativeStarted, InPlaybackState, View, Awaited, SizesAgree,
       PhaseAgrees, MessagesAgree, WaitAgrees, PreparedSaid
  <2> QED BY <2>1, <2>2
<1>10. CASE ~(v.phase = "prepared" /\ v.current = "PREPARED" /\ v.target = "PLAYING")
  <2>1. Awaited(sized) /\ Awaited(sought)
    BY <1>4, <1>5, <1>8, <1>10 DEF Awaited, WaitAgrees
  <2> QED BY <1>6, <1>7, <1>10, <2>1, StartAwaited
<1> QED BY <1>9, <1>10

\* A surface that goes leaves a view that waits for another.
LEMMA SurfaceDestroyedAwaited ==
  ASSUME NEW v \in View, Awaited(v) PROVE Awaited(OnSurfaceDestroyed(v))
BY DEF OnSurfaceDestroyed, ReleaseWithoutStop, View, Awaited, SizesAgree, PhaseAgrees, MessagesAgree,
       WaitAgrees, PreparedSaid

\* A view that hears of its prepared player starts it, or knows that the size of
\* its surface is still to change.
LEMMA PreparedAwaited ==
  ASSUME NEW v \in View, SizesAgree(v), MessagesAgree(v), v.phase \notin {"none", "preparing"}
  PROVE  Awaited(OnPrepared(v))
<1> DEFINE counted == [v EXCEPT !.current = "PREPARED"]
           ready == Resized(counted, v.size)
           sought == IF v.seek # 0 THEN SeekTo(ready, v.seek) ELSE ready
<1>1. v.size \in Sizes \cup {0} /\ v.seek \in Positions
  BY DEF View
<1>2. counted \in View
  BY Stored, Zenon DEF View
<1>3. ready \in View
  <2> HIDE DEF counted
  <2> QED BY <1>1, <1>2, ResizedType
<1>4. sought \in View
  <2> HIDE DEF ready
  <2> QED BY <1>1, <1>3, SeekToType
<1>5. /\ SizesAgree(sought) /\ PhaseAgrees(sought) /\ MessagesAgree(sought)
      /\ sought.phase = v.phase /\ sought.current = "PREPARED" /\ sought.target = v.target
      /\ sought.size = v.size /\ sought.width = v.size
  <2>1. /\ SizesAgree(ready) /\ PhaseAgrees(ready) /\ MessagesAgree(ready)
        /\ ready.phase = v.phase /\ ready.current = "PREPARED" /\ ready.target = v.target
        /\ ready.size = v.size /\ ready.width = v.size
    BY <1>1 DEF Resized, View, Awaited, SizesAgree, PhaseAgrees, MessagesAgree, PreparedSaid
  <2> HIDE DEF ready
  <2> QED BY <1>1, <1>3, <2>1 DEF SeekTo, View, SizesAgree, PhaseAgrees, MessagesAgree, PreparedSaid
<1>6. OnPrepared(v) = IF v.target = "PLAYING" /\ (v.size = 0 \/ HasValidSize(sought)) THEN Start(sought) ELSE sought
  BY DEF OnPrepared
<1> HIDE DEF sought
<1>7. CASE v.phase = "prepared" /\ OnPrepared(v) = Start(sought)
  BY <1>4, <1>5, <1>7 DEF Start, NativeStarted, InPlaybackState, View, Awaited, SizesAgree,
     PhaseAgrees, MessagesAgree, WaitAgrees, PreparedSaid
<1>8. CASE v.phase = "prepared" /\ OnPrepared(v) = sought /\ v.target = "PLAYING"
  <2>1. v.size # 0 /\ ~HasValidSize(sought)
    <3>1. sought # Start(sought)
      BY <1>4, <1>5, <1>8 DEF Start, NativeStarted, InPlaybackState, View
    <3> QED BY <1>6, <1>8, <3>1
  <2>2. sought.kind = "surface" /\ sought.width # sought.surfaceWidth
    BY <2>1 DEF HasValidSize
  <2>3. sought.fixed = sought.width /\ sought.surface = "present" => sought.shown # sought.fixed
    BY <1>5, <2>1, <2>2 DEF SizesAgree
  <2>4. sought.fixed = sought.width
    BY <1>5, <2>1, <2>2 DEF SizesAgree
  <2> QED BY <1>5, <1>8, <2>1, <2>3, <2>4 DEF Awaited, WaitAgrees
<1>9. CASE ~(v.phase = "prepared" /\ v.target = "PLAYING")
  <2>1. Awaited(sought)
    BY <1>5, <1>9 DEF Awaited, WaitAgrees
  <2> QED BY <1>4, <1>6, <2>1, StartAwaited
<1> QED BY <1>6, <1>7, <1>8, <1>9

\* A player that has ended is waited for no more.
LEMMA EndedAwaited ==
  ASSUME NEW v \in View, Awaited(v), v.phase \notin {"preparing", "prepared"}
  PROVE  Awaited(OnCompletion(v)) /\ Awaited(OnError(v))
BY DEF OnCompletion, OnError, View, Awaited, SizesAgree, PhaseAgrees, MessagesAgree, WaitAgrees,
       PreparedSaid

\* A size that comes after the player was prepared is asked of the surface.
LEMMA SizeChangedAwaited ==
  ASSUME NEW v \in View, Awaited(v), v.size = 0, NEW size \in Sizes \cup {0}, size # 0,
         \A i \in 1 .. Len(v.inbox) : v.inbox[i].what # "size"
  PROVE  Awaited(OnVideoSizeChanged(v, size))
BY DEF OnVideoSizeChanged, Resized, View, Awaited, SizesAgree, PhaseAgrees, MessagesAgree,
       WaitAgrees, PreparedSaid

\* Whatever message is at the head of the inbox.
LEMMA HandledAwaited ==
  ASSUME NEW v \in View, Sound(v), Awaited(v), v.inbox # << >>
  PROVE  Awaited(Handled(v))
<1> DEFINE event == Head(v.inbox)
           rest == [v EXCEPT !.inbox = Tail(v.inbox)]
<1>1. /\ v.inbox \in Seq(Events) /\ Len(v.inbox) \in Nat \ {0}
      /\ event = v.inbox[1] /\ event \in Events
      /\ Tail(v.inbox) \in Seq(Events) /\ Len(Tail(v.inbox)) = Len(v.inbox) - 1
      /\ \A i \in 1 .. Len(Tail(v.inbox)) : Tail(v.inbox)[i] = v.inbox[i + 1]
  BY DEF View
<1>2. /\ event.what \in {"prepared", "size", "completed", "error"} \cup Infos
      /\ event.size \in Sizes \cup {0}
  BY <1>1 DEF Events
<1>3. rest \in View
  BY <1>1, Zenon DEF View
<1>4. /\ rest.phase = v.phase /\ rest.current = v.current /\ rest.target = v.target
      /\ rest.size = v.size /\ rest.width = v.width /\ rest.kind = v.kind
      /\ rest.surface = v.surface /\ rest.shown = v.shown /\ rest.fixed = v.fixed
      /\ rest.surfaceWidth = v.surfaceWidth /\ rest.inbox = Tail(v.inbox)
  BY DEF View
<1>5. v.phase # "none"
  BY DEF Sound, NothingPosted
<1>6. 1 \in 1 .. Len(v.inbox) /\ \A i \in 1 .. Len(Tail(v.inbox)) : i + 1 \in 1 .. Len(v.inbox) /\ i + 1 # 1
  BY <1>1
<1>7. \/ event.what = "prepared" /\ Handled(v) = OnPrepared(rest)
      \/ event.what = "size" /\ Handled(v) = OnVideoSizeChanged(rest, event.size)
      \/ event.what = "completed" /\ Handled(v) = OnCompletion(rest)
      \/ event.what = "error" /\ Handled(v) = OnError(rest)
      \/ event.what \in Infos /\ Handled(v) = rest
  BY <1>2, ViewAssumption DEF Handled
<1> HIDE DEF rest, event
<1>8. SizesAgree(rest) /\ WaitAgrees(rest)
  BY <1>4 DEF Awaited, SizesAgree, WaitAgrees
<1>9. MessagesAgree(rest)
  <2> SUFFICES ASSUME NEW i \in 1 .. Len(Tail(v.inbox))
               PROVE  /\ Tail(v.inbox)[i].what = "prepared" => v.phase # "preparing"
                      /\ Tail(v.inbox)[i].what = "completed" => v.phase \notin {"preparing", "prepared"}
                      /\ Tail(v.inbox)[i].what = "size" =>
                           /\ v.size = 0 /\ Tail(v.inbox)[i].size # 0
                           /\ \A j \in 1 .. Len(Tail(v.inbox)) : Tail(v.inbox)[j].what = "size" => i = j
    BY <1>4, Zenon DEF MessagesAgree
  <2>1. /\ i + 1 \in 1 .. Len(v.inbox) /\ Tail(v.inbox)[i] = v.inbox[i + 1]
        /\ \A j \in 1 .. Len(Tail(v.inbox)) : j + 1 \in 1 .. Len(v.inbox) /\ Tail(v.inbox)[j] = v.inbox[j + 1]
                                              /\ (i + 1 = j + 1 => i = j)
    BY <1>1, <1>6
  <2> QED BY <2>1 DEF Awaited, MessagesAgree
<1>10. PreparedSaid(v) /\ event.what # "prepared" => PreparedSaid(rest)
  <2> SUFFICES ASSUME event.what # "prepared", NEW i \in 1 .. Len(v.inbox), v.inbox[i].what = "prepared"
               PROVE  \E j \in 1 .. Len(Tail(v.inbox)) : Tail(v.inbox)[j].what = "prepared"
    BY <1>4 DEF PreparedSaid
  <2>1. i # 1
    BY <1>1
  <2>2. i - 1 \in 1 .. Len(Tail(v.inbox)) /\ (i - 1) + 1 = i
    BY <1>1, <2>1
  <2>3. Tail(v.inbox)[i - 1] = v.inbox[i]
    BY <1>1, <2>2
  <2> QED BY <2>2, <2>3
<1>11. event.what # "prepared" => Awaited(rest)
  <2>1. event.what # "prepared" => PhaseAgrees(rest)
    BY <1>4, <1>10 DEF Awaited, PhaseAgrees
  <2> QED BY <1>8, <1>9, <2>1 DEF Awaited
<1>12. CASE event.what = "prepared" /\ Handled(v) = OnPrepared(rest)
  <2>1. rest.phase \notin {"none", "preparing"}
    BY <1>1, <1>4, <1>5, <1>6, <1>12 DEF Awaited, MessagesAgree
  <2> QED BY <1>3, <1>8, <1>9, <1>12, <2>1, PreparedAwaited
<1>13. CASE event.what = "size" /\ Handled(v) = OnVideoSizeChanged(rest, event.size)
  <2>1. v.size = 0 /\ event.size # 0 /\ \A j \in 1 .. Len(v.inbox) : v.inbox[j].what = "size" => 1 = j
    BY <1>1, <1>6, <1>13 DEF Awaited, MessagesAgree
  <2>2. \A i \in 1 .. Len(rest.inbox) : rest.inbox[i].what # "size"
    BY <1>1, <1>4, <1>6, <2>1
  <2>3. Awaited(rest) /\ rest.size = 0
    BY <1>4, <1>11, <1>13, <2>1
  <2> QED BY <1>2, <1>3, <1>13, <2>1, <2>2, <2>3, SizeChangedAwaited
<1>14. CASE event.what = "completed" /\ Handled(v) = OnCompletion(rest)
  <2>1. v.phase \notin {"preparing", "prepared"}
    BY <1>1, <1>6, <1>14 DEF Awaited, MessagesAgree
  <2> QED BY <1>3, <1>4, <1>11, <1>14, <2>1, EndedAwaited
<1>15. CASE event.what = "error" /\ Handled(v) = OnError(rest)
  <2>1. v.phase = "broken"
    BY <1>1, <1>6, <1>15 DEF Sound, PostsAgree
  <2> QED BY <1>3, <1>4, <1>11, <1>15, <2>1, EndedAwaited
<1>16. CASE event.what \in Infos /\ Handled(v) = rest
  BY <1>11, <1>16, ViewAssumption
<1> QED BY <1>7, <1>12, <1>13, <1>14, <1>15, <1>16

\* A message that is posted, in the phase of the player that posts it.
LEMMA PostedAwaited ==
  ASSUME NEW v \in View, NEW event \in Events,
         SizesAgree(v), MessagesAgree(v), WaitAgrees(v),
         \/ PhaseAgrees(v)
         \/ v.phase = "prepared" /\ v.current = "PREPARING" /\ event.what = "prepared",
         event.what = "size" => /\ v.size = 0 /\ event.size # 0
                                /\ \A i \in 1 .. Len(v.inbox) : v.inbox[i].what # "size",
         event.what = "prepared" => v.phase # "preparing",
         event.what = "completed" => v.phase \notin {"preparing", "prepared"}
  PROVE  Awaited(Post(v, event))
<1> DEFINE posted == Post(v, event)
<1>1. /\ v.inbox \in Seq(Events) /\ Len(v.inbox) \in Nat
      /\ Len(Append(v.inbox, event)) = Len(v.inbox) + 1
      /\ \A i \in 1 .. Len(v.inbox) : Append(v.inbox, event)[i] = v.inbox[i]
      /\ Append(v.inbox, event)[Len(v.inbox) + 1] = event
  BY DEF View
<1>2. /\ posted.inbox = Append(v.inbox, event)
      /\ posted.phase = v.phase /\ posted.current = v.current /\ posted.target = v.target
      /\ posted.size = v.size /\ posted.width = v.width /\ posted.kind = v.kind
      /\ posted.surface = v.surface /\ posted.shown = v.shown /\ posted.fixed = v.fixed
      /\ posted.surfaceWidth = v.surfaceWidth
  BY DEF Post, View
<1> HIDE DEF posted
<1>3. SizesAgree(posted) /\ WaitAgrees(posted)
  BY <1>2 DEF SizesAgree, WaitAgrees
<1>4. PhaseAgrees(posted)
  <2>1. PreparedSaid(v) \/ event.what = "prepared" => PreparedSaid(posted)
    <3>1. ASSUME NEW i \in 1 .. Len(v.inbox), v.inbox[i].what = "prepared"
          PROVE  PreparedSaid(posted)
      <4>1. i \in 1 .. Len(posted.inbox) /\ posted.inbox[i] = v.inbox[i]
        BY <1>1, <1>2
      <4> QED BY <3>1, <4>1 DEF PreparedSaid
    <3>2. ASSUME event.what = "prepared"
          PROVE  PreparedSaid(posted)
      <4>1. Len(v.inbox) + 1 \in 1 .. Len(posted.inbox) /\ posted.inbox[Len(v.inbox) + 1] = event
        BY <1>1, <1>2
      <4> QED BY <3>2, <4>1 DEF PreparedSaid
    <3> QED BY <3>1, <3>2 DEF PreparedSaid
  <2> QED BY <1>2, <2>1 DEF PhaseAgrees
<1>5. MessagesAgree(posted)
  <2>1. \A i \in 1 .. Len(posted.inbox) : i \in 1 .. Len(v.inbox) \/ i = Len(v.inbox) + 1
    BY <1>1, <1>2
  <2>2. \A i \in 1 .. Len(posted.inbox) :
          posted.inbox[i] = IF i \in 1 .. Len(v.inbox) THEN v.inbox[i] ELSE event
    BY <1>1, <1>2
  <2> QED BY <1>2, <2>1, <2>2 DEF MessagesAgree
<1> QED BY <1>3, <1>4, <1>5 DEF Awaited, posted

\* The public methods, in any order and with any argument.
LEMMA CallsAwaited ==
  ASSUME video \in View, Sound(video), Awaited(video), Calls
  PROVE  Awaited(video')
<1>1. CASE ClientSetsURI
  <2>1. PICK uri \in Uris, opened \in BOOLEAN : video' = SetVideoURI(video, uri, opened)
    BY <1>1 DEF ClientSetsURI
  <2> DEFINE asked == [video EXCEPT !.uri = uri, !.seek = 0]
  <2>2. asked \in View
    <3>1. uri \in Uris \cup {NoUri} /\ 0 \in Positions
      BY Stored
    <3> QED BY <3>1, Zenon DEF View
  <2>3. Sound(asked)
    BY DEF View, Sound, PostsAgree, RunningAgrees, SeekAgrees, DisplayAgrees, NothingPosted,
           InPlaybackState
  <2>4. Awaited(asked)
    BY DEF View, Awaited, SizesAgree, PhaseAgrees, MessagesAgree, WaitAgrees, PreparedSaid
  <2>5. video' = OpenVideo(asked, opened)
    BY <2>1 DEF SetVideoURI
  <2> HIDE DEF asked
  <2> QED BY <2>2, <2>3, <2>4, <2>5, OpenVideoAwaited
<1>2. CASE ClientStarts
  BY <1>2, StartAwaited DEF ClientStarts
<1>3. CASE ClientPauses
  BY <1>3, PauseAwaited DEF ClientPauses
<1>4. CASE ClientSeeks
  BY <1>4, SeekToAwaited DEF ClientSeeks
<1>5. CASE ClientStops
  BY <1>5, ReleaseAwaited DEF ClientStops, StopPlayback
<1>6. CASE ClientReleases
  BY <1>6, ReleaseAwaited DEF ClientReleases
<1>7. CASE ClientResumes
  BY <1>7, OpenVideoAwaited DEF ClientResumes
<1>8. CASE ClientSetsRender
  BY <1>8, SetRenderAwaited DEF ClientSetsRender
<1> QED BY <1>1, <1>2, <1>3, <1>4, <1>5, <1>6, <1>7, <1>8 DEF Calls

\* The window system.
LEMMA WindowAwaited ==
  ASSUME video \in View, Sound(video), Awaited(video), Window
  PROVE  Awaited(video')
<1>1. CASE SurfaceCreated
  BY <1>1, SurfaceCreatedAwaited DEF SurfaceCreated
<1>2. CASE SurfaceChanged
  BY <1>2, SurfaceChangedAwaited DEF SurfaceChanged
<1>3. CASE SurfaceDestroyed
  BY <1>3, SurfaceDestroyedAwaited DEF SurfaceDestroyed
<1> QED BY <1>1, <1>2, <1>3 DEF Window

\* The player's threads.
LEMMA NativeAwaited ==
  ASSUME video \in View, Sound(video), Awaited(video), Native
  PROVE  Awaited(video')
<1>1. CASE NativeSize
  <2>1. PICK size \in Sizes : video' = Post(video, Event("size", size))
    BY <1>1 DEF NativeSize
  <2>2. /\ Event("size", size) \in Events /\ Event("size", size).what = "size"
        /\ Event("size", size).size = size /\ size # 0
    BY ViewAssumption DEF Event, Events
  <2>3. video.size = 0 /\ \A i \in 1 .. Len(video.inbox) : video.inbox[i].what # "size"
    BY <1>1 DEF NativeSize, SizePosted
  <2> QED BY <2>1, <2>2, <2>3, PostedAwaited DEF Awaited
<1>2. CASE NativePrepared
  <2> DEFINE ready == [video EXCEPT !.phase = "prepared"]
  <2>1. video.phase = "preparing" /\ video' = Post(ready, Event("prepared", 0))
    BY <1>2 DEF NativePrepared
  <2>2. Event("prepared", 0) \in Events /\ Event("prepared", 0).what = "prepared"
    BY DEF Event, Events
  <2>3. ready \in View
    BY Stored, Zenon DEF View
  <2>4. /\ ready.phase = "prepared" /\ ready.current = "PREPARING"
        /\ SizesAgree(ready) /\ MessagesAgree(ready) /\ WaitAgrees(ready)
    BY <2>1 DEF View, Awaited, SizesAgree, PhaseAgrees, MessagesAgree, WaitAgrees
  <2> HIDE DEF ready
  <2> QED BY <2>1, <2>2, <2>3, <2>4, PostedAwaited
<1>3. CASE NativeCompleted
  <2> DEFINE over == [video EXCEPT !.phase = "completed"]
  <2>1. video.phase = "started" /\ video' = Post(over, Event("completed", 0))
    BY <1>3 DEF NativeCompleted
  <2>2. Event("completed", 0) \in Events /\ Event("completed", 0).what = "completed"
    BY DEF Event, Events
  <2>3. over \in View
    BY Stored, Zenon DEF View
  <2>4. over.phase = "completed" /\ Awaited(over)
    BY <2>1 DEF View, Awaited, SizesAgree, PhaseAgrees, MessagesAgree, WaitAgrees, PreparedSaid
  <2> HIDE DEF over
  <2> QED BY <2>1, <2>2, <2>3, <2>4, PostedAwaited DEF Awaited
<1>4. CASE NativeFailed
  <2> DEFINE lost == [video EXCEPT !.phase = "broken"]
  <2>1. video' = Post(lost, Event("error", 0))
    BY <1>4 DEF NativeFailed
  <2>2. Event("error", 0) \in Events /\ Event("error", 0).what = "error"
    BY DEF Event, Events
  <2>3. lost \in View
    BY Stored, Zenon DEF View
  <2>4. Awaited(lost)
    BY DEF View, Awaited, SizesAgree, PhaseAgrees, MessagesAgree, WaitAgrees, PreparedSaid
  <2> HIDE DEF lost
  <2> QED BY <2>1, <2>2, <2>3, <2>4, PostedAwaited DEF Awaited
<1>5. CASE NativeInforms
  <2>1. PICK what \in Infos : video' = Post(video, Event(what, 0))
    BY <1>5 DEF NativeInforms
  <2>2. /\ Event(what, 0) \in Events
        /\ Event(what, 0).what \notin {"size", "prepared", "completed"}
    BY ViewAssumption DEF Event, Events
  <2> QED BY <2>1, <2>2, PostedAwaited DEF Awaited
<1>6. CASE NativeAdvances
  BY <1>6 DEF NativeAdvances, View, Awaited, SizesAgree, PhaseAgrees, MessagesAgree, WaitAgrees,
              PreparedSaid
<1> QED BY <1>1, <1>2, <1>3, <1>4, <1>5, <1>6 DEF Native

\* Every step keeps what a waiting view relies on,
LEMMA StepAwaited == Inv /\ Awaited(video) /\ [Next]_video => Awaited(video)'
<1> SUFFICES ASSUME video \in View, Sound(video), Awaited(video), [Next]_video
             PROVE  Awaited(video')
  BY DEF Inv, TypeOK
<1>1. CASE Calls
  BY <1>1, CallsAwaited
<1>2. CASE Window
  BY <1>2, WindowAwaited
<1>3. CASE Native
  BY <1>3, NativeAwaited
<1>4. CASE Handle
  BY <1>4, HandledAwaited DEF Handle
<1>5. CASE UNCHANGED video
  BY <1>5
<1> QED BY <1>1, <1>2, <1>3, <1>4, <1>5 DEF Next

\* which therefore always holds.
LEMMA AwaitedInvariant == Spec => []Awaited(video)
<1>1. Init => Awaited(video)
  BY DEF Init, NewView, Awaited, SizesAgree, PhaseAgrees, MessagesAgree, WaitAgrees
<1> QED BY <1>1, Agreement, StepAwaited, PTL DEF Spec

\* A view that waits to play (start before the player is prepared, openVideo with
\* a target state of playing) is never left waiting for nothing: its player is
\* being prepared, or has posted that it is prepared, or the surface is to take
\* another size or to be created.  It is the safety part of WishIsServed.
THEOREM WaitingProceedsHolds == Spec => []WaitingProceeds
<1>1. Inv /\ Awaited(video) => WaitingProceeds
  BY DEF Inv, TypeOK, View, Awaited, PhaseAgrees, WaitAgrees, Waiting, WaitingProceeds
<1> QED BY <1>1, Agreement, AwaitedInvariant, PTL

\* The resize that a waiting view waits for starts its player (onSurfaceChanged):
\* the size delivered is the one that onPrepared found missing.
THEOREM ResizeServesHolds == Spec => [][ResizeServes]_video
<1>1. Inv /\ Awaited(video) /\ [Next]_video => [ResizeServes]_video
  <2> SUFFICES ASSUME video \in View, Awaited(video), Waiting, video.phase = "prepared",
                      ~PreparedSaid(video), SurfaceChanged
               PROVE  video'.phase = "started"
    BY DEF Inv, TypeOK, ResizeServes
  <2>1. video.current = "PREPARED" /\ video.target = "PLAYING"
    BY DEF Awaited, PhaseAgrees, Waiting
  <2> QED BY <2>1, SurfaceChangedAwaited DEF SurfaceChanged
<1> QED BY <1>1, Agreement, AwaitedInvariant, PTL DEF Spec

============================================================================
