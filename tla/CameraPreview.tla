---------------------------- MODULE CameraPreview ----------------------------
(***************************************************************************)
(* The recorder's screen, VideoFragment, with the camera of its recorder,     *)
(* MediaRecorderBase, and the parts of its MediaObject.  All of it runs on    *)
(* the main thread: clicks, the fragment's life cycle and surface callbacks   *)
(* in any order Android allows, while camera calls may fail.                  *)
(***************************************************************************)
EXTENDS Naturals, Sequences

CONSTANTS
  Screens,     \* bound: recorder screens opened one after the other
  Recordings,  \* bound: recordings of one screen
  Failures     \* what may fail: "open", "start", "release", "flash", "mkdirs"
ASSUME BoundsAssumption == Screens \in Nat \ {0} /\ Recordings \in Nat
ASSUME FailuresAssumption == Failures \subseteq {"open", "start", "release", "flash", "mkdirs"}

Facings == {"back", "front"}

VARIABLES
  screens,   \* screens opened so far
  resumed,   \* the fragment is resumed
  rec,       \* mMediaRecorder with its camera, or none before the first onResume
  held,      \* cameras open in this process that no recorder will release
  ui,        \* mRecordLed's check mark, which buttons are enabled, isRunning
  parts,     \* mMediaList: camera and recording of each MediaPart
  crashed,   \* an exception ended the application
  honest     \* history: since the camera was last chosen no resume cleared the
             \* check mark of a lit torch and no click left the torch as it was

vars == <<screens, resumed, rec, held, ui, parts, crashed, honest>>

None == [made |-> FALSE]
NewRecorder(media) ==
  [made |-> TRUE, media |-> media, mPrepared |-> TRUE, mSurfaceHolder |-> FALSE,
   mStartPreview |-> FALSE, mCameraId |-> "back", camera |-> "none",
   running |-> FALSE, failed |-> FALSE, lost |-> FALSE,
   mParameters |-> "none", torch |-> FALSE]
NewUi == [led |-> FALSE, ledEnabled |-> TRUE, switchEnabled |-> TRUE, isRunning |-> FALSE]

Init ==
  /\ screens = 1 /\ resumed = FALSE /\ rec = None /\ held = {} /\ ui = NewUi
  /\ parts = <<>> /\ crashed = FALSE /\ honest = TRUE

-----------------------------------------------------------------------------
(* Mutant: whether the preview is started already is not asked.               *)
CanStartAgain(r) == r.mSurfaceHolder /\ r.mPrepared

(* startPreview.  mStartPreview is set before the camera is opened, and a     *)
(* failure leaves it set: only stopPreview makes another attempt possible.    *)
(* A camera that is open already, in whose hands ever, cannot be opened.      *)
CanStart(r) == ~r.mStartPreview /\ r.mSurfaceHolder /\ r.mPrepared

(* Mutant: the flag is not set with the camera's opening.                     *)
OpenedUnmarked(r) ==
  [r EXCEPT !.camera = r.mCameraId, !.lost = r.lost \/ r.camera # "none", !.torch = FALSE]

Opened(r) ==
  [r EXCEPT !.mStartPreview = TRUE, !.camera = r.mCameraId,
            !.lost = r.lost \/ r.camera # "none", !.torch = FALSE]

StartPreview(r) ==
  IF ~(CanStart(r)) THEN {r}
  ELSE (IF r.mCameraId \in held THEN {}
        ELSE {[Opened(r) EXCEPT !.running = TRUE, !.failed = FALSE, !.mParameters = "off"]}
             \cup {[Opened(r) EXCEPT !.failed = TRUE, !.mParameters = m] :
                     m \in IF "start" \in Failures THEN {r.mParameters, "off"} ELSE {}})
       \cup (IF r.mCameraId \in held \/ "open" \in Failures
               THEN {[r EXCEPT !.mStartPreview = TRUE, !.failed = TRUE]} ELSE {})

(* The lamp of a camera that could not be released is not followed: nobody    *)
(* refers to that camera any more.                                            *)
StopPreview(r) ==
  [r EXCEPT !.camera = "none", !.running = FALSE, !.torch = FALSE, !.mStartPreview = FALSE]

(* prepare, and surfaceCreated: whichever comes second starts the preview.    *)
Prepare(r) == StartPreview([r EXCEPT !.mPrepared = TRUE])

(* Mutant: the start is left to prepare.                                      *)
SurfaceCreatedOnly(r) == {[r EXCEPT !.mSurfaceHolder = TRUE]}

SurfaceCreated(r) == StartPreview([r EXCEPT !.mSurfaceHolder = TRUE])

(* toggleFlashMode: the parameters change first; the camera may refuse them.  *)
ToggleFlashMode(r) ==
  IF r.mParameters = "none" \/ r.camera = "none" THEN {r}
  ELSE LET mode == IF r.mParameters = "off" THEN "torch" ELSE "off"
           set  == [r EXCEPT !.mParameters = mode]
       IN {[set EXCEPT !.torch = mode = "torch"]}
          \cup (IF "flash" \in Failures THEN {set} ELSE {})

-----------------------------------------------------------------------------
Front == rec.mCameraId = "front"
Alive == ~crashed /\ resumed

(* onResume: the recorder is made once; later a resume clears the check mark, *)
(* whatever the torch does.                                                   *)
OnResume ==
  /\ ~crashed /\ ~resumed /\ resumed' = TRUE
  /\ IF rec = None
       THEN /\ \E media \in BOOLEAN :
                 (media \/ "mkdirs" \in Failures) /\ rec' = NewRecorder(media)
            /\ UNCHANGED <<ui, honest>>
       ELSE /\ rec' \in Prepare(rec)
            /\ ui' = [ui EXCEPT !.led = FALSE]
            /\ honest' = (honest /\ ~ui.led)
  /\ UNCHANGED <<screens, held, parts, crashed>>

OnPause ==
  /\ Alive /\ resumed' = FALSE
  /\ UNCHANGED <<screens, rec, held, ui, parts, crashed, honest>>

(* A surface comes when the screen is shown and goes when it is hidden; its   *)
(* going does not stop the preview.                                           *)
OnSurfaceCreated ==
  /\ Alive /\ ~rec.mSurfaceHolder
  /\ rec' \in SurfaceCreated(rec)
  /\ UNCHANGED <<screens, resumed, held, ui, parts, crashed, honest>>

OnSurfaceDestroyed ==
  /\ ~crashed /\ ~resumed /\ rec # None /\ rec.mSurfaceHolder
  /\ rec' = [rec EXCEPT !.mSurfaceHolder = FALSE]
  /\ UNCHANGED <<screens, resumed, held, ui, parts, crashed, honest>>

(* The screen is left.  Nobody calls release: its camera stays open until     *)
(* the garbage collector finds it.                                            *)
LeaveScreen ==
  /\ ~crashed /\ ~resumed /\ rec # None /\ ~rec.mSurfaceHolder /\ screens < Screens
  /\ screens' = screens + 1
  /\ held' = held \cup ({rec.camera} \ {"none"})
  /\ rec' = None /\ ui' = NewUi /\ parts' = <<>> /\ honest' = TRUE
  /\ UNCHANGED <<resumed, crashed>>

CollectCamera ==
  /\ ~crashed /\ \E c \in held : held' = held \ {c}
  /\ UNCHANGED <<screens, resumed, rec, ui, parts, crashed, honest>>

-----------------------------------------------------------------------------
(* switchFlash, after the box has changed its check mark.                     *)
SwitchFlash == IF Front THEN {rec} ELSE ToggleFlashMode(rec)

ClickLed ==
  /\ Alive /\ ui.ledEnabled
  /\ ui' = [ui EXCEPT !.led = ~@]
  /\ rec' \in SwitchFlash
  /\ honest' = (honest /\ rec'.torch # rec.torch)
  /\ UNCHANGED <<screens, resumed, held, parts, crashed>>

(* Mutant: the check mark stays when the camera is changed.                   *)
UiOfCameraKept(front) == [ui EXCEPT !.ledEnabled = ~front]

UiOfCamera(front) == [ui EXCEPT !.led = FALSE, !.ledEnabled = ~front]

ClickCamera ==
  /\ Alive /\ ui.switchEnabled
  /\ \E lit \in (IF ui.led THEN ToggleFlashMode(rec) ELSE {rec}) :
       LET turned == [lit EXCEPT !.mCameraId = IF Front THEN "back" ELSE "front"] IN
         \/ rec' \in StartPreview(StopPreview(turned)) /\ UNCHANGED held
         \/ /\ "release" \in Failures /\ rec.camera # "none"
            /\ rec' \in StartPreview(StopPreview(turned))
            /\ held' = held \cup {rec.camera}
  /\ ui' = UiOfCamera(rec'.mCameraId = "front")
  /\ honest' = TRUE
  /\ UNCHANGED <<screens, resumed, parts, crashed>>

(* Mutant: the buttons stay enabled.                                          *)
StartUIEnabled == [ui EXCEPT !.isRunning = TRUE]

(* setStartUI and setStopUI: no change of the camera while recording.         *)
StartUI == [ui EXCEPT !.isRunning = TRUE, !.ledEnabled = FALSE, !.switchEnabled = FALSE]

StopUI == [ui EXCEPT !.isRunning = FALSE, !.ledEnabled = TRUE, !.switchEnabled = TRUE]

Part == [camera |-> rec.mCameraId, recording |-> TRUE]

(* startRecord builds one part in the recorder and one in the fragment;       *)
(* without an output directory there is no MediaObject to build it in.        *)
StartRecord ==
  /\ Alive /\ ~ui.isRunning /\ Len(parts) < 2 * Recordings
  /\ IF rec.media
       THEN /\ parts' = parts \o <<Part, Part>>
            /\ ui' = StartUI
            /\ UNCHANGED crashed
       ELSE crashed' = TRUE /\ UNCHANGED <<parts, ui>>
  /\ UNCHANGED <<screens, resumed, rec, held, honest>>

(* setStopDate closes the current part, the last of the two.                  *)
StopRecord ==
  /\ Alive /\ ui.isRunning
  /\ parts' = [parts EXCEPT ![Len(parts)].recording = FALSE]
  /\ ui' = StopUI
  /\ UNCHANGED <<screens, resumed, rec, held, crashed, honest>>

Next ==
  \/ OnResume \/ OnPause \/ OnSurfaceCreated \/ OnSurfaceDestroyed
  \/ LeaveScreen \/ CollectCamera
  \/ ClickLed \/ ClickCamera \/ StartRecord \/ StopRecord

Spec == Init /\ [][Next]_vars

-----------------------------------------------------------------------------
Recorders ==
  [made : {TRUE}, media : BOOLEAN, mPrepared : {TRUE}, mSurfaceHolder : BOOLEAN,
   mStartPreview : BOOLEAN, mCameraId : Facings, camera : Facings \cup {"none"},
   running : BOOLEAN, failed : BOOLEAN, lost : BOOLEAN,
   mParameters : {"none", "off", "torch"}, torch : BOOLEAN]

(* Types; a camera is open only while mStartPreview is set.                   *)
CameraTypeOK ==
  /\ screens \in 1 .. Screens /\ resumed \in BOOLEAN
  /\ crashed \in BOOLEAN /\ honest \in BOOLEAN
  /\ rec \in Recorders \cup {None}
  /\ held \subseteq Facings
  /\ ui \in [led : BOOLEAN, ledEnabled : BOOLEAN, switchEnabled : BOOLEAN, isRunning : BOOLEAN]
  /\ parts \in Seq([camera : Facings, recording : BOOLEAN])
  /\ rec # None => (rec.camera # "none" => rec.mStartPreview)

Made == rec # None

(* No order of prepare, surface callbacks and camera changes opens a camera   *)
(* while the recorder has one, whose reference would be lost with the camera  *)
(* open.                                                                      *)
CameraNotLost == Made => ~rec.lost

(* prepare and surfaceCreated each leave the start to the other: with both    *)
(* there the preview runs, or the last attempt has failed.                    *)
ReadyMeansRunning == Made /\ rec.mPrepared /\ rec.mSurfaceHolder => rec.running \/ rec.failed

(* The check mark shows the torch: from each choice of the camera on, until a *)
(* resume clears it with the torch on, or the torch does not follow a click   *)
(* (a front camera's, a refused one's, one whose parameters are stale).  And  *)
(* only a back camera's torch burns, though the end of a recording enables    *)
(* the button of a front camera too.                                          *)
LedShowsTorch ==
  Made => /\ rec.torch => rec.camera = "back"
          /\ honest => ui.led = rec.torch

(* One recording is one camera's: the encoder was set up for the picture of   *)
(* the camera its parts name.  And a recording that has ended has closed its  *)
(* current part.                                                              *)
RecordedByOneCamera ==
  IF ui.isRunning
    THEN /\ Len(parts) >= 2
         /\ \A i \in {Len(parts) - 1, Len(parts)} :
              parts[i].recording /\ parts[i].camera = rec.mCameraId
         /\ rec.camera \in {"none", parts[Len(parts)].camera}
    ELSE parts # <<>> => ~parts[Len(parts)].recording
=============================================================================
