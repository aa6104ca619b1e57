------------------------- MODULE CameraPreviewProofs -------------------------
(* Proofs about CameraPreview: what one recorder keeps through every method, *)
(* and what the screen keeps between itself and its recorder.                *)
EXTENDS CameraPreview, TLAPS

(* A recorder between two calls: a camera is open only while the preview is   *)
(* marked as started, and it is the chosen one; a marked preview runs or has  *)
(* failed; only a back camera's torch burns; no camera was lost.              *)
GoodRec(r) ==
  /\ r \in Recorders
  /\ ~r.mStartPreview => r.camera = "none"
  /\ r.camera # "none" => r.camera = r.mCameraId
  /\ r.torch => r.camera = "back"
  /\ r.mStartPreview => r.running \/ r.failed
  /\ ~r.lost

(* The same with a surface: the preview was started.                          *)
Started(r) == r.mSurfaceHolder => r.mStartPreview

USE DEF Facings

-----------------------------------------------------------------------------
LEMMA NewRecorderGood ==
  ASSUME NEW media \in BOOLEAN
  PROVE  GoodRec(NewRecorder(media)) /\ Started(NewRecorder(media)) /\ NewRecorder(media).torch = FALSE
  BY DEF GoodRec, Started, NewRecorder, Recorders

\* The start of the preview: a marked start is not repeated, a camera is never
\* opened over another, the torch is off after an opening.
LEMMA StartPreviewGood ==
  ASSUME NEW r, GoodRec(r), NEW s \in StartPreview(r)
  PROVE  /\ GoodRec(s) /\ Started(s)
         /\ s.mCameraId = r.mCameraId /\ s.torch = r.torch
<1>1. CASE ~CanStart(r)
  <2>1. s = r
    BY <1>1 DEF StartPreview
  <2> QED
    BY <2>1, <1>1 DEF GoodRec, Started, CanStart, Recorders
<1>2. CASE CanStart(r)
  <2>1. r \in Recorders /\ ~r.mStartPreview /\ r.camera = "none" /\ r.torch = FALSE /\ r.lost = FALSE
    BY <1>2 DEF CanStart, GoodRec, Recorders
  <2>2. CASE s = [Opened(r) EXCEPT !.running = TRUE, !.failed = FALSE, !.mParameters = "off"]
    BY <2>1, <2>2 DEF Opened, GoodRec, Started, Recorders
  <2>3. CASE \E m \in {r.mParameters, "off"} :
               s = [Opened(r) EXCEPT !.failed = TRUE, !.mParameters = m]
    <3>1. PICK m \in {r.mParameters, "off"} :
            s = [Opened(r) EXCEPT !.failed = TRUE, !.mParameters = m]
      BY <2>3
    <3>2. m \in {"none", "off", "torch"}
      BY <2>1 DEF Recorders
    <3>3. Opened(r) \in Recorders
      BY <2>1 DEF Opened, Recorders
    <3>4. s \in Recorders
      BY <3>1, <3>2, <3>3 DEF Recorders
    <3>5. /\ s.mStartPreview = TRUE /\ s.failed = TRUE /\ s.torch = FALSE
          /\ s.camera = r.mCameraId /\ s.mCameraId = r.mCameraId /\ s.lost = FALSE
      BY <2>1, <3>1 DEF Opened, Recorders
    <3> QED
      BY <2>1, <3>4, <3>5 DEF GoodRec, Started
  <2>4. CASE s = [r EXCEPT !.mStartPreview = TRUE, !.failed = TRUE]
    BY <2>1, <2>4 DEF GoodRec, Started, Recorders
  <2> QED
    BY <1>2, <2>2, <2>3, <2>4 DEF StartPreview
<1> QED
  BY <1>1, <1>2

\* A stopped recorder, whichever camera was chosen meanwhile.
LEMMA StopPreviewGood ==
  ASSUME NEW r \in Recorders, ~r.lost
  PROVE  GoodRec(StopPreview(r)) /\ StopPreview(r).mCameraId = r.mCameraId
         /\ StopPreview(r).torch = FALSE
  BY DEF StopPreview, GoodRec, Recorders

LEMMA ToggleFlashGood ==
  ASSUME NEW r, GoodRec(r), NEW s \in ToggleFlashMode(r)
  PROVE  /\ s \in Recorders /\ ~s.lost /\ s.mCameraId = r.mCameraId
         /\ s.mSurfaceHolder = r.mSurfaceHolder /\ s.camera = r.camera
         /\ r.mCameraId = "back" => GoodRec(s)
         /\ Started(r) => Started(s)
<1>1. CASE r.mParameters = "none" \/ r.camera = "none"
  BY <1>1 DEF ToggleFlashMode, GoodRec
<1>2. CASE ~(r.mParameters = "none" \/ r.camera = "none")
  <2>1. \E mode \in {"torch", "off"}, t \in BOOLEAN :
          s = [r EXCEPT !.mParameters = mode, !.torch = t]
    <3>1. CASE r.mParameters = "off"
      <4>1. \/ s = [[r EXCEPT !.mParameters = "torch"] EXCEPT !.torch = TRUE]
            \/ s = [r EXCEPT !.mParameters = "torch"]
        BY <1>2, <3>1 DEF ToggleFlashMode
      <4>2. \/ s = [r EXCEPT !.mParameters = "torch", !.torch = TRUE]
            \/ s = [r EXCEPT !.mParameters = "torch", !.torch = r.torch]
        BY <4>1 DEF GoodRec, Recorders
      <4> QED
        BY <4>2 DEF GoodRec, Recorders
    <3>2. CASE r.mParameters # "off"
      <4>1. \/ s = [[r EXCEPT !.mParameters = "off"] EXCEPT !.torch = FALSE]
            \/ s = [r EXCEPT !.mParameters = "off"]
        BY <1>2, <3>2 DEF ToggleFlashMode
      <4>2. \/ s = [r EXCEPT !.mParameters = "off", !.torch = FALSE]
            \/ s = [r EXCEPT !.mParameters = "off", !.torch = r.torch]
        BY <4>1 DEF GoodRec, Recorders
      <4> QED
        BY <4>2 DEF GoodRec, Recorders
    <3> QED
      BY <3>1, <3>2
  <2>2. PICK mode \in {"torch", "off"}, t \in BOOLEAN :
          s = [r EXCEPT !.mParameters = mode, !.torch = t]
    BY <2>1
  <2> QED
    BY <1>2, <2>2 DEF GoodRec, Started, Recorders
<1> QED
  BY <1>1, <1>2

-----------------------------------------------------------------------------
Uis == [led : BOOLEAN, ledEnabled : BOOLEAN, switchEnabled : BOOLEAN, isRunning : BOOLEAN]
Parts == [camera : Facings, recording : BOOLEAN]

ScreenTypes ==
  /\ screens \in 1 .. Screens /\ resumed \in BOOLEAN
  /\ crashed \in BOOLEAN /\ honest \in BOOLEAN
  /\ held \subseteq Facings
  /\ ui \in Uis
  /\ parts \in Seq(Parts)

RecorderInv == Made => GoodRec(rec) /\ Started(rec)

(* A screen that is in front has its recorder; without one nothing runs.      *)
Fresh == rec = None => ~resumed /\ ui = NewUi /\ parts = <<>>

LedInv == Made /\ honest => ui.led = rec.torch

(* While it records, the screen holds the camera that the two last parts      *)
(* name; its button is the only one that chooses another.                     *)
RecordingInv ==
  IF ui.isRunning
    THEN /\ ~ui.switchEnabled /\ Len(parts) >= 2
         /\ \A i \in {Len(parts) - 1, Len(parts)} :
              parts[i].recording /\ parts[i].camera = rec.mCameraId
    ELSE parts # <<>> => ~parts[Len(parts)].recording

CameraInv == ScreenTypes /\ RecorderInv /\ Fresh /\ LedInv /\ RecordingInv

LEMMA AppendedSeq ==
  ASSUME NEW S, NEW s \in Seq(S), NEW t \in Seq(S)
  PROVE  s \o t \in Seq(S)
  OBVIOUS

LEMMA CameraStart == Init => CameraInv
<1> SUFFICES ASSUME Init PROVE CameraInv
  OBVIOUS
<1>1. rec = None /\ ui = NewUi /\ parts = <<>> /\ resumed = FALSE
  BY DEF Init
<1>2. NewUi \in Uis /\ NewUi.isRunning = FALSE
  BY DEF NewUi, Uis
<1>3. screens \in 1 .. Screens
  BY BoundsAssumption DEF Init
<1>4. held \subseteq Facings /\ crashed \in BOOLEAN /\ honest \in BOOLEAN
  BY DEF Init
<1>5. parts \in Seq(Parts)
  BY <1>1
<1>6. ScreenTypes
  BY <1>1, <1>2, <1>3, <1>4, <1>5 DEF ScreenTypes
<1> QED
  BY <1>1, <1>2, <1>6 DEF CameraInv, RecorderInv, Fresh, LedInv, RecordingInv, Made

-----------------------------------------------------------------------------
LEMMA TypesStep == CameraInv /\ [Next]_vars => ScreenTypes'
<1> SUFFICES ASSUME CameraInv, [Next]_vars PROVE ScreenTypes'
  OBVIOUS
<1> USE DEF CameraInv, ScreenTypes
<1>1. CASE OnResume
  BY <1>1 DEF OnResume, Uis
<1>2. CASE OnPause
  BY <1>2 DEF OnPause
<1>3. CASE OnSurfaceCreated
  BY <1>3 DEF OnSurfaceCreated
<1>4. CASE OnSurfaceDestroyed
  BY <1>4 DEF OnSurfaceDestroyed
<1>5. CASE LeaveScreen
  <2>1. rec.camera \in Facings \cup {"none"}
    BY <1>5 DEF LeaveScreen, RecorderInv, Made, GoodRec, Recorders
  <2>2. held' \subseteq Facings
    BY <1>5, <2>1 DEF LeaveScreen
  <2>3. ui' \in Uis
    BY <1>5 DEF LeaveScreen, NewUi, Uis
  <2>4. parts' \in Seq(Parts)
    BY <1>5 DEF LeaveScreen
  <2> QED
    BY <1>5, <2>2, <2>3, <2>4, BoundsAssumption DEF LeaveScreen
<1>6. CASE CollectCamera
  BY <1>6 DEF CollectCamera
<1>7. CASE ClickLed
  BY <1>7 DEF ClickLed, Uis
<1>8. CASE ClickCamera
  <2>1. rec.camera \in Facings \cup {"none"}
    BY <1>8 DEF ClickCamera, Alive, Fresh, RecorderInv, Made, GoodRec, Recorders
  <2>2. held' = held \/ (rec.camera # "none" /\ held' = held \cup {rec.camera})
    BY <1>8 DEF ClickCamera
  <2>3. held' \subseteq Facings
    BY <2>1, <2>2
  <2>4. ui' \in Uis
    BY <1>8 DEF ClickCamera, UiOfCamera, Uis
  <2> QED
    BY <1>8, <2>3, <2>4 DEF ClickCamera
<1>9. CASE StartRecord
  <2>1. rec.mCameraId \in Facings
    BY <1>9 DEF StartRecord, Alive, Fresh, RecorderInv, Made, GoodRec, Recorders
  <2>2. Part \in Parts
    BY <2>1 DEF Part, Parts
  <2>3. ui' \in Uis
    BY <1>9 DEF StartRecord, StartUI, Uis
  <2>4. parts' \in Seq(Parts)
    <3>1. <<Part, Part>> \in Seq(Parts)
      BY <2>2
    <3>2. parts' = parts \o <<Part, Part>> \/ parts' = parts
      BY <1>9 DEF StartRecord
    <3>3. parts \in Seq(Parts)
      OBVIOUS
    <3> QED
      BY <3>1, <3>2, <3>3, AppendedSeq
  <2> QED
    BY <1>9, <2>3, <2>4 DEF StartRecord
<1>10. CASE StopRecord
  <2>1. ui' \in Uis
    BY <1>10 DEF StopRecord, StopUI, Uis
  <2>2. parts' \in Seq(Parts)
    <3>1. Len(parts) \in DOMAIN parts
      BY <1>10 DEF StopRecord, RecordingInv
    <3>2. parts' = [parts EXCEPT ![Len(parts)] = [parts[Len(parts)] EXCEPT !.recording = FALSE]]
      BY <1>10 DEF StopRecord
    <3>3. parts[Len(parts)] \in Parts
      BY <3>1
    <3>4. [parts[Len(parts)] EXCEPT !.recording = FALSE] \in Parts
      BY <3>3 DEF Parts
    <3> QED
      BY <3>1, <3>2, <3>4
  <2> QED
    BY <1>10, <2>1, <2>2 DEF StopRecord
<1>11. CASE UNCHANGED vars
  BY <1>11 DEF vars
<1> QED
  BY <1>1, <1>2, <1>3, <1>4, <1>5, <1>6, <1>7, <1>8, <1>9, <1>10, <1>11 DEF Next

\* What the choice of another camera leaves.
LEMMA ClickCameraGood ==
  ASSUME CameraInv, ClickCamera
  PROVE  Made /\ GoodRec(rec') /\ Started(rec') /\ rec'.torch = FALSE
<1>1. Made /\ GoodRec(rec)
  BY DEF CameraInv, ClickCamera, Alive, Fresh, RecorderInv, Made
<1>2. PICK lit \in (IF ui.led THEN ToggleFlashMode(rec) ELSE {rec}) :
        rec' \in StartPreview(StopPreview([lit EXCEPT !.mCameraId = IF Front THEN "back" ELSE "front"]))
  BY DEF ClickCamera
<1>3. lit \in Recorders /\ ~lit.lost
  BY <1>1, ToggleFlashGood DEF GoodRec
<1> DEFINE turned == [lit EXCEPT !.mCameraId = IF Front THEN "back" ELSE "front"]
<1>4. turned \in Recorders /\ ~turned.lost
  BY <1>3 DEF Recorders
<1> HIDE DEF turned
<1>5. GoodRec(StopPreview(turned)) /\ StopPreview(turned).torch = FALSE
  BY <1>4, StopPreviewGood
<1>6. rec' \in StartPreview(StopPreview(turned))
  BY <1>2 DEF turned
<1> QED
  BY <1>1, <1>5, <1>6, StartPreviewGood

LEMMA RecorderStep == CameraInv /\ [Next]_vars => RecorderInv'
<1> SUFFICES ASSUME CameraInv, [Next]_vars, Made' PROVE GoodRec(rec') /\ Started(rec')
  BY DEF RecorderInv, Made
<1> USE DEF CameraInv, RecorderInv, Made
<1>1. CASE OnResume
  <2>1. CASE rec = None
    BY <1>1, <2>1, NewRecorderGood DEF OnResume
  <2>2. CASE rec # None
    <3>1. GoodRec([rec EXCEPT !.mPrepared = TRUE])
      BY <2>2 DEF GoodRec, Recorders
    <3> QED
      BY <1>1, <2>2, <3>1, StartPreviewGood DEF OnResume, Prepare
  <2> QED
    BY <2>1, <2>2
<1>2. CASE OnPause
  BY <1>2 DEF OnPause
<1>3. CASE OnSurfaceCreated
  <2>1. GoodRec([rec EXCEPT !.mSurfaceHolder = TRUE])
    BY <1>3 DEF OnSurfaceCreated, Alive, Fresh, GoodRec, Recorders
  <2> QED
    BY <1>3, <2>1, StartPreviewGood DEF OnSurfaceCreated, SurfaceCreated
<1>4. CASE OnSurfaceDestroyed
  BY <1>4 DEF OnSurfaceDestroyed, GoodRec, Started, Recorders
<1>5. CASE LeaveScreen
  BY <1>5 DEF LeaveScreen
<1>6. CASE CollectCamera
  BY <1>6 DEF CollectCamera
<1>7. CASE ClickLed
  <2>1. rec # None
    BY <1>7 DEF ClickLed, Alive, Fresh
  <2>2. CASE Front
    BY <1>7, <2>1, <2>2 DEF ClickLed, SwitchFlash
  <2>3. CASE ~Front
    <3>1. rec.mCameraId = "back"
      BY <2>1, <2>3 DEF Front, GoodRec, Recorders
    <3>2. rec' \in ToggleFlashMode(rec)
      BY <1>7, <2>3 DEF ClickLed, SwitchFlash
    <3> QED
      BY <2>1, <3>1, <3>2, ToggleFlashGood
  <2> QED
    BY <2>2, <2>3
<1>8. CASE ClickCamera
  BY <1>8, ClickCameraGood
<1>9. CASE StartRecord
  BY <1>9 DEF StartRecord
<1>10. CASE StopRecord
  BY <1>10 DEF StopRecord
<1>11. CASE UNCHANGED vars
  BY <1>11 DEF vars
<1> QED
  BY <1>1, <1>2, <1>3, <1>4, <1>5, <1>6, <1>7, <1>8, <1>9, <1>10, <1>11 DEF Next

LEMMA FreshStep == CameraInv /\ [Next]_vars => Fresh'
<1> SUFFICES ASSUME CameraInv, [Next]_vars, rec' = None
             PROVE  resumed' = FALSE /\ ui' = NewUi /\ parts' = <<>>
  BY DEF Fresh
<1> USE DEF CameraInv, Fresh
<1>1. Made' => FALSE
  BY DEF Made
<1>2. rec = None => resumed = FALSE
  BY DEF ScreenTypes
<1>3. CASE OnResume
  <2>1. CASE rec = None
    <3>1. PICK media \in BOOLEAN : rec' = NewRecorder(media)
      BY <1>3, <2>1 DEF OnResume
    <3>2. rec'.made = TRUE /\ None.made = FALSE
      BY <3>1 DEF NewRecorder, None
    <3> QED
      BY <3>2
  <2>2. CASE rec # None
    <3>1. GoodRec([rec EXCEPT !.mPrepared = TRUE])
      BY <2>2 DEF RecorderInv, Made, GoodRec, Recorders
    <3>2. GoodRec(rec')
      BY <1>3, <2>2, <3>1, StartPreviewGood DEF OnResume, Prepare
    <3> QED
      BY <3>2 DEF GoodRec, Recorders, None
  <2> QED
    BY <2>1, <2>2
<1>4. CASE OnPause
  BY <1>4, <1>2 DEF OnPause, Alive
<1>5. CASE LeaveScreen
  BY <1>5 DEF LeaveScreen
<1>6. CASE CollectCamera
  BY <1>6, <1>2 DEF CollectCamera
<1>7. CASE UNCHANGED vars
  BY <1>7, <1>2 DEF vars
<1>8. ASSUME OnSurfaceCreated \/ OnSurfaceDestroyed \/ ClickLed \/ ClickCamera \/ StartRecord \/ StopRecord
      PROVE  FALSE
  <2>1. rec # None
    BY <1>8, <1>2 DEF OnSurfaceCreated, OnSurfaceDestroyed, ClickLed, ClickCamera, StartRecord, StopRecord, Alive
  <2>2. CASE OnSurfaceCreated
    <3>1. GoodRec([rec EXCEPT !.mSurfaceHolder = TRUE])
      BY <2>1 DEF RecorderInv, Made, GoodRec, Recorders
    <3>2. GoodRec(rec')
      BY <2>2, <3>1, StartPreviewGood DEF OnSurfaceCreated, SurfaceCreated
    <3> QED
      BY <3>2 DEF GoodRec, Recorders, None
  <2>3. CASE OnSurfaceDestroyed
    BY <2>1, <2>3 DEF OnSurfaceDestroyed, RecorderInv, Made, GoodRec, Recorders, None
  <2>4. CASE ClickLed
    <3>1. rec' = rec \/ rec' \in ToggleFlashMode(rec)
      BY <2>4 DEF ClickLed, SwitchFlash
    <3>2. rec' = rec \/ rec' \in Recorders
      BY <2>1, <3>1, ToggleFlashGood DEF RecorderInv, Made
    <3> QED
      BY <2>1, <3>2 DEF Recorders, None
  <2>5. CASE ClickCamera
    BY <2>5, ClickCameraGood DEF GoodRec, Recorders, None
  <2>6. CASE StartRecord \/ StopRecord
    BY <2>1, <2>6 DEF StartRecord, StopRecord
  <2> QED
    BY <1>8, <2>2, <2>3, <2>4, <2>5, <2>6
<1> QED
  BY <1>3, <1>4, <1>5, <1>6, <1>7, <1>8 DEF Next

LEMMA LedStep == CameraInv /\ [Next]_vars => LedInv'
<1> SUFFICES ASSUME CameraInv, [Next]_vars, Made', honest' PROVE ui'.led = rec'.torch
  BY DEF LedInv
<1> USE DEF CameraInv, LedInv
<1>1. CASE OnResume
  <2>1. CASE rec = None
    <3>1. PICK media \in BOOLEAN : rec' = NewRecorder(media)
      BY <1>1, <2>1 DEF OnResume
    <3>2. ui' = NewUi
      BY <1>1, <2>1 DEF OnResume, Fresh
    <3> QED
      BY <3>1, <3>2, NewRecorderGood DEF NewUi
  <2>2. CASE rec # None
    <3>1. GoodRec([rec EXCEPT !.mPrepared = TRUE]) /\ [rec EXCEPT !.mPrepared = TRUE].torch = rec.torch
      BY <2>2 DEF RecorderInv, Made, GoodRec, Recorders
    <3>2. rec'.torch = rec.torch
      BY <1>1, <2>2, <3>1, StartPreviewGood DEF OnResume, Prepare
    <3>3. honest /\ ~ui.led /\ ui' = [ui EXCEPT !.led = FALSE]
      BY <1>1, <2>2 DEF OnResume
    <3>4. ui.led = FALSE /\ ui'.led = FALSE
      BY <3>3 DEF ScreenTypes, Uis
    <3> QED
      BY <2>2, <3>2, <3>3, <3>4 DEF Made
  <2> QED
    BY <2>1, <2>2
<1>2. CASE OnPause
  BY <1>2 DEF OnPause, Made
<1>3. CASE OnSurfaceCreated
  <2>1. rec # None
    BY <1>3 DEF OnSurfaceCreated, Alive, Fresh
  <2>2. GoodRec([rec EXCEPT !.mSurfaceHolder = TRUE]) /\ [rec EXCEPT !.mSurfaceHolder = TRUE].torch = rec.torch
    BY <2>1 DEF RecorderInv, Made, GoodRec, Recorders
  <2>3. rec'.torch = rec.torch
    BY <1>3, <2>2, StartPreviewGood DEF OnSurfaceCreated, SurfaceCreated
  <2> QED
    BY <1>3, <2>1, <2>3 DEF OnSurfaceCreated, Made
<1>4. CASE OnSurfaceDestroyed
  BY <1>4 DEF OnSurfaceDestroyed, RecorderInv, Made, GoodRec, Recorders
<1>5. CASE LeaveScreen
  BY <1>5 DEF LeaveScreen, Made
<1>6. CASE CollectCamera
  BY <1>6 DEF CollectCamera, Made
<1>7. CASE ClickLed
  <2>1. Made /\ ui.led = rec.torch /\ rec'.torch # rec.torch
    BY <1>7 DEF ClickLed, Alive, Fresh, Made
  <2>2. rec'.torch \in BOOLEAN /\ rec.torch \in BOOLEAN
    <3>1. GoodRec(rec) /\ (rec' = rec \/ rec' \in ToggleFlashMode(rec))
      BY <1>7, <2>1 DEF ClickLed, SwitchFlash, RecorderInv
    <3>2. rec \in Recorders /\ rec' \in Recorders
      BY <3>1, ToggleFlashGood DEF GoodRec
    <3> QED
      BY <3>2 DEF Recorders
  <2>3. ui'.led = ~ui.led
    BY <1>7 DEF ClickLed, ScreenTypes, Uis
  <2> QED
    BY <2>1, <2>2, <2>3
<1>8. CASE ClickCamera
  <2>1. ui'.led = FALSE
    BY <1>8 DEF ClickCamera, UiOfCamera, ScreenTypes, Uis
  <2> QED
    BY <1>8, <2>1, ClickCameraGood
<1>9. CASE StartRecord
  BY <1>9 DEF StartRecord, StartUI, ScreenTypes, Uis, Made
<1>10. CASE StopRecord
  BY <1>10 DEF StopRecord, StopUI, ScreenTypes, Uis, Made
<1>11. CASE UNCHANGED vars
  BY <1>11 DEF vars, Made
<1> QED
  BY <1>1, <1>2, <1>3, <1>4, <1>5, <1>6, <1>7, <1>8, <1>9, <1>10, <1>11 DEF Next

-----------------------------------------------------------------------------
\* What a recording depends on: the two last parts and the chosen camera.
LEMMA RecordingKept ==
  ASSUME CameraInv, parts' = parts, ui'.isRunning = ui.isRunning,
         ui.isRunning => ~ui'.switchEnabled /\ rec'.mCameraId = rec.mCameraId
  PROVE  RecordingInv'
  BY DEF CameraInv, RecordingInv

LEMMA RecordingStep == CameraInv /\ [Next]_vars => RecordingInv'
<1> SUFFICES ASSUME CameraInv, [Next]_vars PROVE RecordingInv'
  OBVIOUS
<1> USE DEF CameraInv
<1>0. ui.isRunning => rec # None /\ ~ui.switchEnabled
  BY DEF Fresh, NewUi, RecordingInv
<1>1. CASE OnResume
  <2>1. CASE rec = None
    BY <1>0, <1>1, <2>1, RecordingKept DEF OnResume
  <2>2. CASE rec # None
    <3>1. GoodRec([rec EXCEPT !.mPrepared = TRUE]) /\ [rec EXCEPT !.mPrepared = TRUE].mCameraId = rec.mCameraId
      BY <2>2 DEF RecorderInv, Made, GoodRec, Recorders
    <3>2. rec'.mCameraId = rec.mCameraId
      BY <1>1, <2>2, <3>1, StartPreviewGood DEF OnResume, Prepare
    <3>3. ui'.isRunning = ui.isRunning /\ ui'.switchEnabled = ui.switchEnabled
      BY <1>1, <2>2 DEF OnResume, ScreenTypes, Uis
    <3> QED
      BY <1>0, <1>1, <3>2, <3>3, RecordingKept DEF OnResume
  <2> QED
    BY <2>1, <2>2
<1>2. CASE OnPause
  BY <1>0, <1>2, RecordingKept DEF OnPause
<1>3. CASE OnSurfaceCreated
  <2>1. rec # None
    BY <1>3 DEF OnSurfaceCreated, Alive, Fresh
  <2>2. GoodRec([rec EXCEPT !.mSurfaceHolder = TRUE]) /\ [rec EXCEPT !.mSurfaceHolder = TRUE].mCameraId = rec.mCameraId
    BY <2>1 DEF RecorderInv, Made, GoodRec, Recorders
  <2>3. rec'.mCameraId = rec.mCameraId
    BY <1>3, <2>2, StartPreviewGood DEF OnSurfaceCreated, SurfaceCreated
  <2> QED
    BY <1>0, <1>3, <2>3, RecordingKept DEF OnSurfaceCreated
<1>4. CASE OnSurfaceDestroyed
  <2>1. rec'.mCameraId = rec.mCameraId
    BY <1>4 DEF OnSurfaceDestroyed, RecorderInv, Made, GoodRec, Recorders
  <2> QED
    BY <1>0, <1>4, <2>1, RecordingKept DEF OnSurfaceDestroyed
<1>5. CASE LeaveScreen
  BY <1>5 DEF LeaveScreen, NewUi, RecordingInv
<1>6. CASE CollectCamera
  BY <1>0, <1>6, RecordingKept DEF CollectCamera
<1>7. CASE ClickLed
  <2>1. Made
    BY <1>7 DEF ClickLed, Alive, Fresh, Made
  <2>2. GoodRec(rec) /\ (rec' = rec \/ rec' \in ToggleFlashMode(rec))
    BY <1>7, <2>1 DEF ClickLed, SwitchFlash, RecorderInv
  <2>3. rec'.mCameraId = rec.mCameraId
    BY <2>2, ToggleFlashGood
  <2>4. ui'.isRunning = ui.isRunning /\ ui'.switchEnabled = ui.switchEnabled
    BY <1>7 DEF ClickLed, ScreenTypes, Uis
  <2> QED
    BY <1>0, <1>7, <2>3, <2>4, RecordingKept DEF ClickLed
<1>8. CASE ClickCamera
  <2>1. ~ui.isRunning
    BY <1>0, <1>8 DEF ClickCamera
  <2>2. ui'.isRunning = ui.isRunning
    BY <1>8 DEF ClickCamera, UiOfCamera, ScreenTypes, Uis
  <2> QED
    BY <1>8, <2>1, <2>2, RecordingKept DEF ClickCamera
<1>9. CASE StartRecord
  <2>1. CASE parts' = parts
    <3>1. ui' = ui /\ rec' = rec
      <4>1. parts \in Seq(Parts) /\ parts \o <<Part, Part>> # parts
        <5>1. Len(parts \o <<Part, Part>>) = Len(parts) + 2
          BY DEF ScreenTypes
        <5> QED
          BY <5>1 DEF ScreenTypes
      <4> QED
        BY <1>9, <2>1, <4>1 DEF StartRecord
    <3> QED
      BY <1>0, <2>1, <3>1, RecordingKept
  <2>2. CASE parts' = parts \o <<Part, Part>> /\ ui' = StartUI /\ rec' = rec
    <3>1. ui'.isRunning = TRUE /\ ui'.switchEnabled = FALSE
      BY <2>2 DEF StartUI, ScreenTypes, Uis
    <3>2. parts \in Seq(Parts)
      BY DEF ScreenTypes
    <3>3. /\ Len(parts') = Len(parts) + 2
          /\ parts'[Len(parts) + 1] = Part
          /\ parts'[Len(parts) + 2] = Part
      BY <2>2, <3>2
    <3>4. Len(parts) \in Nat
      BY <3>2
    <3>5. {Len(parts') - 1, Len(parts')} = {Len(parts) + 1, Len(parts) + 2} /\ Len(parts') >= 2
      BY <3>3, <3>4
    <3>6. Part.recording = TRUE /\ Part.camera = rec.mCameraId
      BY DEF Part
    <3>7. \A i \in {Len(parts') - 1, Len(parts')} : parts'[i].recording /\ parts'[i].camera = rec'.mCameraId
      BY <2>2, <3>3, <3>5, <3>6
    <3> QED
      BY <3>1, <3>5, <3>7 DEF RecordingInv
  <2> QED
    BY <1>9, <2>1, <2>2 DEF StartRecord
<1>10. CASE StopRecord
  <2>1. ui'.isRunning = FALSE
    BY <1>10 DEF StopRecord, StopUI, ScreenTypes, Uis
  <2>2. parts \in Seq(Parts) /\ Len(parts) \in DOMAIN parts
    BY <1>10 DEF StopRecord, RecordingInv, ScreenTypes
  <2>3. parts' = [parts EXCEPT ![Len(parts)] = [parts[Len(parts)] EXCEPT !.recording = FALSE]]
    BY <1>10 DEF StopRecord
  <2>4. Len(parts') = Len(parts)
    BY <2>2, <2>3
  <2>5. parts'[Len(parts)] = [parts[Len(parts)] EXCEPT !.recording = FALSE]
    BY <2>2, <2>3
  <2>6. parts[Len(parts)] \in Parts
    BY <2>2
  <2>7. parts'[Len(parts')].recording = FALSE
    BY <2>4, <2>5, <2>6 DEF Parts
  <2> QED
    BY <2>1, <2>7 DEF RecordingInv
<1>11. CASE UNCHANGED vars
  BY <1>0, <1>11, RecordingKept DEF vars
<1> QED
  BY <1>1, <1>2, <1>3, <1>4, <1>5, <1>6, <1>7, <1>8, <1>9, <1>10, <1>11 DEF Next

-----------------------------------------------------------------------------
LEMMA CameraStep == CameraInv /\ [Next]_vars => CameraInv'
  BY TypesStep, RecorderStep, FreshStep, LedStep, RecordingStep DEF CameraInv

LEMMA CameraInvariant == Spec => []CameraInv
  BY CameraStart, CameraStep, PTL DEF Spec

\* The recorder's screen keeps its types, and its recorder opens a camera only
\* under the mark that keeps it from being opened again.
THEOREM CameraTypeCorrect == Spec => []CameraTypeOK
<1>1. CameraInv => CameraTypeOK
  <2> SUFFICES ASSUME CameraInv PROVE CameraTypeOK
    OBVIOUS
  <2>1. rec \in Recorders \cup {None} /\ (rec # None => (rec.camera # "none" => rec.mStartPreview))
    BY DEF CameraInv, RecorderInv, Made, GoodRec
  <2> QED
    BY <2>1 DEF CameraInv, ScreenTypes, CameraTypeOK, Uis, Parts
<1> QED
  BY <1>1, CameraInvariant, PTL

\* No order of calls and callbacks opens a camera over another.
THEOREM CameraNotLostHolds == Spec => []CameraNotLost
<1>1. CameraInv => CameraNotLost
  BY DEF CameraInv, RecorderInv, Made, GoodRec, CameraNotLost
<1> QED
  BY <1>1, CameraInvariant, PTL

\* With prepare done and a surface the preview runs, or its start has failed.
THEOREM ReadyMeansRunningHolds == Spec => []ReadyMeansRunning
<1>1. CameraInv => ReadyMeansRunning
  BY DEF CameraInv, RecorderInv, Made, GoodRec, Started, ReadyMeansRunning
<1> QED
  BY <1>1, CameraInvariant, PTL

\* The check mark and the torch agree wherever the history lets them.
THEOREM LedShowsTorchHolds == Spec => []LedShowsTorch
<1>1. CameraInv => LedShowsTorch
  BY DEF CameraInv, RecorderInv, LedInv, Made, GoodRec, LedShowsTorch
<1> QED
  BY <1>1, CameraInvariant, PTL

\* A recording is one camera's from its first to its last moment.
THEOREM RecordedByOneCameraHolds == Spec => []RecordedByOneCamera
<1>1. CameraInv => RecordedByOneCamera
  <2> SUFFICES ASSUME CameraInv PROVE RecordedByOneCamera
    OBVIOUS
  <2>1. CASE ui.isRunning
    <3>1. rec.camera \in {"none", rec.mCameraId}
      BY <2>1 DEF CameraInv, Fresh, NewUi, RecorderInv, Made, GoodRec
    <3> QED
      BY <2>1, <3>1 DEF CameraInv, RecordingInv, RecordedByOneCamera
  <2>2. CASE ~ui.isRunning
    BY <2>2 DEF CameraInv, RecordingInv, RecordedByOneCamera
  <2> QED
    BY <2>1, <2>2
<1> QED
  BY <1>1, CameraInvariant, PTL

-----------------------------------------------------------------------------
\* A preview that was marked as started goes on as it is, running or failed, until
\* the camera is switched or the screen is left: neither a pause nor a resume, nor a
\* surface that goes or comes, starts it again.
PreviewKept ==
  Made /\ rec.mStartPreview =>
    \/ rec' = None
    \/ ClickCamera
    \/ /\ rec'.running = rec.running /\ rec'.failed = rec.failed
       /\ rec'.camera = rec.camera /\ rec'.mStartPreview

\* A part that was opened for a recording, and the one whose stop closes it.
Opening(k) == parts[2 * k - 1]
Closing(k) == parts[2 * k]

\* Every recording of the screen has two parts of one camera: the one its recorder
\* has built, which nobody closes, and the one of the screen, which its end closes.
PartsPaired ==
  \E n \in Nat :
    /\ Len(parts) = 2 * n
    /\ ui.isRunning => n > 0
    /\ \A k \in 1 .. n :
         /\ Opening(k).camera = Closing(k).camera
         /\ Opening(k).recording
         /\ Closing(k).recording <=> ui.isRunning /\ k = n

\* Steps that leave the list and the recording flag alone.
LEMMA PairsKept ==
  ASSUME PartsPaired, parts' = parts, ui'.isRunning = ui.isRunning
  PROVE  PartsPaired'
  BY DEF PartsPaired, Opening, Closing

\* Every step keeps the pairs.
LEMMA PairsStep == CameraInv /\ PartsPaired /\ [Next]_vars => PartsPaired'
<1> SUFFICES ASSUME ScreenTypes, PartsPaired, [Next]_vars PROVE PartsPaired'
  BY DEF CameraInv
<1>1. ui \in Uis /\ parts \in Seq(Parts) /\ Len(parts) \in Nat
  BY DEF ScreenTypes
<1>2. PICK n \in Nat :
        /\ Len(parts) = 2 * n
        /\ ui.isRunning => n > 0
        /\ \A k \in 1 .. n :
             /\ Opening(k).camera = Closing(k).camera
             /\ Opening(k).recording
             /\ Closing(k).recording <=> ui.isRunning /\ k = n
  BY DEF PartsPaired
<1>3. CASE StartRecord
  <2>1. CASE parts' = parts /\ ui' = ui
    BY <2>1, PairsKept
  <2>2. CASE ~ui.isRunning /\ parts' = parts \o <<Part, Part>> /\ ui' = StartUI
    <3>1. /\ Len(parts') = 2 * (n + 1)
          /\ \A i \in 1 .. Len(parts) : parts'[i] = parts[i]
          /\ parts'[2 * (n + 1) - 1] = Part /\ parts'[2 * (n + 1)] = Part
      BY <1>1, <1>2, <2>2
    <3>2. ui'.isRunning
      BY <1>1, <2>2 DEF StartUI, Uis
    <3>3. Part.recording
      BY DEF Part
    <3>4. ASSUME NEW k \in 1 .. n
          PROVE  Opening(k)' = Opening(k) /\ Closing(k)' = Closing(k) /\ k # n + 1
      <4>1. 2 * k - 1 \in 1 .. Len(parts) /\ 2 * k \in 1 .. Len(parts) /\ k # n + 1
        BY <1>2
      <4> QED BY <3>1, <4>1 DEF Opening, Closing
    <3>5. \A k \in 1 .. n + 1 : k \in 1 .. n \/ k = n + 1
      BY <1>2
    <3>6. Opening(n + 1)' = Part /\ Closing(n + 1)' = Part
      BY <3>1 DEF Opening, Closing
    <3>7. \A k \in 1 .. n + 1 :
            /\ Opening(k)'.camera = Closing(k)'.camera
            /\ Opening(k)'.recording
            /\ Closing(k)'.recording <=> ui'.isRunning /\ k = n + 1
      BY <1>2, <2>2, <3>2, <3>3, <3>4, <3>5, <3>6
    <3>8. n + 1 \in Nat /\ n + 1 > 0
      BY <1>2
    <3> QED BY <3>1, <3>7, <3>8 DEF PartsPaired
  <2> QED BY <1>3, <2>1, <2>2 DEF StartRecord
<1>4. CASE StopRecord
  <2>1. ui.isRunning /\ n > 0 /\ ui'.isRunning = FALSE
    BY <1>1, <1>2, <1>4 DEF StopRecord, StopUI, Uis
  <2>2. parts' = [parts EXCEPT ![2 * n] = [parts[2 * n] EXCEPT !.recording = FALSE]]
    BY <1>2, <1>4 DEF StopRecord
  <2>3. 2 * n \in 1 .. Len(parts)
    BY <1>2, <2>1
  <2>4. parts[2 * n] \in Parts
    BY <1>1, <2>3
  <2>5. /\ Len(parts') = Len(parts)
        /\ \A i \in 1 .. Len(parts) : i # 2 * n => parts'[i] = parts[i]
        /\ parts'[2 * n] = [parts[2 * n] EXCEPT !.recording = FALSE]
    <3> DEFINE m == 2 * n
               closed == [parts[2 * n] EXCEPT !.recording = FALSE]
    <3>1. parts' = [parts EXCEPT ![m] = closed] /\ m \in 1 .. Len(parts)
      BY <2>2, <2>3
    <3> HIDE DEF m, closed
    <3>2. DOMAIN parts = 1 .. Len(parts)
      BY <1>1
    <3>3. /\ Len(parts') = Len(parts)
          /\ \A i \in 1 .. Len(parts) : i # m => parts'[i] = parts[i]
          /\ parts'[m] = closed
      BY <1>1, <3>1, <3>2
    <3> QED BY <3>3 DEF m, closed
  <2>6. /\ parts'[2 * n].recording = FALSE
        /\ parts'[2 * n].camera = parts[2 * n].camera
    BY <2>4, <2>5 DEF Parts
  <2>7. ASSUME NEW k \in 1 .. n
        PROVE  /\ Opening(k)' = Opening(k)
               /\ k # n => Closing(k)' = Closing(k)
               /\ k = n => Closing(k)'.recording = FALSE /\ Closing(k)'.camera = Closing(k).camera
    <3>1. 2 * k - 1 \in 1 .. Len(parts) /\ 2 * k - 1 # 2 * n
      BY <1>2
    <3>2. 2 * k \in 1 .. Len(parts) /\ (k # n => 2 * k # 2 * n)
      BY <1>2
    <3> QED BY <2>5, <2>6, <3>1, <3>2 DEF Opening, Closing
  <2>8. \A k \in 1 .. n :
          /\ Opening(k)'.camera = Closing(k)'.camera
          /\ Opening(k)'.recording
          /\ Closing(k)'.recording <=> ui'.isRunning /\ k = n
    BY <1>2, <2>1, <2>7
  <2> QED BY <1>2, <2>1, <2>5, <2>8 DEF PartsPaired
<1>5. CASE LeaveScreen
  <2>1. parts' = <<>> /\ ui'.isRunning = FALSE
    BY <1>5 DEF LeaveScreen, NewUi
  <2>2. Len(parts') = 2 * 0 /\ \A k \in 1 .. 0 : FALSE
    BY <2>1
  <2> QED BY <2>1, <2>2 DEF PartsPaired
<1>6. CASE ~StartRecord /\ ~StopRecord /\ ~LeaveScreen
  <2>1. parts' = parts /\ ui'.isRunning = ui.isRunning
    BY <1>1, <1>6 DEF Next, OnResume, OnPause, OnSurfaceCreated, OnSurfaceDestroyed, CollectCamera,
       ClickLed, ClickCamera, UiOfCamera, vars, Uis
  <2> QED BY <2>1, PairsKept
<1> QED BY <1>3, <1>4, <1>5, <1>6

\* The list of parts never gets out of step, however many recordings there are and
\* whatever happened to the camera between them (startRecord, setStopDate).
THEOREM PartsPairedHolds == Spec => []PartsPaired
<1>1. Init => PartsPaired
  <2> SUFFICES ASSUME Init PROVE PartsPaired
    OBVIOUS
  <2>1. Len(parts) = 2 * 0 /\ ~ui.isRunning /\ \A k \in 1 .. 0 : FALSE
    BY DEF Init, NewUi
  <2> QED BY <2>1 DEF PartsPaired
<1> QED BY <1>1, PairsStep, CameraInvariant, PTL DEF Spec

\* A failed preview is not tried again, and one that lost its surface is not
\* restarted, before the camera is switched or the screen is left (mStartPreview).
THEOREM PreviewKeptHolds == Spec => [][PreviewKept]_vars
<1>1. CameraInv /\ [Next]_vars => [PreviewKept]_vars
  <2> SUFFICES ASSUME CameraInv, Next, rec # None, rec.mStartPreview, rec' # None, ~ClickCamera
               PROVE  /\ rec'.running = rec.running /\ rec'.failed = rec.failed
                      /\ rec'.camera = rec.camera /\ rec'.mStartPreview
    BY DEF PreviewKept, Made
  <2>1. rec \in Recorders
    BY DEF CameraInv, RecorderInv, Made, GoodRec
  <2> DEFINE prepared == [rec EXCEPT !.mPrepared = TRUE]
             shown == [rec EXCEPT !.mSurfaceHolder = TRUE]
  <2>2. CASE OnResume
    <3>1. rec' \in StartPreview(prepared)
      BY <2>2 DEF OnResume, Prepare
    <3>2. rec' = prepared
      BY <2>1, <3>1 DEF StartPreview, CanStart, Recorders
    <3> QED BY <2>1, <3>2 DEF Recorders
  <2>3. CASE OnSurfaceCreated
    <3>1. rec' \in StartPreview(shown)
      BY <2>3 DEF OnSurfaceCreated, SurfaceCreated
    <3>2. rec' = shown
      BY <2>1, <3>1 DEF StartPreview, CanStart, Recorders
    <3> QED BY <2>1, <3>2 DEF Recorders
  <2>4. CASE ClickLed
    <3>1. rec' = rec \/ rec' \in ToggleFlashMode(rec)
      BY <2>4 DEF ClickLed, SwitchFlash
    <3> QED BY <2>1, <3>1 DEF ToggleFlashMode, Recorders
  <2>5. CASE OnSurfaceDestroyed
    BY <2>1, <2>5 DEF OnSurfaceDestroyed, Recorders
  <2>6. CASE OnPause \/ CollectCamera \/ StartRecord \/ StopRecord
    BY <2>6 DEF OnPause, CollectCamera, StartRecord, StopRecord
  <2>7. ~LeaveScreen
    BY DEF LeaveScreen
  <2> QED BY <2>2, <2>3, <2>4, <2>5, <2>6, <2>7 DEF Next
<1> QED BY <1>1, CameraInvariant, PTL DEF Spec
=============================================================================
