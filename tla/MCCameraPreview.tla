--------------------------- MODULE MCCameraPreview ---------------------------
(* The recorder's screen for TLC.                                           *)
EXTENDS CameraPreview
=============================================================================
