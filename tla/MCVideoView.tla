---------------------------- MODULE MCVideoView ----------------------------
(* VideoView on one address, two picture sizes and two positions.           *)
EXTENDS VideoView

MCSizes == {1, 2}
============================================================================
