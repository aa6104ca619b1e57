-------------------------- MODULE MCRecordSession --------------------------
(* Instances of RecordSession for TLC.                                     *)
EXTENDS RecordSession

NoFailures == {}
EndFailures == {"flush", "mux", "attach"}
=============================================================================
