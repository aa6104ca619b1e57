--------------------------- MODULE MCFfmpegCommand ---------------------------
(* Two inputs, as the muxer gives: video with its first key packet first or     *)
(* second, audio with packets half as far apart.                                *)
EXTENDS FfmpegCommand
MCPeriod == <<2, 1>>
MCKeyAt == <<{1, 2}, {1}>>
=============================================================================
