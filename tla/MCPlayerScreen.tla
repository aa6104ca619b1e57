--------------------------- MODULE MCPlayerScreen ---------------------------
(* PlayerScreen with two streams, for a video and for a live stream.       *)
EXTENDS PlayerScreen

MCSizes == {1}
NoSizes == {}
MCNetworks == {-1, 6}
============================================================================
