---------------------------- MODULE MCFrameRelay ----------------------------
(* The same three streams, and the frames of one of each source. *)
EXTENDS FrameRelay

CONSTANTS k1, k2, k3, s1, s2

MCSourceOf == [k \in Streams |-> IF k = k3 THEN s2 ELSE s1]
=============================================================================
