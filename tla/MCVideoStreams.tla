--------------------------- MODULE MCVideoStreams ---------------------------
(* Three streams, two of one source, for TLC. *)
EXTENDS VideoStreams

CONSTANTS k1, k2, k3, s1, s2

MCSourceOf == [k \in Streams |-> IF k = k3 THEN s2 ELSE s1]
=============================================================================
