-------------------------- MODULE MCMessageQuality --------------------------
(* Stations that register again and share flows, for TLC. *)
EXTENDS MessageQuality, TLC

CONSTANTS s1, s2, f1, f2

\* The messages of s1 carry two flows, one of them that of s2.
MCSharedFlow == s1 :> {f1, f2} @@ s2 :> {f2}
=============================================================================
