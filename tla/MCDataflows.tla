----------------------------- MODULE MCDataflows -----------------------------
(* Senders, workers and topics for TLC. *)
EXTENDS Dataflows, TLC

CONSTANTS s1, s2, w1, w2, t1

\* The data of one sender is what the topic is about.
MCMatches == t1 :> {s1}
=============================================================================
