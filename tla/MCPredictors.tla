---------------------------- MODULE MCPredictors ----------------------------
(* A small ring and stamps that wrap every few messages, for TLC. *)
EXTENDS Predictors

MCKinds == {"FACTOR", "UKF", "SIMPLE"}
=============================================================================
