----------------------------- MODULE MCGenerated -----------------------------
(***************************************************************************)
(* The instance of GeneratedCode for TLC: a NAD stream with two signals    *)
(* that can fail at either, an A429 stream behind it, and last a stream    *)
(* that was never initialised.                                             *)
(***************************************************************************)
EXTENDS GeneratedCode

DegradedStreamOf == <<1, 1, 2>>
DegradedKindOf   == <<"ASSISTANT", "A429", "UNKNOWN">>
DegradedValidity == <<0, 0, 4>>
=============================================================================
