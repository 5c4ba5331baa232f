--------------------------- MODULE MCTransmission ---------------------------
(***************************************************************************)
(* Instances of Transmission for TLC.                                      *)
(*                                                                         *)
(* Mixed: an A429 stream with two signals, a NAD stream with two, and an   *)
(* A825 stream the library takes samples for or not, the first two on one  *)
(* channel, the last on another.  Lone: the A429 stream alone.             *)
(***************************************************************************)
EXTENDS Transmission

MixedSize == <<2, 2, 1>>
MixedKindOf == <<"A429", "ASSISTANT", "A825">>
MixedChannelOf == <<"ab", "ab", "c">>

LoneSize == <<2>>
LoneKindOf == <<"A429">>
LoneChannelOf == <<"a">>
=============================================================================
