------------------------------ MODULE MCReceive ------------------------------
(***************************************************************************)
(* Instances of ReceiveBlock for TLC.                                      *)
(*                                                                         *)
(* Nominal: an A825 stream first (it changes the status when no frame      *)
(* comes), a NAD stream, an A429 stream.  The validity durations are one   *)
(* that is no multiple of the period (3 against 2), and the largest the    *)
(* counter can count (6 = 3 * 2).                                          *)
(***************************************************************************)
EXTENDS ReceiveBlock

NominalStreamOf == <<1, 2, 3>>
NominalKindOf   == <<"A825", "ASSISTANT", "A429">>
NominalValidity == <<3, 0, 6>>
=============================================================================
