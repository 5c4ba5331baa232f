---------------------------- MODULE GeneratedCode ----------------------------
(***************************************************************************)
(* The Receive block in generated code (ed247_sfun_receive.tlc) beside the *)
(* S-function (ReceiveBlock), both fed with what the same connector        *)
(* delivers.                                                               *)
(*                                                                         *)
(* The template unrolls the loops of the S-function over the signals that  *)
(* RTW named when the code was generated: code for a refresh port, and for *)
(* its counter, is there only for the signals that have one.               *)
(***************************************************************************)
EXTENDS ReceiveBlock

VARIABLES
  dwork,       (* the DWork counters of the generated code                 *)
  port         (* its refresh ports                                        *)

genVars == <<vars, dwork, port>>

(* Mistake: the comparison is not strict. *)
GeneratedRefreshLate(s) ==
  IF doRefresh'[s] = 1 \/ dwork[s] * SampleTime <= Validity[s] THEN 1 ELSE 0

(* ReceiveOutputs, the refresh port of s; do_refresh is that after the call of
   receiveED247ToSimulink. *)
GeneratedRefresh(s) ==
  IF doRefresh'[s] = 1 \/ dwork[s] * SampleTime < Validity[s] THEN 1 ELSE 0

(* ReceiveUpdate, for a signal with a refresh port. *)
GeneratedCounter(s) ==
  CASE doRefresh[s] = 1                           -> 0
    [] doRefresh[s] # 1 /\ dwork[s] < MaxCounter  -> dwork[s] + 1
    [] OTHER                                      -> dwork[s]

ReceiveStart ==
  /\ Start
  /\ dwork' = [s \in Signals |-> MaxCounter]
  /\ UNCHANGED port

ReceiveOutputs ==
  /\ OutputsFrame \/ OutputsNoFrame
  /\ port' = [s \in HasPort |-> GeneratedRefresh(s)]
  /\ UNCHANGED dwork

ReceiveUpdate ==
  /\ Update
  /\ dwork' = [s \in Signals |-> IF s \in HasPort THEN GeneratedCounter(s) ELSE dwork[s]]
  /\ UNCHANGED port

GenInit ==
  /\ Init
  /\ dwork = [s \in Signals |-> 0]
  /\ port = [s \in HasPort |-> 0]

GenNext == ReceiveStart \/ ReceiveOutputs \/ ReceiveUpdate

GenSpec == GenInit /\ [][GenNext]_genVars

(* On the target every refresh port has the value that it has in a simulation with
   the same data, although only some of the counters are kept there. *)
GeneratedAgrees == port = refresh
=============================================================================
