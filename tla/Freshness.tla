----------------------------- MODULE Freshness -----------------------------
(***************************************************************************)
(* What the ED247 Receive block promises on its refresh ports, without the *)
(* counters, flags and stream loops it uses to keep the promise.           *)
(*                                                                         *)
(* The time since the last delivery of a signal is the only state: a port  *)
(* is fresh at an output instant when data was delivered at this instant   *)
(* or when the last delivery is recent enough for the validity duration of *)
(* the signal.  The first period after a delivery is not counted: this is  *)
(* the tolerance the block really has (its counter is 0 one step after the *)
(* delivery).                                                              *)
(***************************************************************************)
EXTENDS Naturals

CONSTANTS
  Ports,       (* the signals that own a refresh port                  *)
  Validity,    (* validity duration of each signal, in time units      *)
  SampleTime,  (* period of the block, in time units                   *)
  MaxElapsed   (* periods after which the block stops counting         *)

VARIABLES
  elapsed,     (* periods since the last delivery, MaxElapsed at most  *)
  fresh        (* value of each refresh port                           *)

vars == <<elapsed, fresh>>

Recent(p) == elapsed[p] = 0 \/ (elapsed[p] - 1) * SampleTime < Validity[p]

Init ==
  /\ elapsed = [p \in Ports |-> MaxElapsed]
  /\ fresh = [p \in Ports |-> FALSE]

(* One output instant: the signals of got receive data. *)
Deliver(got) ==
  /\ elapsed' = [p \in Ports |-> IF p \in got THEN 0 ELSE elapsed[p]]
  /\ fresh' = [p \in Ports |-> p \in got \/ Recent(p)]

(* One period elapses. *)
Advance ==
  /\ elapsed' = [p \in Ports |-> IF elapsed[p] < MaxElapsed
                                 THEN elapsed[p] + 1 ELSE elapsed[p]]
  /\ UNCHANGED fresh

Next ==
  \/ \E got \in SUBSET Ports : Deliver(got)
  \/ Advance

Spec == Init /\ [][Next]_vars
=============================================================================
