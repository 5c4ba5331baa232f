------------------------------ MODULE Delivery ------------------------------
(***************************************************************************)
(* What two connected simulations promise to their signals as long as      *)
(* every send pushes all of them and every reception reads all that came:  *)
(* no streams, samples or queues of the library, only steps of the sender. *)
(*                                                                         *)
(* The signals are in groups, and the steps wait in a line for each group, *)
(* out of which the oldest may be lost.  The receiver takes the oldest one *)
(* of one or several lines and shows it in all signals of the group, each  *)
(* with its own data; do_refresh is only set for these.                    *)
(***************************************************************************)
EXTENDS Naturals, Sequences

CONSTANTS
  Lines,      (* the lines in which steps wait                             *)
  LineOf      (* the line of each signal                                   *)

Signals == DOMAIN LineOf

VARIABLES
  sent,       (* number of steps sent                                      *)
  waiting,    (* the steps under way on each line, oldest first            *)
  shown,      (* the step whose data each signal shows, 0 at first         *)
  refreshed   (* the flag of each signal                                   *)

vars == <<sent, waiting, shown, refreshed>>

Init ==
  /\ sent = 0
  /\ waiting = [l \in Lines |-> <<>>]
  /\ shown = [s \in Signals |-> 0]
  /\ refreshed \in [Signals -> {0, 1}]

SendStep ==
  /\ sent' = sent + 1
  /\ waiting' = [l \in Lines |-> Append(waiting[l], sent + 1)]
  /\ UNCHANGED <<shown, refreshed>>

LoseStep(l) ==
  /\ waiting[l] # <<>>
  /\ waiting' = [waiting EXCEPT ![l] = Tail(@)]
  /\ UNCHANGED <<sent, shown, refreshed>>

(* A step is shown from every line in came; a signal of another line keeps its
   data, and its flag is cleared or left alone. *)
ShowSteps(came) ==
  /\ \A l \in came : waiting[l] # <<>>
  /\ waiting' = [l \in Lines |-> IF l \in came THEN Tail(waiting[l]) ELSE waiting[l]]
  /\ shown' = [s \in Signals |->
                 IF LineOf[s] \in came THEN Head(waiting[LineOf[s]]) ELSE shown[s]]
  /\ refreshed' \in [Signals -> {0, 1}]
  /\ \A s \in Signals : IF LineOf[s] \in came
                        THEN refreshed'[s] = 1
                        ELSE refreshed'[s] \in {0, refreshed[s]}
  /\ UNCHANGED sent

Next ==
  \/ SendStep
  \/ \E l \in Lines : LoseStep(l)
  \/ \E came \in SUBSET Lines : ShowSteps(came)

Spec == Init /\ [][Next]_vars
=============================================================================
