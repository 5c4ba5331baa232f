------------------------- MODULE SFunctionLifecycle -------------------------
(***************************************************************************)
(* The S-function shell (mdlInitializeSizes to mdlTerminate, mdlRTW) with  *)
(* the memory management of the connector: static pointers to the          *)
(* connector and to one object for each kind of block live on from one     *)
(* simulation to the next.  An object works for the block that made it, on *)
(* the connector it was made with.                                         *)
(*                                                                         *)
(* The engine (external) runs one simulation after the other.  In each, it *)
(* initialises the sizes of the blocks of the model in any order, possibly *)
(* more than once, and then runs or generates code and terminates, or      *)
(* terminates at once; between two simulations the model is edited.        *)
(*                                                                         *)
(* Reading through a null pointer or a deleted connector is a fault, and   *)
(* ends the behaviour.                                                     *)
(***************************************************************************)
EXTENDS Naturals

CONSTANTS
  Configures, Receives, Sends,   (* blocks that a model may have            *)
  NoBlock,
  MaxConnectors   (* bound: number of connectors ever made                  *)

Blocks     == Configures \cup Receives \cup Sends
Kinds      == {"Configure", "Receive", "Send"}
Connectors == 1 .. MaxConnectors
Null       == 0

ASSUME LifecycleAssumption ==
  /\ Configures \cap (Receives \cup Sends) = {} /\ Receives \cap Sends = {}
  /\ NoBlock \notin Blocks
  /\ MaxConnectors \in Nat

Kind(b) == IF b \in Configures THEN "Configure" ELSE IF b \in Receives THEN "Receive" ELSE "Send"

VARIABLES
  phase,      (* of the engine: idle, sizing, running or terminating        *)
  model,      (* the blocks of the model                                    *)
  sized,      (* the blocks initialised in this simulation, not terminated  *)
  started,    (* the blocks that were started in this simulation            *)
  made,       (* how many connectors were made                              *)
  connector,  (* static pointer to the connector                            *)
  holds,      (* static pointers configure, receive, send: the connector of *)
              (*   the object, Null if there never was an object            *)
  serves,     (* the block whose SimStruct each of these objects has        *)
  deleted,    (* the connectors that were deleted                           *)
  arrays,     (* the connectors whose arrays are allocated                  *)
  loaded,     (* the connectors whose context is loaded                     *)
  fault,      (* none, null, deleted, or gone: the block of the object      *)
  after,      (* history: the blocks initialised since the last Configure   *)
              (*   of this simulation, itself included                      *)
  disorder,   (* history: does the model run, or is its code generated,     *)
              (*   with a block that was not initialised after Configure?   *)
  remade,     (* history: connectors replaced before they were terminated   *)
  stuck       (* history: connectors that ed247_unload failed on            *)

engine  == <<phase, model, sized, started>>
heap    == <<made, connector, holds, serves, deleted, arrays, loaded>>
history == <<after, disorder, remade, stuck>>
vars    == <<engine, heap, fault, history>>

-----------------------------------------------------------------------------
(* What a callback meets behind the object for block b. *)
Access(b) ==
  CASE holds[Kind(b)] = Null         -> "null"
    [] holds[Kind(b)] \in deleted    -> "deleted"
    [] serves[Kind(b)] \notin model  -> "gone"
    [] OTHER                         -> "none"

Running == phase = "running" /\ fault = "none"
Sizing  == phase = "sizing" /\ fault = "none"

(* Another simulation of a model with these blocks. *)
Begin ==
  /\ phase = "idle" /\ fault = "none"
  /\ model' \in SUBSET Blocks
  /\ phase' = "sizing"
  /\ sized' = {} /\ started' = {} /\ after' = {} /\ disorder' = FALSE
  /\ UNCHANGED <<heap, fault, remade, stuck>>

(* Mistake: the object of the Configure block is only made once. *)
ConfigureMadeOnce(c) == IF holds["Configure"] = Null THEN c ELSE holds["Configure"]

(* The connector of the object that mdlInitializeSizes makes for Configure. *)
ConfigureHolds(c) == c

(* allocateMemory; allocations do not fail here. *)
AllocateMemory(c) == arrays' = arrays \cup {c}

(* mdlInitializeSizes of the Configure block: a new connector and a new object.
   Configure::initialize allocates the arrays and reads the configuration, and
   goes on whether the context could be loaded or not. *)
InitializeConfigure(b) ==
  /\ Sizing /\ b \in model \cap Configures
  /\ made < MaxConnectors
  /\ made' = made + 1
  /\ connector' = made'
  /\ holds' = [holds EXCEPT !["Configure"] = ConfigureHolds(made')]
  /\ serves' = [serves EXCEPT !["Configure"] = b]
  /\ AllocateMemory(made')
  /\ loaded' \in {loaded, loaded \cup {made'}}
  /\ sized' = sized \cup {b}
  /\ after' = {b}
  /\ remade' = remade \cup ({connector} \ {Null})
  /\ UNCHANGED <<phase, model, started, deleted, fault, disorder, stuck>>

(* Mistake: an object that exists is used again. *)
MadeOnce(b) == IF holds[Kind(b)] = Null THEN connector ELSE holds[Kind(b)]

(* The connector behind block b after mdlInitializeSizes: without a connector it
   returns early and leaves the object of an earlier simulation. *)
HoldsAfter(b) == IF connector = Null THEN holds[Kind(b)] ELSE connector

(* Mistake: an object that exists keeps its SimStruct. *)
ServesFirst(b) == IF serves[Kind(b)] = NoBlock /\ connector # Null THEN b ELSE serves[Kind(b)]

ServesAfter(b) == IF connector = Null THEN serves[Kind(b)] ELSE b

(* mdlInitializeSizes of a Send or Receive block. *)
InitializeOther(b) ==
  /\ Sizing /\ b \in model \ Configures
  /\ holds' = [holds EXCEPT ![Kind(b)] = HoldsAfter(b)]
  /\ serves' = [serves EXCEPT ![Kind(b)] = ServesAfter(b)]
  /\ sized' = sized \cup {b}
  /\ after' = IF Configures \cap after # {} THEN after \cup {b} ELSE after
  /\ UNCHANGED <<phase, model, started, made, connector, deleted, arrays, loaded,
                 fault, disorder, remade, stuck>>

(* All the blocks were initialised: the model runs, or its code is generated. *)
Run ==
  /\ Sizing /\ sized = model
  /\ phase' = "running"
  /\ disorder' = (after # model)
  /\ UNCHANGED <<model, sized, started, heap, fault, after, remade, stuck>>

(* mdlStart: only Receive::start looks into its object, at its SimStruct. *)
Start(b) ==
  /\ Running /\ b \in model \ started
  /\ started' = started \cup {b}
  /\ fault' = IF b \in Receives /\ Access(b) # "deleted" THEN Access(b) ELSE "none"
  /\ UNCHANGED <<phase, model, sized, heap, history>>

(* mdlOutputs of a Send or Receive block, mdlUpdate of a Receive block; the
   other methods are empty.  Both follow the start of all the blocks. *)
Step(b) ==
  /\ Running /\ started = model /\ b \in model \ Configures
  /\ fault' = Access(b)
  /\ UNCHANGED <<engine, heap, history>>

(* mdlRTW, in a build: Send::RTW and Receive::RTW read the connector. *)
RTW(b) ==
  /\ Running /\ started = {} /\ b \in model \ Configures
  /\ fault' = Access(b)
  /\ UNCHANGED <<engine, heap, history>>

(* The engine stops, after a run or because the model cannot be run. *)
Stop ==
  /\ Running \/ Sizing
  /\ phase' = "terminating"
  /\ UNCHANGED <<model, sized, started, heap, fault, history>>

(* Mistake: Configure::terminate does not free the connector. *)
FreeNothing(c) == UNCHANGED <<arrays, loaded, stuck>>

(* Mistake: the arrays are freed although the context cannot be unloaded. *)
FreeArraysFirst(c) ==
  /\ arrays' = arrays \ {c}
  /\ \/ loaded' = loaded \ {c} /\ UNCHANGED stuck
     \/ stuck' = stuck \cup ({c} \cap loaded) /\ UNCHANGED loaded

(* freeMemory: it returns early when the context cannot be unloaded. *)
FreeMemory(c) ==
  \/ /\ arrays' = arrays \ {c}
     /\ loaded' = loaded \ {c}
     /\ UNCHANGED stuck
  \/ /\ c \in loaded
     /\ stuck' = stuck \cup {c}
     /\ UNCHANGED <<arrays, loaded>>

(* mdlTerminate of a Configure block: the object frees the memory of its
   connector, the static connector is deleted. *)
TerminateConfigure(b) ==
  /\ phase = "terminating" /\ fault = "none" /\ b \in sized \cap Configures
  /\ sized' = sized \ {b}
  /\ FreeMemory(holds["Configure"])
  /\ deleted' = deleted \cup ({connector} \ {Null})
  /\ connector' = Null
  /\ fault' = IF Access(b) = "gone" THEN "none" ELSE Access(b)
  /\ UNCHANGED <<phase, model, started, made, holds, serves, after, disorder, remade>>

(* mdlTerminate of a Send or Receive block does nothing: its object stays. *)
TerminateOther(b) ==
  /\ phase = "terminating" /\ fault = "none" /\ b \in sized \ Configures
  /\ sized' = sized \ {b}
  /\ UNCHANGED <<phase, model, started, heap, fault, history>>

(* The simulation is over. *)
End ==
  /\ phase = "terminating" /\ fault = "none" /\ sized = {}
  /\ phase' = "idle"
  /\ UNCHANGED <<model, sized, started, heap, fault, history>>

-----------------------------------------------------------------------------
Init ==
  /\ phase = "idle"
  /\ model = {} /\ sized = {} /\ started = {}
  /\ made = 0
  /\ connector = Null
  /\ holds = [k \in Kinds |-> Null]
  /\ serves = [k \in Kinds |-> NoBlock]
  /\ deleted = {} /\ arrays = {} /\ loaded = {}
  /\ fault = "none"
  /\ after = {} /\ disorder = FALSE /\ remade = {} /\ stuck = {}

Next ==
  \/ Begin \/ Run \/ Stop \/ End
  \/ \E b \in Blocks :
       \/ InitializeConfigure(b) \/ InitializeOther(b)
       \/ Start(b) \/ Step(b) \/ RTW(b)
       \/ TerminateConfigure(b) \/ TerminateOther(b)

Spec == Init /\ [][Next]_vars

-----------------------------------------------------------------------------
(* Every variable stays in its domain. *)
TypeOK ==
  /\ phase \in {"idle", "sizing", "running", "terminating"}
  /\ model \subseteq Blocks /\ sized \subseteq model /\ started \subseteq model
  /\ made \in 0 .. MaxConnectors
  /\ connector \in 0 .. made
  /\ holds \in [Kinds -> 0 .. made] /\ serves \in [Kinds -> Blocks \cup {NoBlock}]
  /\ deleted \subseteq 1 .. made /\ arrays \subseteq 1 .. made /\ loaded \subseteq arrays
  /\ fault \in {"none", "null", "deleted", "gone"}
  /\ after \subseteq model
  /\ disorder \in BOOLEAN
  /\ remade \subseteq 1 .. made /\ stuck \subseteq 1 .. made

AtMostOne(blocks) == \A a, b \in blocks : a = b

(* The static pointers that outlive a simulation do no harm as long as, in each
   one, the model has one Configure block and the other blocks are initialised
   after it; whatever order the blocks are terminated in, and whatever happened
   in the simulations before. *)
FaultNeedsDisorder ==
  fault # "none" /\ AtMostOne(model \cap Configures) => disorder

(* In a simulation whose blocks are initialised in this order they all work on one
   connector, the static one, which is alive and has its arrays.  A block that
   kept the connector of an earlier initialisation would exchange data with
   another context than the rest of the model. *)
InOrder == phase = "running" /\ Configures \cap model # {} /\ after = model

BlocksShareConnector ==
  InOrder =>
    /\ connector \notin deleted /\ connector \in arrays
    /\ \A b \in model : holds[Kind(b)] = connector

(* There the callbacks of a block read and write its own ports and counters, and
   not those of a block of an earlier simulation, if it is the only one of its
   kind.  (Of several, the one object works for the last one initialised.) *)
BlocksServeThemselves ==
  InOrder => \A b \in model : AtMostOne({c \in model : Kind(c) = Kind(b)}) => serves[Kind(b)] = b

(* Between two simulations no context is loaded and no array allocated, but for
   connectors that a second initialisation of the Configure block replaced, or
   whose context could not be unloaded. *)
NothingLeaks ==
  phase = "idle" => (arrays \cup loaded) \subseteq (remade \cup stuck)
=============================================================================
