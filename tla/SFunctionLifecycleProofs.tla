---------------------- MODULE SFunctionLifecycleProofs ----------------------
(***************************************************************************)
(* Proofs about the S-function shell: for every set of blocks and every    *)
(* number of connectors, static pointers that outlive a simulation are     *)
(* harmless as long as the blocks are initialised in order, and what is    *)
(* allocated is freed.                                                     *)
(***************************************************************************)
EXTENDS SFunctionLifecycle, TLAPS

(* A block is of one of the three kinds. *)
LEMMA KindType == \A b : Kind(b) \in Kinds
  BY DEF Kind, Kinds

(* The Configure blocks are those of this kind. *)
LEMMA KindOfConfigure == \A b : b \in Configures <=> Kind(b) = "Configure"
  BY DEF Kind

(* What a callback may meet behind an object. *)
LEMMA AccessType == \A b : Access(b) \in {"none", "null", "deleted", "gone"}
  BY DEF Access

-----------------------------------------------------------------------------
(* Type correctness: one lemma for the Configure blocks, whose callbacks change the
   memory, the other actions in the theorem. *)
LEMMA TypeInitializeConfigure ==
  ASSUME TypeOK, NEW b \in Blocks, InitializeConfigure(b)
  PROVE  TypeOK'
  <1>1. made \in Nat /\ made' = made + 1 /\ made' \in 1 .. MaxConnectors
    BY LifecycleAssumption DEF InitializeConfigure, TypeOK
  <1>2. connector' \in 0 .. made' /\ remade' \subseteq 1 .. made'
    BY <1>1 DEF InitializeConfigure, TypeOK, Null
  <1>3. holds' \in [Kinds -> 0 .. made']
    <2>1. 0 .. made \subseteq 0 .. made' /\ made' \in 0 .. made'
      BY <1>1
    <2>2. holds \in [Kinds -> 0 .. made']
      BY <2>1 DEF TypeOK
    <2> QED
      BY <2>1, <2>2 DEF InitializeConfigure, ConfigureHolds
  <1>4. serves' \in [Kinds -> Blocks \cup {NoBlock}]
    BY DEF InitializeConfigure, TypeOK
  <1>5. arrays' \subseteq 1 .. made' /\ loaded' \subseteq arrays'
    BY <1>1 DEF InitializeConfigure, AllocateMemory, TypeOK
  <1>6. deleted' \subseteq 1 .. made' /\ stuck' \subseteq 1 .. made'
    BY <1>1 DEF InitializeConfigure, TypeOK
  <1> QED
    BY <1>1, <1>2, <1>3, <1>4, <1>5, <1>6 DEF InitializeConfigure, TypeOK, Sizing

(* mdlTerminate of a Configure block: what freeMemory leaves is what was there. *)
LEMMA TypeTerminateConfigure ==
  ASSUME TypeOK, NEW b \in Blocks, TerminateConfigure(b)
  PROVE  TypeOK'
  <1>1. /\ arrays' \subseteq arrays /\ loaded' \subseteq arrays'
        /\ stuck' \subseteq stuck \cup loaded
    BY DEF TerminateConfigure, FreeMemory, TypeOK
  <1>2. connector' \in 0 .. made' /\ deleted' \subseteq 1 .. made'
    BY LifecycleAssumption DEF TerminateConfigure, TypeOK, Null
  <1>3. fault' \in {"none", "null", "deleted", "gone"}
    BY AccessType DEF TerminateConfigure
  <1> QED
    BY <1>1, <1>2, <1>3 DEF TerminateConfigure, TypeOK

(* mdlInitializeSizes of the other blocks changes their kind's object only. *)
LEMMA TypeInitializeOther ==
  ASSUME TypeOK, NEW b \in Blocks, InitializeOther(b)
  PROVE  TypeOK'
  <1>1. holds' \in [Kinds -> 0 .. made'] /\ serves' \in [Kinds -> Blocks \cup {NoBlock}]
    BY KindType DEF InitializeOther, HoldsAfter, ServesAfter, TypeOK
  <1> QED
    BY <1>1 DEF InitializeOther, TypeOK, Sizing

(* At the start nothing was made. *)
LEMMA TypeInit == Init => TypeOK
  <1> SUFFICES ASSUME Init PROVE TypeOK
    OBVIOUS
  <1>1. made \in 0 .. MaxConnectors /\ connector \in 0 .. made
    BY LifecycleAssumption DEF Init, Null
  <1>2. holds \in [Kinds -> 0 .. made] /\ serves \in [Kinds -> Blocks \cup {NoBlock}]
    BY <1>1 DEF Init, Null
  <1> QED
    BY <1>1, <1>2 DEF Init, TypeOK

(* No action of the engine or of a block leaves the domains. *)
LEMMA TypeStep == TypeOK /\ [Next]_vars => TypeOK'
  <1> SUFFICES ASSUME TypeOK, [Next]_vars
               PROVE  TypeOK'
    OBVIOUS
  <1> USE DEF engine, heap, history
  <1>1. CASE Begin
    BY <1>1 DEF Begin, TypeOK
  <1>2. CASE Run \/ Stop \/ End
    BY <1>2 DEF Run, Stop, End, TypeOK
  <1>3. ASSUME NEW b \in Blocks, InitializeConfigure(b)
        PROVE  TypeOK'
    BY <1>3, TypeInitializeConfigure
  <1>4. ASSUME NEW b \in Blocks, InitializeOther(b)
        PROVE  TypeOK'
    BY <1>4, TypeInitializeOther
  <1>5. ASSUME NEW b \in Blocks, Start(b)
        PROVE  TypeOK'
    BY <1>5, AccessType DEF Start, TypeOK
  <1>6. ASSUME NEW b \in Blocks, Step(b) \/ RTW(b)
        PROVE  TypeOK'
    BY <1>6, AccessType DEF Step, RTW, TypeOK
  <1>7. ASSUME NEW b \in Blocks, TerminateConfigure(b)
        PROVE  TypeOK'
    BY <1>7, TypeTerminateConfigure
  <1>8. ASSUME NEW b \in Blocks, TerminateOther(b)
        PROVE  TypeOK'
    BY <1>8 DEF TerminateOther, TypeOK
  <1>9. CASE UNCHANGED vars
    BY <1>9 DEF vars, TypeOK
  <1> QED
    BY <1>1, <1>2, <1>3, <1>4, <1>5, <1>6, <1>7, <1>8, <1>9 DEF Next

(* Every variable of the S-function shell stays in its domain. *)
THEOREM TypeCorrect == Spec => []TypeOK
  BY TypeInit, TypeStep, PTL DEF Spec

-----------------------------------------------------------------------------
(***************************************************************************)
(* The inductive invariant.                                                *)
(***************************************************************************)

(* The static connector, while there is one, is alive and has its arrays, and the
   Configure object was made for it.  There is one only from the initialisation of a
   Configure block to its termination. *)
ConnectorIsLive ==
  connector # Null =>
    /\ connector \notin deleted /\ connector \in arrays
    /\ holds["Configure"] = connector
    /\ sized \cap Configures # {}

(* A Configure block that waits for its termination finds this connector, unless
   another one was terminated before it. *)
ConnectorIsThere ==
  /\ phase = "idle" => sized = {}
  /\ phase # "idle" /\ sized \cap Configures # {} =>
       \/ connector # Null
       \/ phase = "terminating" /\ ~AtMostOne(model \cap Configures)

(* Blocks initialised after the Configure block work on the static connector, for a
   block of the model of their own kind. *)
OrderedBlocksAreSet ==
  phase \in {"sizing", "running"} =>
    /\ after # {} => Configures \cap after # {} /\ connector # Null
    /\ \A b \in after :
         /\ holds[Kind(b)] = connector
         /\ serves[Kind(b)] \in after /\ Kind(serves[Kind(b)]) = Kind(b)

RunsInOrder == phase = "running" => (disorder <=> after # model)

(* Arrays that are still allocated belong to the static connector, or were lost. *)
ArraysAreOwned == arrays \subseteq remade \cup stuck \cup {connector}

LifecycleInv ==
  /\ TypeOK /\ ConnectorIsLive /\ ConnectorIsThere /\ OrderedBlocksAreSet
  /\ RunsInOrder /\ ArraysAreOwned /\ FaultNeedsDisorder

(* Initialised in order, a block finds a live connector behind its object, and the
   object works for a block of this model: nothing of an earlier simulation. *)
LEMMA NothingStaleInOrder ==
  ASSUME ConnectorIsLive, OrderedBlocksAreSet,
         phase = "running", after = model, NEW b \in model
  PROVE  Access(b) = "none"
  <1>1. connector # Null /\ connector \notin deleted
    BY DEF ConnectorIsLive, OrderedBlocksAreSet
  <1>2. holds[Kind(b)] = connector /\ serves[Kind(b)] \in model
    BY DEF OrderedBlocksAreSet
  <1> QED
    BY <1>1, <1>2 DEF Access

(* The start of the first simulation. *)
LEMMA InitLifecycle == Init => LifecycleInv
  <1> SUFFICES ASSUME Init PROVE LifecycleInv
    OBVIOUS
  <1>1. TypeOK
    BY TypeInit
  <1>2. ConnectorIsLive /\ ConnectorIsThere /\ OrderedBlocksAreSet
    BY DEF Init, ConnectorIsLive, ConnectorIsThere, OrderedBlocksAreSet
  <1>3. RunsInOrder /\ ArraysAreOwned /\ FaultNeedsDisorder
    BY DEF Init, RunsInOrder, ArraysAreOwned, FaultNeedsDisorder
  <1> QED
    BY <1>1, <1>2, <1>3 DEF LifecycleInv

(* The engine begins, runs, stops and ends a simulation. *)
LEMMA EngineKeepsInv ==
  ASSUME LifecycleInv, TypeOK', Begin \/ Run \/ Stop \/ End
  PROVE  LifecycleInv'
  <1> USE DEF LifecycleInv, heap
  <1>1. ConnectorIsLive' /\ ConnectorIsThere'
    <2>1. CASE Begin
      <3>1. connector = Null
        BY <2>1 DEF Begin, ConnectorIsLive, ConnectorIsThere
      <3> QED
        BY <2>1, <3>1 DEF Begin, ConnectorIsLive, ConnectorIsThere
    <2>2. CASE Run \/ Stop \/ End
      BY <2>2 DEF Run, Stop, End, Running, Sizing, ConnectorIsLive, ConnectorIsThere
    <2> QED
      BY <2>1, <2>2
  <1>2. OrderedBlocksAreSet' /\ RunsInOrder'
    <2>1. CASE Begin \/ Stop \/ End
      BY <2>1 DEF Begin, Stop, End, OrderedBlocksAreSet, RunsInOrder
    <2>2. CASE Run
      BY <2>2 DEF Run, Sizing, OrderedBlocksAreSet, RunsInOrder
    <2> QED
      BY <2>1, <2>2
  <1>3. ArraysAreOwned' /\ FaultNeedsDisorder'
    <2>1. fault' = "none" /\ UNCHANGED <<arrays, connector, remade, stuck>>
      BY DEF Begin, Run, Stop, End, Running, Sizing, history
    <2> QED
      BY <2>1 DEF ArraysAreOwned, FaultNeedsDisorder
  <1> QED
    BY <1>1, <1>2, <1>3

(* mdlInitializeSizes of a Configure block. *)
LEMMA InitializeConfigureKeepsInv ==
  ASSUME LifecycleInv, TypeOK', NEW b \in Blocks, InitializeConfigure(b)
  PROVE  LifecycleInv'
  <1> USE DEF LifecycleInv, InitializeConfigure
  <1>1. /\ connector' = made + 1 /\ connector' \notin deleted' /\ connector' # Null
        /\ connector' \in arrays'
    BY LifecycleAssumption DEF TypeOK, AllocateMemory, Null
  <1>2. holds'["Configure"] = connector' /\ serves'["Configure"] = b
    BY DEF TypeOK, Kinds, ConfigureHolds
  <1>3. b \in Configures /\ Kind(b) = "Configure"
    BY KindOfConfigure
  <1>4. ConnectorIsLive' /\ ConnectorIsThere'
    BY <1>1, <1>2, <1>3 DEF ConnectorIsLive, ConnectorIsThere, Sizing
  <1>5. OrderedBlocksAreSet'
    BY <1>1, <1>2, <1>3 DEF OrderedBlocksAreSet
  <1>6. RunsInOrder' /\ FaultNeedsDisorder'
    BY DEF RunsInOrder, FaultNeedsDisorder, Sizing
  <1>7. ArraysAreOwned'
    <2>1. \A c \in arrays' : c \in arrays \/ c = connector'
      BY <1>1 DEF AllocateMemory
    <2>2. \A c \in arrays : c # Null
      BY DEF TypeOK, Null
    <2>3. \A c \in arrays : c \in remade' \cup stuck'
      BY <2>2 DEF ArraysAreOwned
    <2> QED
      BY <2>1, <2>3 DEF ArraysAreOwned
  <1> QED
    BY <1>4, <1>5, <1>6, <1>7

(* mdlInitializeSizes of a Send or Receive block. *)
LEMMA InitializeOtherKeepsInv ==
  ASSUME LifecycleInv, TypeOK', NEW b \in Blocks, InitializeOther(b)
  PROVE  LifecycleInv'
  <1> USE DEF LifecycleInv, InitializeOther
  <1>1. Kind(b) \in Kinds /\ Kind(b) # "Configure" /\ b \notin Configures
    BY KindType, KindOfConfigure
  <1>2. /\ holds'[Kind(b)] = HoldsAfter(b) /\ serves'[Kind(b)] = ServesAfter(b)
        /\ \A k \in Kinds \ {Kind(b)} : holds'[k] = holds[k] /\ serves'[k] = serves[k]
    BY <1>1 DEF TypeOK
  <1>3. holds'["Configure"] = holds["Configure"]
    BY <1>1, <1>2 DEF Kinds
  <1>4. ConnectorIsLive' /\ ConnectorIsThere'
    BY <1>1, <1>3 DEF ConnectorIsLive, ConnectorIsThere, Sizing
  <1>5. OrderedBlocksAreSet'
    <2>1. CASE Configures \cap after = {}
      <3>1. after = {} /\ after' = {}
        BY <2>1 DEF OrderedBlocksAreSet, Sizing
      <3> QED
        BY <3>1 DEF OrderedBlocksAreSet
    <2>2. CASE Configures \cap after # {}
      <3>1. after' = after \cup {b} /\ connector # Null /\ connector' = connector
        BY <2>2 DEF OrderedBlocksAreSet, Sizing
      <3>2. holds'[Kind(b)] = connector' /\ serves'[Kind(b)] = b
        BY <1>2, <3>1 DEF HoldsAfter, ServesAfter
      <3>3. ASSUME NEW c \in after, Kind(c) # Kind(b)
            PROVE  /\ holds'[Kind(c)] = connector'
                   /\ serves'[Kind(c)] \in after' /\ Kind(serves'[Kind(c)]) = Kind(c)
        <4>1. holds'[Kind(c)] = holds[Kind(c)] /\ serves'[Kind(c)] = serves[Kind(c)]
          BY <1>2, <3>3, KindType
        <4> QED
          BY <3>1, <4>1 DEF OrderedBlocksAreSet, Sizing
      <3>4. \A c \in after' : /\ holds'[Kind(c)] = connector'
                              /\ serves'[Kind(c)] \in after' /\ Kind(serves'[Kind(c)]) = Kind(c)
        BY <3>1, <3>2, <3>3
      <3>5. Configures \cap after' # {} /\ connector' # Null
        BY <2>2, <3>1
      <3> QED
        BY <3>4, <3>5 DEF OrderedBlocksAreSet
    <2> QED
      BY <2>1, <2>2
  <1>6. RunsInOrder' /\ FaultNeedsDisorder' /\ ArraysAreOwned'
    BY DEF RunsInOrder, FaultNeedsDisorder, ArraysAreOwned, Sizing
  <1> QED
    BY <1>4, <1>5, <1>6

(* The callbacks of a running model, and of a build, only read; what they meet is a
   fault only in a model that runs out of order. *)
LEMMA CallbackKeepsInv ==
  ASSUME LifecycleInv, TypeOK', NEW b \in Blocks, Start(b) \/ Step(b) \/ RTW(b)
  PROVE  LifecycleInv'
  <1> USE DEF LifecycleInv
  <1>1. /\ phase = "running" /\ b \in model /\ sized' = sized
        /\ UNCHANGED <<phase, model, heap, history>>
        /\ fault' \in {Access(b), "none"}
    BY DEF Start, Step, RTW, Running, engine
  <1>2. /\ ConnectorIsLive' /\ ConnectorIsThere' /\ OrderedBlocksAreSet'
        /\ RunsInOrder' /\ ArraysAreOwned'
    BY <1>1 DEF heap, history, ConnectorIsLive, ConnectorIsThere, OrderedBlocksAreSet,
         RunsInOrder, ArraysAreOwned, AtMostOne
  <1>3. FaultNeedsDisorder'
    <2> SUFFICES ASSUME fault' # "none"
                 PROVE  disorder'
      BY DEF FaultNeedsDisorder
    <2>1. Access(b) # "none"
      BY <1>1
    <2>2. after # model
      BY <1>1, <2>1, NothingStaleInOrder
    <2> QED
      BY <1>1, <2>2 DEF RunsInOrder, history
  <1> QED
    BY <1>2, <1>3

(* mdlTerminate of a Configure block frees the connector that its object was made
   for. *)
LEMMA TerminateConfigureKeepsInv ==
  ASSUME LifecycleInv, TypeOK', NEW b \in Blocks, TerminateConfigure(b)
  PROVE  LifecycleInv'
  <1> USE DEF LifecycleInv, TerminateConfigure
  <1>1. /\ connector' = Null /\ phase = "terminating" /\ fault = "none"
        /\ b \in sized \cap Configures /\ Kind(b) = "Configure"
        /\ model' = model /\ sized' = sized \ {b}
    BY KindOfConfigure
  <1>2. connector # Null => holds["Configure"] = connector /\ connector \notin deleted
    BY DEF ConnectorIsLive
  <1>3. ConnectorIsLive'
    BY <1>1 DEF ConnectorIsLive
  <1>4. ConnectorIsThere'
    <2>1. ASSUME AtMostOne(model \cap Configures)
          PROVE  sized' \cap Configures = {}
      BY <1>1, <2>1 DEF TypeOK, AtMostOne
    <2> QED
      BY <1>1, <2>1 DEF ConnectorIsThere, AtMostOne
  <1>5. OrderedBlocksAreSet' /\ RunsInOrder'
    BY <1>1 DEF OrderedBlocksAreSet, RunsInOrder
  <1>6. ArraysAreOwned'
    <2>1. /\ stuck \subseteq stuck' /\ arrays' \subseteq arrays
          /\ holds["Configure"] \notin arrays' \/ holds["Configure"] \in stuck'
      BY DEF FreeMemory
    <2>2. connector # Null => connector \notin arrays' \/ connector \in stuck'
      BY <1>2, <2>1
    <2>3. connector = Null => connector \notin arrays'
      BY <2>1 DEF TypeOK, Null
    <2> QED
      BY <2>1, <2>2, <2>3 DEF ArraysAreOwned
  <1>7. FaultNeedsDisorder'
    <2> SUFFICES ASSUME AtMostOne(model \cap Configures)
                 PROVE  fault' = "none"
      BY <1>1 DEF FaultNeedsDisorder, AtMostOne
    <2>1. connector # Null
      BY <1>1 DEF ConnectorIsThere
    <2>2. holds[Kind(b)] # Null /\ holds[Kind(b)] \notin deleted
      BY <1>1, <1>2, <2>1
    <2>3. Access(b) \in {"gone", "none"}
      BY <2>2 DEF Access
    <2> QED
      BY <2>3
  <1> QED
    BY <1>3, <1>4, <1>5, <1>6, <1>7

(* mdlTerminate of a Send or Receive block. *)
LEMMA TerminateOtherKeepsInv ==
  ASSUME LifecycleInv, TypeOK', NEW b \in Blocks, TerminateOther(b)
  PROVE  LifecycleInv'
  <1> USE DEF LifecycleInv, TerminateOther, heap, history
  <1>1. ConnectorIsLive' /\ ConnectorIsThere'
    BY DEF ConnectorIsLive, ConnectorIsThere, AtMostOne
  <1>2. OrderedBlocksAreSet' /\ RunsInOrder' /\ ArraysAreOwned' /\ FaultNeedsDisorder'
    BY DEF OrderedBlocksAreSet, RunsInOrder, ArraysAreOwned, FaultNeedsDisorder, AtMostOne
  <1> QED
    BY <1>1, <1>2

(* The invariant is inductive. *)
LEMMA LifecycleInductive == Spec => []LifecycleInv
  <1>1. LifecycleInv /\ [Next]_vars => LifecycleInv'
    <2> SUFFICES ASSUME LifecycleInv, [Next]_vars
                 PROVE  LifecycleInv'
      OBVIOUS
    <2>1. TypeOK'
      BY TypeStep DEF LifecycleInv
    <2>2. CASE Begin \/ Run \/ Stop \/ End
      BY <2>1, <2>2, EngineKeepsInv
    <2>3. ASSUME NEW b \in Blocks, InitializeConfigure(b)
          PROVE  LifecycleInv'
      BY <2>1, <2>3, InitializeConfigureKeepsInv
    <2>4. ASSUME NEW b \in Blocks, InitializeOther(b)
          PROVE  LifecycleInv'
      BY <2>1, <2>4, InitializeOtherKeepsInv
    <2>5. ASSUME NEW b \in Blocks, Start(b) \/ Step(b) \/ RTW(b)
          PROVE  LifecycleInv'
      BY <2>1, <2>5, CallbackKeepsInv
    <2>6. ASSUME NEW b \in Blocks, TerminateConfigure(b)
          PROVE  LifecycleInv'
      BY <2>1, <2>6, TerminateConfigureKeepsInv
    <2>7. ASSUME NEW b \in Blocks, TerminateOther(b)
          PROVE  LifecycleInv'
      BY <2>1, <2>7, TerminateOtherKeepsInv
    <2>8. CASE UNCHANGED vars
      BY <2>8 DEF vars, engine, heap, history, LifecycleInv, TypeOK, ConnectorIsLive,
           ConnectorIsThere, OrderedBlocksAreSet, RunsInOrder, ArraysAreOwned,
           FaultNeedsDisorder, AtMostOne
    <2> QED
      BY <2>2, <2>3, <2>4, <2>5, <2>6, <2>7, <2>8 DEF Next
  <1> QED
    BY <1>1, InitLifecycle, PTL DEF Spec

-----------------------------------------------------------------------------
(* With at most one Configure block in the model, no callback reads through a null
   or deleted pointer, or an object of a block that is gone, unless the model runs
   with a block that was not initialised after Configure; over any number of
   simulations, for any blocks and any order of termination. *)
THEOREM StalePointersAreHarmless == Spec => []FaultNeedsDisorder
  <1>1. LifecycleInv => FaultNeedsDisorder
    BY DEF LifecycleInv
  <1> QED
    BY <1>1, LifecycleInductive, PTL

(* In a model initialised in order, the blocks all work on the static connector, which
   is alive and has its arrays. *)
THEOREM OneConnectorForAll == Spec => []BlocksShareConnector
  <1>1. LifecycleInv => BlocksShareConnector
    <2> SUFFICES ASSUME LifecycleInv, InOrder
                 PROVE  /\ connector \notin deleted /\ connector \in arrays
                        /\ \A b \in model : holds[Kind(b)] = connector
      BY DEF BlocksShareConnector
    <2>1. connector # Null /\ \A b \in model : holds[Kind(b)] = connector
      BY DEF LifecycleInv, InOrder, OrderedBlocksAreSet
    <2> QED
      BY <2>1 DEF LifecycleInv, ConnectorIsLive
  <1> QED
    BY <1>1, LifecycleInductive, PTL

(* There the object behind a block that is the only one of its kind is its own. *)
THEOREM ObjectsServeTheirBlock == Spec => []BlocksServeThemselves
  <1>1. LifecycleInv => BlocksServeThemselves
    <2> SUFFICES ASSUME LifecycleInv, InOrder, NEW b \in model,
                        AtMostOne({c \in model : Kind(c) = Kind(b)})
                 PROVE  serves[Kind(b)] = b
      BY DEF BlocksServeThemselves
    <2>1. serves[Kind(b)] \in model /\ Kind(serves[Kind(b)]) = Kind(b)
      BY DEF LifecycleInv, InOrder, OrderedBlocksAreSet
    <2> QED
      BY <2>1 DEF AtMostOne
  <1> QED
    BY <1>1, LifecycleInductive, PTL

(* Between two simulations nothing stays loaded or allocated but what a second
   Configure initialisation replaced, or what could not be unloaded. *)
THEOREM TerminationFrees == Spec => []NothingLeaks
  <1>1. LifecycleInv => NothingLeaks
    <2> SUFFICES ASSUME LifecycleInv, phase = "idle"
                 PROVE  (arrays \cup loaded) \subseteq (remade \cup stuck)
      BY DEF NothingLeaks
    <2>1. connector = Null
      BY DEF LifecycleInv, ConnectorIsLive, ConnectorIsThere
    <2>2. Null \notin arrays /\ loaded \subseteq arrays
      BY DEF LifecycleInv, TypeOK, Null
    <2> QED
      BY <2>1, <2>2 DEF LifecycleInv, ArraysAreOwned
  <1> QED
    BY <1>1, LifecycleInductive, PTL
=============================================================================
