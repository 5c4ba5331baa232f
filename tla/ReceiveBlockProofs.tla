------------------------- MODULE ReceiveBlockProofs -------------------------
(***************************************************************************)
(* Proofs about ReceiveBlock for every number of streams and signals,      *)
(* every layout, period, validity duration and saturation bound; and that  *)
(* the generated code of the block (GeneratedCode) gives its refresh ports *)
(* the values that the S-function gives them.                              *)
(***************************************************************************)
EXTENDS GeneratedCode, TLAPS

(* Multiplying by the sample time keeps the order of two counters: used
   wherever a time is compared to a validity duration. *)
LEMMA TimesMonotonic ==
  ASSUME NEW a \in Nat, NEW b \in Nat, NEW t \in Nat, a <= b
  PROVE  a * t <= b * t
  <1> DEFINE d == b - a
  <1>1. d \in Nat /\ b = a + d
    OBVIOUS
  <1>2. b * t = a * t + d * t
    BY <1>1
  <1>3. d * t >= 0
    BY <1>1
  <1> QED
    BY <1>1, <1>2, <1>3

(* A counter that is behind another one stays within every duration the other
   one is within. *)
LEMMA RecentEnough ==
  ASSUME NEW a \in Nat, NEW b \in Nat, NEW t \in Nat, NEW v \in Nat,
         a <= b, b * t < v
  PROVE  a * t < v
  <1>1. a * t <= b * t
    BY TimesMonotonic
  <1>2. a * t \in Nat /\ b * t \in Nat
    OBVIOUS
  <1> QED
    BY <1>1, <1>2

(* The flag of a signal after a call is again 0 or 1. *)
LEMMA FlagType ==
  ASSUME TypeOK, NEW s \in Signals, NEW read, NEW got
  PROVE  Flag(s, read, got) \in {0, 1}
  BY DEF TypeOK, Flag

(* Receive::update keeps the counters below MAX_COUNTER. *)
LEMMA CounterType ==
  ASSUME TypeOK, NEW s \in Signals
  PROVE  Counter(s) \in 0 .. MaxCounter
  BY ReceiveAssumption DEF TypeOK, Counter

(* Every frame step is an Outputs step for some sets of read and copied
   signals; so is a step without a frame. *)
LEMMA OutputsCases ==
  ASSUME OutputsFrame \/ OutputsNoFrame
  PROVE  \E read \in SUBSET Signals, ret \in Statuses :
           \E got \in SUBSET read : Outputs(read, got, ret)
  BY DEF OutputsFrame, OutputsNoFrame

(* The variables start in their domains. *)
LEMMA TypeCorrectInit == Init => TypeOK
  BY ReceiveAssumption DEF Init, TypeOK, Statuses

(* Type correctness of the Receive block. *)
THEOREM TypeCorrect == Spec => []TypeOK
<1>1. Init => TypeOK
  BY TypeCorrectInit
<1>2. TypeOK /\ [Next]_vars => TypeOK'
  <2> SUFFICES ASSUME TypeOK, [Next]_vars PROVE TypeOK'
    OBVIOUS
  <2>1. CASE Start
    BY <2>1, ReceiveAssumption DEF Start, TypeOK
  <2>2. CASE OutputsFrame \/ OutputsNoFrame
    <3>1. PICK read \in SUBSET Signals, ret \in Statuses :
            \E got \in SUBSET read : Outputs(read, got, ret)
      BY <2>2, OutputsCases
    <3>2. PICK got \in SUBSET read : Outputs(read, got, ret)
      BY <3>1
    <3>3. doRefresh' \in [Signals -> {0, 1}]
      BY <3>2, FlagType DEF Outputs
    <3>4. refresh' \in [HasPort -> {0, 1}]
      BY <3>2 DEF Outputs, RefreshValue
    <3>5. age' \in [Signals -> 0 .. (MaxCounter + 1)]
      BY <3>2, ReceiveAssumption DEF Outputs, TypeOK
    <3> QED
      BY <3>2, <3>3, <3>4, <3>5 DEF Outputs, TypeOK
  <2>3. CASE Update
    <3>1. lastUpdate' \in [Signals -> 0 .. MaxCounter]
      BY <2>3, CounterType DEF Update
    <3>2. age' \in [Signals -> 0 .. (MaxCounter + 1)]
      BY <2>3, ReceiveAssumption DEF Update, TypeOK
    <3> QED
      BY <2>3, <3>1, <3>2 DEF Update, TypeOK
  <2>4. CASE UNCHANGED vars
    BY <2>4 DEF vars, TypeOK
  <2> QED
    BY <2>1, <2>2, <2>3, <2>4 DEF Next
<1> QED
  BY <1>1, <1>2, PTL DEF Spec

-----------------------------------------------------------------------------
(***************************************************************************)
(* Soundness of the refresh ports.  RefreshSound is not inductive: it      *)
(* needs that the counter of a signal never runs ahead of the real age of  *)
(* its data, and that a flag that is set stands for data copied in this    *)
(* step.                                                                   *)
(***************************************************************************)
CounterBehindAge ==
  phase # "initialized" =>
    \A s \in HasPort \ stale : age[s] <= lastUpdate[s] + 1

FlagMeansCopied ==
  phase = "output" => \A s \in HasPort \ stale : doRefresh[s] = 1 => age[s] = 0

SoundInv == TypeOK /\ CounterBehindAge /\ FlagMeansCopied /\ RefreshSound

(* A signal that is not stale after a call had data copied, or was not stale
   before and had its flag cleared. *)
LEMMA NotStaleCases ==
  ASSUME NEW read \in SUBSET Signals, NEW got \in SUBSET read, NEW ret,
         Outputs(read, got, ret), NEW s \in HasPort \ stale'
  PROVE  \/ s \in got /\ age'[s] = 0
         \/ /\ s \in read \ got /\ s \notin stale
            /\ age'[s] = age[s]
            /\ doRefresh'[s] = 0
            /\ refresh'[s] = RefreshValue(s, 0)
  BY DEF Outputs, Flag, HasPort

(* Receive::outputs keeps the invariant for soundness, wherever it returns. *)
LEMMA SoundOutputs ==
  ASSUME SoundInv, TypeOK',
         NEW read \in SUBSET Signals, NEW got \in SUBSET read, NEW ret,
         Outputs(read, got, ret)
  PROVE  SoundInv'
<1>1. phase # "initialized" /\ phase' = "output" /\ lastUpdate' = lastUpdate
  BY DEF Outputs, OutputPhases
<1>2. ASSUME NEW s \in HasPort \ stale'
      PROVE  /\ age'[s] <= lastUpdate'[s] + 1
             /\ doRefresh'[s] = 1 => age'[s] = 0
             /\ refresh'[s] = 1 => Recent(s)'
  <2>0. s \in Signals
    BY DEF HasPort
  <2>1. CASE s \in got /\ age'[s] = 0
    BY <1>1, <2>0, <2>1, ReceiveAssumption DEF SoundInv, TypeOK, Recent
  <2>2. CASE /\ s \in read \ got /\ s \notin stale
             /\ age'[s] = age[s]
             /\ doRefresh'[s] = 0
             /\ refresh'[s] = RefreshValue(s, 0)
    <3>1. age[s] <= lastUpdate[s] + 1
      BY <1>1, <2>2 DEF SoundInv, CounterBehindAge
    <3>2. ASSUME refresh'[s] = 1, age[s] # 0
          PROVE  (age[s] - 1) * SampleTime < Validity[s]
      <4>1. lastUpdate[s] * SampleTime < Validity[s]
        BY <2>2, <3>2 DEF RefreshValue
      <4>2. age[s] - 1 \in Nat /\ lastUpdate[s] \in Nat /\ SampleTime \in Nat
            /\ Validity[s] \in Nat
        BY <2>0, <3>2, ReceiveAssumption DEF SoundInv, TypeOK
      <4>3. age[s] - 1 <= lastUpdate[s]
        BY <2>0, <3>1, <4>2, ReceiveAssumption DEF SoundInv, TypeOK
      <4> QED
        BY <4>1, <4>2, <4>3, RecentEnough
    <3> QED
      BY <1>1, <2>2, <3>1, <3>2 DEF Recent
  <2> QED
    BY <2>1, <2>2, NotStaleCases
<1> QED
  BY <1>1, <1>2 DEF SoundInv, CounterBehindAge, FlagMeansCopied, RefreshSound, HasPort

(* So does Receive::update: the counter and the age grow together. *)
LEMMA SoundUpdate ==
  ASSUME SoundInv, TypeOK', Update
  PROVE  SoundInv'
<1>1. ASSUME NEW s \in HasPort \ stale
      PROVE  age'[s] <= lastUpdate'[s] + 1
  <2>1. s \in Signals
    BY DEF HasPort
  <2>2. age[s] <= lastUpdate[s] + 1 /\ (doRefresh[s] = 1 => age[s] = 0)
    BY DEF SoundInv, CounterBehindAge, FlagMeansCopied, Update
  <2> QED
    BY <2>1, <2>2, ReceiveAssumption DEF Update, Counter, SoundInv, TypeOK
<1> QED
  BY <1>1 DEF SoundInv, CounterBehindAge, FlagMeansCopied, RefreshSound, Update, HasPort

(* The refresh ports are sound, whatever the layout of the streams and
   whichever calls fail. *)
THEOREM RefreshIsSound == Spec => []RefreshSound
<1>1. Init => SoundInv
  BY TypeCorrectInit DEF Init, SoundInv, CounterBehindAge, FlagMeansCopied, RefreshSound
<1>2. SoundInv /\ TypeOK' /\ [Next]_vars => SoundInv'
  <2> SUFFICES ASSUME SoundInv, TypeOK', [Next]_vars PROVE SoundInv'
    OBVIOUS
  <2>1. CASE Start
    BY <2>1, ReceiveAssumption
       DEF Start, SoundInv, TypeOK, CounterBehindAge, FlagMeansCopied, RefreshSound, HasPort
  <2>2. CASE OutputsFrame \/ OutputsNoFrame
    BY <2>2, OutputsCases, SoundOutputs
  <2>3. CASE Update
    BY <2>3, SoundUpdate
  <2>4. CASE UNCHANGED vars
    BY <2>4 DEF vars, SoundInv, CounterBehindAge, FlagMeansCopied, RefreshSound, Recent, HasPort
  <2> QED
    BY <2>1, <2>2, <2>3, <2>4 DEF Next
<1>3. SoundInv => RefreshSound
  BY DEF SoundInv
<1> QED
  BY <1>1, <1>2, <1>3, TypeCorrect, PTL DEF Spec

(* What the last copy of a signal says about its refresh port can be counted:
   a refresh port that is set stands for data copied at most MaxCounter periods
   ago. *)
THEOREM RefreshIsBacked == Spec => []RefreshMeansReceived
<1>1. TypeOK /\ RefreshSound => RefreshMeansReceived
  <2> SUFFICES ASSUME TypeOK, RefreshSound, ValidityCountable, phase = "output",
                      NEW s \in HasPort \ stale, refresh[s] = 1, age[s] = MaxCounter + 1
               PROVE  FALSE
    BY ReceiveAssumption DEF RefreshMeansReceived, TypeOK, HasPort
  <2>1. s \in Signals
    BY DEF HasPort
  <2>2. (age[s] - 1) * SampleTime < Validity[s]
    BY ReceiveAssumption DEF RefreshSound, Recent
  <2>3. age[s] - 1 = MaxCounter
    BY ReceiveAssumption
  <2>4. MaxCounter * SampleTime < Validity[s]
    BY <2>2, <2>3
  <2>5. Validity[s] <= MaxCounter * SampleTime
    BY <2>1 DEF ValidityCountable
  <2>6. MaxCounter * SampleTime \in Nat /\ Validity[s] \in Nat
    BY <2>1, ReceiveAssumption
  <2> QED
    BY <2>4, <2>5, <2>6
<1> QED
  BY <1>1, TypeCorrect, RefreshIsSound, PTL

-----------------------------------------------------------------------------
(***************************************************************************)
(* Completeness of the refresh ports, for a discrete sample time: the      *)
(* counter never falls behind the age, and a copy of this step is flagged. *)
(***************************************************************************)
CounterAheadOfAge ==
  \A s \in Signals :
    IF age[s] = 0 THEN phase = "output" /\ doRefresh[s] = 1
                  ELSE lastUpdate[s] <= age[s] - 1

NothingCopiedYet ==
  phase = "initialized" => \A s \in Signals : age[s] = MaxCounter + 1

CompleteInv == TypeOK /\ CounterAheadOfAge /\ NothingCopiedYet /\ RefreshComplete

(* Receive::outputs keeps the invariant for completeness, wherever it returns. *)
LEMMA CompleteOutputs ==
  ASSUME CompleteInv, TypeOK', SampleTime > 0,
         NEW read \in SUBSET Signals, NEW got \in SUBSET read, NEW ret,
         Outputs(read, got, ret)
  PROVE  CompleteInv'
<1>1. phase = "ready" /\ phase' = "output" /\ lastUpdate' = lastUpdate
  BY DEF Outputs, OutputPhases
<1>2. ASSUME NEW s \in Signals
      PROVE  \/ s \in got /\ age'[s] = 0 /\ doRefresh'[s] = 1
             \/ s \notin got /\ age'[s] = age[s] /\ age[s] # 0
                /\ lastUpdate[s] <= age[s] - 1
  BY <1>1 DEF Outputs, Flag, CompleteInv, CounterAheadOfAge
<1>3. CounterAheadOfAge'
  BY <1>1, <1>2 DEF CounterAheadOfAge
<1>4. ASSUME NEW s \in HasPort, Recent(s)'
      PROVE  refresh'[s] = 1
  <2>1. s \in Signals
    BY DEF HasPort
  <2>2. refresh'[s] = RefreshValue(s, doRefresh'[s])
    BY <2>1 DEF Outputs
  <2>3. CASE s \in got
    BY <1>2, <2>1, <2>2, <2>3 DEF RefreshValue
  <2>4. CASE s \notin got
    <3>1. age'[s] = age[s] /\ age[s] # 0 /\ lastUpdate[s] <= age[s] - 1
      BY <1>2, <2>1, <2>4
    <3>2. (age[s] - 1) * SampleTime < Validity[s]
      BY <1>4, <3>1 DEF Recent
    <3>3. age[s] - 1 \in Nat /\ lastUpdate[s] \in Nat /\ SampleTime \in Nat
          /\ Validity[s] \in Nat
      BY <2>1, <3>1, ReceiveAssumption DEF CompleteInv, TypeOK
    <3>4. lastUpdate[s] * SampleTime < Validity[s]
      BY <3>1, <3>2, <3>3, RecentEnough
    <3> QED
      BY <2>2, <3>4 DEF RefreshValue
  <2> QED
    BY <2>3, <2>4
<1> QED
  BY <1>1, <1>3, <1>4 DEF CompleteInv, RefreshComplete, NothingCopiedYet

(* With a discrete sample time no reception is missed: not when the counter
   saturates, not after a call that returned early. *)
THEOREM RefreshIsComplete == Spec => []RefreshComplete
<1>1. CASE SampleTime = 0
  <2>1. RefreshComplete
    BY <1>1 DEF RefreshComplete
  <2> QED
    BY <2>1, PTL
<1>2. CASE SampleTime # 0
  <2>0. SampleTime > 0
    BY <1>2, ReceiveAssumption
  <2>1. Init => CompleteInv
    BY TypeCorrectInit, ReceiveAssumption
       DEF Init, CompleteInv, CounterAheadOfAge, NothingCopiedYet, RefreshComplete
  <2>2. CompleteInv /\ TypeOK' /\ [Next]_vars => CompleteInv'
    <3> SUFFICES ASSUME CompleteInv, TypeOK', [Next]_vars PROVE CompleteInv'
      OBVIOUS
    <3>1. CASE Start
      BY <3>1, ReceiveAssumption
         DEF Start, CompleteInv, TypeOK, CounterAheadOfAge, NothingCopiedYet, RefreshComplete
    <3>2. CASE OutputsFrame \/ OutputsNoFrame
      BY <3>2, <2>0, OutputsCases, CompleteOutputs
    <3>3. CASE Update
      <4>1. ASSUME NEW s \in Signals
            PROVE  age'[s] # 0 /\ lastUpdate'[s] <= age'[s] - 1
        BY <3>3, ReceiveAssumption
           DEF Update, Counter, CompleteInv, TypeOK, CounterAheadOfAge
      <4> QED
        BY <3>3, <4>1 DEF CompleteInv, CounterAheadOfAge, NothingCopiedYet, RefreshComplete, Update
    <3>4. CASE UNCHANGED vars
      BY <3>4 DEF vars, CompleteInv, CounterAheadOfAge, NothingCopiedYet, RefreshComplete, Recent
    <3> QED
      BY <3>1, <3>2, <3>3, <3>4 DEF Next
  <2>3. CompleteInv => RefreshComplete
    BY DEF CompleteInv
  <2> QED
    BY <2>1, <2>2, <2>3, TypeCorrect, PTL DEF Spec
<1> QED
  BY <1>1, <1>2

-----------------------------------------------------------------------------
(***************************************************************************)
(* The stream loop: a call that does not return early decides the flag of  *)
(* every signal that has a refresh port.                                   *)
(***************************************************************************)
LEMMA WholeLoopReadsPorts ==
  ASSUME NEW stop \in 1 .. (NStreams + 1), NEW read \in SUBSET Signals, NEW ret,
         StreamLoop(stop, read, ret), ret \notin EarlyReturns
  PROVE  HasPort \subseteq read
<1>1. stop = NStreams + 1
  <2> SUFFICES ASSUME stop \in Streams PROVE FALSE
    BY ReceiveAssumption DEF Streams
  <2>1. LeaveLoop(stop, read, ret)
    BY DEF StreamLoop
  <2> QED
    BY <2>1 DEF LeaveLoop, EarlyReturns
<1>2. ASSUME NEW s \in HasPort
      PROVE  s \in read
  <2>1. s \in Signals /\ StreamOf[s] \in Streams /\ KindOf[StreamOf[s]] # "ASSISTANT"
    BY ReceiveAssumption DEF HasPort, IcdKinds
  <2>2. StreamOf[s] \in 1 .. (stop - 1)
    BY <1>1, <2>1, ReceiveAssumption DEF Streams
  <2>3. WalkThrough(StreamOf[s], read)
    BY <2>2 DEF StreamLoop
  <2> QED
    BY <2>1, <2>3 DEF WalkThrough, SignalsOf
<1> QED
  BY <1>2

(* A refresh flag is left undecided by early returns only. *)
THEOREM StaleNeedsEarlyReturn == Spec => StaleOnlyAfterEarlyReturn
<1>1. [Next]_vars =>
        [\A s \in HasPort : s \in stale' \ stale => status' \in EarlyReturns]_vars
  <2> SUFFICES ASSUME Next, NEW s \in HasPort, s \in stale' \ stale,
                      status' \notin EarlyReturns
               PROVE  FALSE
    OBVIOUS
  <2>1. CASE Start
    BY <2>1 DEF Start
  <2>2. CASE OutputsFrame
    <3>1. PICK stop \in 1 .. (NStreams + 1), read \in SUBSET Signals, ret \in Statuses :
            StreamLoop(stop, read, ret) /\ \E got \in SUBSET read : Outputs(read, got, ret)
      BY <2>2 DEF OutputsFrame
    <3>2. ret \notin EarlyReturns /\ s \notin read
      BY <3>1 DEF Outputs
    <3> QED
      BY <3>1, <3>2, WholeLoopReadsPorts
  <2>3. CASE OutputsNoFrame
    BY <2>3 DEF OutputsNoFrame, Outputs, HasPort
  <2>4. CASE Update
    BY <2>4 DEF Update
  <2> QED
    BY <2>1, <2>2, <2>3, <2>4 DEF Next
<1> QED
  BY <1>1, PTL DEF Spec, StaleOnlyAfterEarlyReturn

(* In nominal conditions no refresh flag is ever left undecided. *)
LEMMA NominalNeverStale ==
  ASSUME Nominal
  PROVE  Spec => [](HasPort \cap stale = {})
<1>1. Init => HasPort \cap stale = {}
  BY DEF Init
<1>2. HasPort \cap stale = {} /\ [Next]_vars => (HasPort \cap stale = {})'
  <2> SUFFICES ASSUME HasPort \cap stale = {}, [Next]_vars
               PROVE  HasPort \cap stale' = {}
    BY DEF HasPort
  <2>1. CASE OutputsFrame
    <3>1. PICK stop \in 1 .. (NStreams + 1), read \in SUBSET Signals, ret \in Statuses :
            StreamLoop(stop, read, ret) /\ \E got \in SUBSET read : Outputs(read, got, ret)
      BY <2>1 DEF OutputsFrame
    <3>2. stop \notin Streams
      BY <3>1 DEF StreamLoop, LeaveLoop, Nominal
    <3>3. ret \notin EarlyReturns
      BY <3>1, <3>2 DEF StreamLoop, EarlyReturns
    <3> QED
      BY <3>1, <3>3, WholeLoopReadsPorts DEF Outputs
  <2>2. CASE OutputsNoFrame
    BY <2>2 DEF OutputsNoFrame, Outputs, HasPort
  <2>3. CASE Start \/ Update \/ UNCHANGED vars
    BY <2>3 DEF Start, Update, vars
  <2> QED
    BY <2>1, <2>2, <2>3 DEF Next
<1> QED
  BY <1>1, <1>2, PTL DEF Spec

-----------------------------------------------------------------------------
(***************************************************************************)
(* The block implements Freshness.  An output step delivers to the ports   *)
(* whose data was copied; an update lets one period elapse; start and the  *)
(* steps that touch only flags and counters are invisible.                 *)
(***************************************************************************)
PromiseInv == TypeOK /\ RefreshSound /\ RefreshComplete /\ HasPort \cap stale = {}

(* Receive::outputs is a delivery of Freshness to the ports whose data was copied. *)
LEMMA OutputsDelivers ==
  ASSUME Nominal, PromiseInv, PromiseInv',
         NEW read \in SUBSET Signals, NEW got \in SUBSET read, NEW ret,
         Outputs(read, got, ret)
  PROVE  Promise!Deliver(got \cap HasPort)
<1>1. phase' = "output" /\ SampleTime > 0
  BY DEF Outputs, Nominal
<1>2. ASSUME NEW s \in HasPort
      PROVE  /\ age'[s] = IF s \in got THEN 0 ELSE age[s]
             /\ (refresh'[s] = 1) <=> Recent(s)'
  <2>1. s \notin stale'
    BY DEF PromiseInv, HasPort
  <2>2. (refresh'[s] = 1) <=> Recent(s)'
    BY <1>1, <2>1 DEF PromiseInv, RefreshSound, RefreshComplete, HasPort
  <2> QED
    BY <2>2 DEF Outputs, HasPort
<1>3. ASSUME NEW s \in HasPort
      PROVE  Recent(s)' <=> s \in got \cap HasPort \/ Recent(s)
  BY <1>2 DEF Recent
<1>4. [s \in HasPort |-> age'[s]] =
        [p \in HasPort |-> IF p \in got \cap HasPort
                            THEN 0 ELSE [s \in HasPort |-> age[s]][p]]
  BY <1>2
<1>5. [s \in HasPort |-> refresh'[s] = 1] =
        [p \in HasPort |-> p \in got \cap HasPort \/ Recent(p)]
  BY <1>2, <1>3
<1>6. ASSUME NEW p \in HasPort
      PROVE  Promise!Recent(p) <=> Recent(p)
  BY DEF Promise!Recent, Recent
<1> QED
  BY <1>4, <1>5, <1>6 DEF Promise!Deliver, HasPort

(* Receive::update lets one period of Freshness elapse. *)
LEMMA UpdateAdvances ==
  ASSUME TypeOK, Update
  PROVE  Promise!Advance
<1>1. ASSUME NEW s \in HasPort
      PROVE  age'[s] = IF age[s] < MaxCounter + 1 THEN age[s] + 1 ELSE age[s]
  BY ReceiveAssumption DEF Update, TypeOK, HasPort
<1> QED
  BY <1>1 DEF Promise!Advance, Update, HasPort

(* In nominal conditions the Receive block implements Freshness: its refresh
   ports say exactly whether data arrived recently enough. *)
THEOREM ReceiveImplementsFreshness ==
  ASSUME Nominal
  PROVE  Spec => KeepsPromise
<1>1. Init => Promise!Init
  <2>1. ASSUME Init, NEW s \in HasPort
        PROVE  age[s] = MaxCounter + 1 /\ ~(refresh[s] = 1)
    BY <2>1 DEF Init, HasPort
  <2> QED
    BY <2>1 DEF Promise!Init
<1>2. PromiseInv /\ PromiseInv' /\ [Next]_vars => [Promise!Next]_(Promise!vars)
  <2> SUFFICES ASSUME PromiseInv, PromiseInv', [Next]_vars
               PROVE  [Promise!Next]_(Promise!vars)
    OBVIOUS
  <2>1. CASE Start
    BY <2>1 DEF Start, Promise!vars, HasPort
  <2>2. CASE OutputsFrame \/ OutputsNoFrame
    <3>1. PICK read \in SUBSET Signals, ret \in Statuses :
            \E got \in SUBSET read : Outputs(read, got, ret)
      BY <2>2, OutputsCases
    <3>2. PICK got \in SUBSET read : Outputs(read, got, ret)
      BY <3>1
    <3>3. Promise!Deliver(got \cap HasPort)
      BY <3>2, OutputsDelivers
    <3> QED
      BY <3>3 DEF Promise!Next
  <2>3. CASE Update
    BY <2>3, UpdateAdvances DEF PromiseInv, Promise!Next
  <2>4. CASE UNCHANGED vars
    BY <2>4 DEF vars, Promise!vars, HasPort
  <2> QED
    BY <2>1, <2>2, <2>3, <2>4 DEF Next
<1>3. Spec => []PromiseInv
  BY TypeCorrect, RefreshIsSound, RefreshIsComplete, NominalNeverStale, PTL DEF PromiseInv
<1> QED
  BY <1>1, <1>2, <1>3, PTL DEF Spec, KeepsPromise, Promise!Spec

-----------------------------------------------------------------------------
(***************************************************************************)
(* The generated code beside the S-function.                               *)
(***************************************************************************)
(* The two agree because their counters do, for the signals with a port. *)
Lockstep ==
  /\ \A s \in HasPort : dwork[s] = lastUpdate[s]
  /\ GeneratedAgrees

(* At first all counters are the same. *)
LEMMA LockstepInit == GenInit => Lockstep
  BY DEF GenInit, Init, Lockstep, GeneratedAgrees, HasPort

(* One call of Receive::outputs and of the generated ReceiveOutputs. *)
LEMMA LockstepOutputs ==
  ASSUME Lockstep, ReceiveOutputs
  PROVE  Lockstep'
  <1>1. PICK read, got, ret : Outputs(read, got, ret)
    BY DEF ReceiveOutputs, OutputsFrame, OutputsNoFrame
  <1>2. lastUpdate' = lastUpdate /\ dwork' = dwork
    BY <1>1 DEF Outputs, ReceiveOutputs
  <1>3. ASSUME NEW s \in HasPort
        PROVE  GeneratedRefresh(s) = RefreshValue(s, Flag(s, read, got))
    <2>1. doRefresh'[s] = Flag(s, read, got)
      BY <1>1 DEF Outputs, HasPort
    <2>2. dwork[s] = lastUpdate[s]
      BY DEF Lockstep
    <2> QED
      BY <2>1, <2>2 DEF GeneratedRefresh, RefreshValue
  <1>4. port' = [s \in HasPort |-> GeneratedRefresh(s)]
    BY DEF ReceiveOutputs
  <1>5. refresh' = [s \in HasPort |-> RefreshValue(s, Flag(s, read, got))]
    BY <1>1 DEF Outputs
  <1> QED
    BY <1>2, <1>3, <1>4, <1>5 DEF Lockstep, GeneratedAgrees

(* One call of Receive::update and of the generated ReceiveUpdate. *)
LEMMA LockstepUpdate ==
  ASSUME Lockstep, ReceiveUpdate
  PROVE  Lockstep'
  <1>1. port' = port /\ refresh' = refresh
    BY DEF ReceiveUpdate, Update
  <1>2. ASSUME NEW s \in HasPort
        PROVE  dwork'[s] = lastUpdate'[s]
    <2>1. dwork[s] = lastUpdate[s] /\ s \in Signals
      BY DEF Lockstep, HasPort
    <2>2. dwork'[s] = GeneratedCounter(s) /\ lastUpdate'[s] = Counter(s)
      BY <2>1 DEF ReceiveUpdate, Update
    <2> QED
      BY <2>1, <2>2 DEF GeneratedCounter, Counter
  <1> QED
    BY <1>1, <1>2 DEF Lockstep, GeneratedAgrees

(* The refresh ports of the generated code and of the S-function agree after every
   call, whatever the library delivers and whichever call fails. *)
THEOREM GeneratedCodeAgrees == GenSpec => []GeneratedAgrees
  <1>1. Lockstep /\ [GenNext]_genVars => Lockstep'
    <2> SUFFICES ASSUME Lockstep, [GenNext]_genVars
                 PROVE  Lockstep'
      OBVIOUS
    <2>1. CASE ReceiveStart
      BY <2>1 DEF ReceiveStart, Start, Lockstep, GeneratedAgrees, HasPort
    <2>2. CASE ReceiveOutputs
      BY <2>2, LockstepOutputs
    <2>3. CASE ReceiveUpdate
      BY <2>3, LockstepUpdate
    <2>4. CASE UNCHANGED genVars
      BY <2>4 DEF genVars, vars, Lockstep, GeneratedAgrees
    <2> QED
      BY <2>1, <2>2, <2>3, <2>4 DEF GenNext
  <1>2. Lockstep => GeneratedAgrees
    BY DEF Lockstep
  <1> QED
    BY <1>1, <1>2, LockstepInit, PTL DEF GenSpec
=============================================================================
