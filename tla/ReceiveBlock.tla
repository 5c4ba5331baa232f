---------------------------- MODULE ReceiveBlock ----------------------------
(***************************************************************************)
(* The ED247 Receive block at run time: Receive::start, Receive::outputs   *)
(* and Receive::update, called by the Simulink engine, with the connector  *)
(* method receiveED247ToSimulink that Receive::outputs calls.              *)
(*                                                                         *)
(* The streams of the connector are walked in order.  ANA, DIS, NAD and    *)
(* VNAD streams go through an assistant, which delivers all the signals of *)
(* the stream or none; A429, A664 and A825 streams deliver their signals   *)
(* one by one.  Only the latter have a refresh port.  The library is the   *)
(* environment: it decides whether a frame came, which stream holds data,  *)
(* which sample is available and which call fails.                         *)
(***************************************************************************)
EXTENDS Integers

CONSTANTS
  NStreams,       (* number of output streams of the connector              *)
  NSignals,       (* number of output signals of the connector              *)
  StreamOf,       (* the stream that owns each signal                       *)
  KindOf,         (* the type of each stream, UNKNOWN if never initialised  *)
  Validity,       (* validity_duration of each signal, in time units        *)
  SampleTime,     (* ssGetSampleTime, in time units; 0 when continuous      *)
  MaxCounter,     (* MAX_COUNTER, where last_update saturates               *)
  RefreshFactor,  (* block parameter: refresh ports exist when positive     *)
  ReadMayFail     (* may ed247_stream_assistant_read_signal fail?           *)

Streams == 1 .. NStreams
Signals == 1 .. NSignals

IcdKinds  == {"A429", "A664", "A825"}
Kinds     == IcdKinds \cup {"ASSISTANT", "UNKNOWN"}

ASSUME ReceiveAssumption ==
  /\ NStreams \in Nat \ {0}
  /\ NSignals \in Nat \ {0}
  /\ StreamOf \in [Signals -> Streams]
  /\ KindOf \in [Streams -> Kinds]
  /\ Validity \in [Signals -> Nat]
  /\ SampleTime \in Nat
  /\ MaxCounter \in Nat \ {0}
  /\ RefreshFactor \in Nat
  /\ ReadMayFail \in BOOLEAN

EarlyReturns == {"STREAM_ASSISTANT_READ_SIGNAL_FAILURE",
                 "UNKNOWN_RECEIVE_STREAM_TYPE"}
Statuses == EarlyReturns \cup
  {"NONE", "RECEIVE_OK", "RECEIVE_A825_SKIP", "NO_DATA_BEFORE_TIMEOUT",
   "WAIT_FRAME_FAILURE"}

VARIABLES
  phase,       (* where the engine is: initialized, ready or output        *)
  doRefresh,   (* do_refresh of each signal: 1, or another value (0)       *)
  lastUpdate,  (* the DWork counter of each signal                         *)
  refresh,     (* the value of each refresh port                           *)
  status,      (* what the last receiveED247ToSimulink returned            *)
  age,         (* history: updates since data was last copied to the data  *)
               (*   port, MaxCounter + 1 when that is too long ago         *)
  stale        (* history: signals that receiveED247ToSimulink left alone  *)
               (*   in some call since their last copy                     *)

vars == <<phase, doRefresh, lastUpdate, refresh, status, age, stale>>

SignalsOf(i) == {s \in Signals : StreamOf[s] = i}

(* The signals with a refresh port: refresh_index is -1 for the others. *)
HasPort == {s \in Signals : RefreshFactor > 0 /\ KindOf[StreamOf[s]] \in IcdKinds}

-----------------------------------------------------------------------------
(***************************************************************************)
(* The stream loop of receiveED247ToSimulink.  It leaves the loop at       *)
(* stream stop (NStreams + 1 when it ends normally) after having assigned  *)
(* do_refresh of the signals in read.                                      *)
(***************************************************************************)

(* A stream the loop walks through: the type is known; a stream with an
   assistant that has nothing to pop is left as it is. *)
WalkThrough(i, read) ==
  /\ KindOf[i] # "UNKNOWN"
  /\ \/ SignalsOf(i) \subseteq read
     \/ KindOf[i] = "ASSISTANT" /\ SignalsOf(i) \cap read = {}

(* The stream where the loop returns early, and the status it returns. *)
LeaveLoop(i, read, ret) ==
  \/ /\ KindOf[i] = "UNKNOWN"
     /\ SignalsOf(i) \cap read = {}
     /\ ret = "UNKNOWN_RECEIVE_STREAM_TYPE"
  \/ /\ KindOf[i] = "ASSISTANT" /\ ReadMayFail
     /\ \E failed \in SignalsOf(i) :
          SignalsOf(i) \cap read = {s \in SignalsOf(i) : s < failed}
     /\ ret = "STREAM_ASSISTANT_READ_SIGNAL_FAILURE"

StreamLoop(stop, read, ret) ==
  /\ \A i \in 1 .. (stop - 1) : WalkThrough(i, read)
  /\ \A i \in (stop + 1) .. NStreams : SignalsOf(i) \cap read = {}
  /\ IF stop \in Streams THEN LeaveLoop(stop, read, ret) ELSE ret = "RECEIVE_OK"

(* ed247_wait_frame did not succeed: timeout or another status. *)
NoFrameStatus(ret) ==
  IF KindOf[1] = "A825"
  THEN ret = "RECEIVE_A825_SKIP"
  ELSE ret \in {"NO_DATA_BEFORE_TIMEOUT", "WAIT_FRAME_FAILURE"}

-----------------------------------------------------------------------------
Init ==
  /\ phase = "initialized"
  /\ doRefresh \in [Signals -> {0, 1}]   \* malloc'ed, never initialised
  /\ lastUpdate = [s \in Signals |-> 0]
  /\ refresh = [s \in HasPort |-> 0]
  /\ status = "NONE"
  /\ age = [s \in Signals |-> MaxCounter + 1]
  /\ stale = {}

(* Mistake: the counters start as if every signal had just been received. *)
StartAtZero ==
  /\ phase = "initialized"
  /\ phase' = "ready"
  /\ UNCHANGED <<lastUpdate, doRefresh, refresh, status, age, stale>>

(* Receive::start *)
Start ==
  /\ phase = "initialized"
  /\ phase' = "ready"
  /\ lastUpdate' = [s \in Signals |-> MaxCounter]
  /\ UNCHANGED <<doRefresh, refresh, status, age, stale>>

(* Mistake: the validity duration is ignored. *)
RefreshOnReceptionOnly(s, flag) == IF flag = 1 THEN 1 ELSE 0

(* The value written to the refresh port of s. *)
RefreshValue(s, flag) ==
  IF flag = 1 \/ lastUpdate[s] * SampleTime < Validity[s] THEN 1 ELSE 0

(* Mistake: a signal without a sample keeps its previous flag. *)
FlagKept(s, read, got) == IF s \in got THEN 1 ELSE doRefresh[s]

(* do_refresh of s after a call that assigned it for the signals of read and
   copied data for those of got. *)
Flag(s, read, got) ==
  IF s \in got THEN 1 ELSE IF s \in read THEN 0 ELSE doRefresh[s]

(* A continuous block is also called at minor time steps: its outputs may be
   computed several times before an update (mdlOutputs does not check for a
   major step). *)
OutputPhases == IF SampleTime = 0 THEN {"ready", "output"} ELSE {"ready"}

(* Receive::outputs once the connector has returned. *)
Outputs(read, got, ret) ==
  /\ phase \in OutputPhases
  /\ phase' = "output"
  /\ doRefresh' = [s \in Signals |-> Flag(s, read, got)]
  /\ refresh' = [s \in HasPort |-> RefreshValue(s, Flag(s, read, got))]
  /\ status' = ret
  /\ age' = [s \in Signals |-> IF s \in got THEN 0 ELSE age[s]]
  /\ stale' = (stale \cup (Signals \ read)) \ got
  /\ UNCHANGED lastUpdate

(* A frame was received: the loop copies the samples it finds. *)
OutputsFrame ==
  \E stop \in 1 .. (NStreams + 1), read \in SUBSET Signals, ret \in Statuses :
    /\ StreamLoop(stop, read, ret)
    /\ \E got \in SUBSET read : Outputs(read, got, ret)

(* Mistake: the flags are left as they are. *)
OutputsNoFrameLazily ==
  \E ret \in Statuses : NoFrameStatus(ret) /\ Outputs({}, {}, ret)

(* No frame: every do_refresh is cleared. *)
OutputsNoFrame ==
  \E ret \in Statuses : NoFrameStatus(ret) /\ Outputs(Signals, {}, ret)

(* Mistakes: no reset on reception, a counter that wraps, no saturation. *)
CounterWithoutReset(s) ==
  IF lastUpdate[s] < MaxCounter THEN lastUpdate[s] + 1 ELSE lastUpdate[s]

CounterWrapping(s) ==
  IF doRefresh[s] = 1 THEN 0 ELSE (lastUpdate[s] + 1) % (MaxCounter + 1)

CounterUnbounded(s) == IF doRefresh[s] = 1 THEN 0 ELSE lastUpdate[s] + 1

(* last_update of s after Receive::update. *)
Counter(s) ==
  IF doRefresh[s] = 1 THEN 0
  ELSE IF lastUpdate[s] < MaxCounter THEN lastUpdate[s] + 1
  ELSE lastUpdate[s]

(* Receive::update *)
Update ==
  /\ phase = "output"
  /\ phase' = "ready"
  /\ lastUpdate' = [s \in Signals |-> Counter(s)]
  /\ age' = [s \in Signals |-> IF age[s] <= MaxCounter THEN age[s] + 1 ELSE age[s]]
  /\ UNCHANGED <<doRefresh, refresh, status, stale>>

Next == Start \/ OutputsFrame \/ OutputsNoFrame \/ Update

Spec == Init /\ [][Next]_vars

(* The engine keeps running the model: it does not stop between two calls, and
   it calls update again after finitely many minor steps. *)
Fairness ==
  /\ WF_vars(Start)
  /\ WF_vars(OutputsFrame \/ OutputsNoFrame)
  /\ WF_vars(Update)

FairSpec == Spec /\ Fairness

-----------------------------------------------------------------------------
(* Every variable stays in its domain; in particular the uint32 counters never
   pass MAX_COUNTER (Receive::update saturates them). *)
TypeOK ==
  /\ phase \in {"initialized", "ready", "output"}
  /\ doRefresh \in [Signals -> {0, 1}]
  /\ lastUpdate \in [Signals -> 0 .. MaxCounter]
  /\ refresh \in [HasPort -> {0, 1}]
  /\ status \in Statuses
  /\ age \in [Signals -> 0 .. (MaxCounter + 1)]
  /\ stale \in SUBSET Signals

(* The last copy of s is recent enough for its validity duration, with the one
   period of tolerance of the block. *)
Recent(s) == age[s] = 0 \/ (age[s] - 1) * SampleTime < Validity[s]

(* Receive::outputs never sets a refresh port for data that is older than the
   validity duration (plus one period), unless some call of
   receiveED247ToSimulink returned before it looked at that signal. *)
RefreshSound ==
  phase = "output" => \A s \in HasPort \ stale : refresh[s] = 1 => Recent(s)

(* With a discrete sample time a refresh port is set whenever data was copied in
   this step or within the validity duration: no reception is missed, even by a
   call that returns early. *)
RefreshComplete ==
  SampleTime > 0 /\ phase = "output" =>
    \A s \in HasPort : Recent(s) => refresh[s] = 1

(* The saturation of the counter never makes a signal that was not received in
   the last MaxCounter periods look fresh, provided the validity durations can
   be counted. *)
ValidityCountable == \A s \in Signals : Validity[s] <= MaxCounter * SampleTime

RefreshMeansReceived ==
  ValidityCountable /\ phase = "output" =>
    \A s \in HasPort \ stale : refresh[s] = 1 => age[s] <= MaxCounter

(* Only a call that returns from the middle of the stream loop can leave the
   flag of a signal with a refresh port as it was: every other call of
   receiveED247ToSimulink, failures of ed247_wait_frame included, decides it. *)
StaleOnlyAfterEarlyReturn ==
  [][\A s \in HasPort : s \in stale' \ stale => status' \in EarlyReturns]_vars

(* A signal whose stream goes silent is eventually reported as not refreshed,
   and stays so, as long as the engine keeps calling the block. *)
Silent(s) == age[s] # 0 /\ s \notin stale

SilenceIsDetected ==
  ValidityCountable =>
    \A s \in HasPort : <>[]Silent(s) => <>[](refresh[s] = 0)

(* A discrete sample time, and no cause for an early return. *)
Nominal ==
  SampleTime > 0 /\ ~ReadMayFail /\ \A i \in Streams : KindOf[i] # "UNKNOWN"

Promise == INSTANCE Freshness WITH
  Ports <- HasPort,
  MaxElapsed <- MaxCounter + 1,
  elapsed <- [s \in HasPort |-> age[s]],
  fresh <- [s \in HasPort |-> refresh[s] = 1]

(* In Nominal conditions the flags, counters and loops of the block keep the
   abstract promise of Freshness at every step. *)
KeepsPromise == Promise!Spec
=============================================================================
