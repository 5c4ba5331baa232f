---------------------------- MODULE Transmission ----------------------------
(***************************************************************************)
(* A sending simulation and a receiving one, connected by ED247.  The      *)
(* sender runs Send::outputs with sendSimulinkToED247, the receiver runs   *)
(* receiveED247ToSimulink; they are separate processes and share only the  *)
(* frames in flight.                                                       *)
(*                                                                         *)
(* Signal <<i, j>> is streams[i].signals[j] of both connectors.  An ANA,   *)
(* DIS, NAD or VNAD stream (ASSISTANT) carries its signals together in one *)
(* sample.  An A429, A664 or A825 stream carries one sample per signal     *)
(* whose refresh port is set, and a sample does not say whose it is.       *)
(*                                                                         *)
(* The library (external) keeps the pushed samples of a stream until       *)
(* ed247_send_pushed_samples puts them in a frame of the stream's channel, *)
(* and the samples of a received frame until they are popped.  A channel   *)
(* has sockets of its own: its frames are lost and arrive independently of *)
(* those of other channels.                                                *)
(*                                                                         *)
(* The receive loop may return from the middle: at a stream of unknown     *)
(* type, or where an assistant fails to read a signal.                     *)
(***************************************************************************)
EXTENDS Naturals, Sequences

CONSTANTS
  NStreams,       (* number of streams                                       *)
  Size,           (* number of signals of each stream                        *)
  KindOf,         (* the type of each stream                                 *)
  ChannelOf,      (* the channel of each stream                              *)
  MayRefuse,      (* streams where the library may refuse a sample: an A825  *)
                  (*   stream of direction IN is an input of the block too   *)
  MayNotRead,     (* streams whose assistant may fail to read a signal       *)
  MayBeUnknown,   (* streams that the receiver may have counted and not      *)
                  (*   filled, because it got no assistant for them          *)
  EnableRefresh,  (* parameter of the Send block: are there refresh ports?   *)
  MaxSends        (* bound: number of Send::outputs                          *)

Streams == 1 .. NStreams
Kinds   == {"ASSISTANT", "A429", "A664", "A825"}

Assisted == {i \in Streams : KindOf[i] = "ASSISTANT"}
Channels == {ChannelOf[i] : i \in Streams}

ASSUME TransmissionAssumption ==
  /\ NStreams \in Nat \ {0}
  /\ Size \in [Streams -> Nat \ {0}]
  /\ KindOf \in [Streams -> Kinds]
  /\ MayRefuse \subseteq Streams
  /\ MayNotRead \subseteq Assisted
  /\ MayBeUnknown \subseteq Assisted
  /\ EnableRefresh \in BOOLEAN
  /\ MaxSends \in Nat

Signals == UNION {{i} \X (1 .. Size[i]) : i \in Streams}

(* What a sample holds: the send it comes from and the signals it is for. *)
Samples == [at : 1 .. MaxSends, for : SUBSET Signals]
NoSample == [at |-> 0, for |-> {}]

NoSamples == [i \in Streams |-> <<>>]

VARIABLES
  sends,     (* number of Send::outputs so far                             *)
  outbox,    (* samples pushed on each stream and not sent yet             *)
  network,   (* frames in flight on each channel, oldest first             *)
  inbox,     (* samples received on each stream and not popped yet         *)
  value,     (* the data behind valuePtr of each signal of the receiver    *)
  flag,      (* do_refresh of each signal of the receiver                  *)
  unknown,   (* the streams that the receiver has counted and not filled   *)
  status,    (* what the last sendSimulinkToED247 returned                 *)
  whole,     (* history: every send so far pushed every signal and ended   *)
             (*   with ed247_send_pushed_samples                           *)
  lost,      (* history: was a frame lost?                                 *)
  skipped    (* history: the streams for which data waited in a call that  *)
             (*   returned before it was through with them                 *)

received == <<inbox, value, flag, skipped>>

vars == <<sends, outbox, network, status, whole, lost, unknown, received>>

-----------------------------------------------------------------------------
(* The signals of stream i by position, in the order the loop meets them. *)
AllOf(i) == [j \in 1 .. Size[i] |-> j]

AllSignals == [i \in Streams |-> AllOf(i)]

(* Some signals of stream i, in that same order. *)
SomeOf(i) ==
  {r \in UNION {[1 .. n -> 1 .. Size[i]] : n \in 0 .. Size[i]} :
     \A k, l \in DOMAIN r : k < l => r[k] < r[l]}

(* What the refresh ports may ask for on every stream. *)
PortChoices ==
  {ports \in [Streams -> UNION {SomeOf(i) : i \in Streams}] :
     \A i \in Streams : ports[i] \in SomeOf(i)}

(* Send::outputs: do_refresh of a signal is its refresh port where it has one.
   The signals of each stream that are refreshed, in the order of the stream. *)
RefreshChoices ==
  {[i \in Streams |-> IF EnableRefresh /\ KindOf[i] # "ASSISTANT"
                      THEN ports[i] ELSE AllOf(i)] : ports \in PortChoices}

(* Mistake: the signals of a stream are pushed last to first. *)
PushesReversed(i, ref, now) ==
  IF KindOf[i] = "ASSISTANT"
  THEN <<[at |-> now, for |-> {i} \X (1 .. Size[i])]>>
  ELSE LET r == ref[i]
       IN  [k \in 1 .. Len(r) |-> [at |-> now, for |-> {<<i, r[Len(r) + 1 - k]>>}]]

(* Mistake: the loop over the signals of an assistant runs one too far. *)
PushesPastEnd(i, ref, now) ==
  IF KindOf[i] = "ASSISTANT"
  THEN <<[at |-> now, for |-> {i} \X (1 .. Size[i] + 1)]>>
  ELSE [k \in 1 .. Len(ref[i]) |-> [at |-> now, for |-> {<<i, ref[i][k]>>}]]

(* The samples sendSimulinkToED247 pushes on stream i. *)
Pushes(i, ref, now) ==
  IF KindOf[i] = "ASSISTANT"
  THEN <<[at |-> now, for |-> {i} \X (1 .. Size[i])]>>
  ELSE [k \in 1 .. Len(ref[i]) |-> [at |-> now, for |-> {<<i, ref[i][k]>>}]]

(* The loop is left at stream stop because the library refuses a sample there
   after it took some (this operator gives how many); stop is NStreams + 1 if it
   takes all the samples. *)
TakenBefore(stop, ref, now) ==
  IF stop \in Streams
  THEN {n \in 0 .. Len(Pushes(stop, ref, now)) :
          stop \in MayRefuse /\ n < Len(Pushes(stop, ref, now))}
  ELSE {0}

FailureStatuses(kind) ==
  CASE kind = "ASSISTANT" -> {"STREAM_ASSISTANT_WRITE_SIGNAL_FAILURE",
                              "STREAM_ASSISTANT_PUSH_SAMPLE_FAILURE"}
    [] kind = "A825"      -> {"SEND_A825_SKIP"}
    [] OTHER              -> {"STREAM_PUSH_SAMPLE_FAILURE"}

(* Mistake: what an earlier call left behind comes last. *)
PushedInFront(stop, done, ref, now) ==
  [i \in Streams |->
     (CASE i < stop -> Pushes(i, ref, now)
        [] i = stop -> SubSeq(Pushes(i, ref, now), 1, done)
        [] i > stop -> <<>>) \o outbox[i]]

(* The samples waiting on each stream when the loop ends or is left. *)
Pushed(stop, done, ref, now) ==
  [i \in Streams |->
     outbox[i] \o CASE i < stop -> Pushes(i, ref, now)
                    [] i = stop -> SubSeq(Pushes(i, ref, now), 1, done)
                    [] i > stop -> <<>>]

(* The loop is left at stop. *)
Leave(stop, done, ref, now) ==
  /\ status' \in FailureStatuses(KindOf[stop])
  /\ outbox' = Pushed(stop, done, ref, now)
  /\ UNCHANGED network

(* The frame of channel c, with the samples pushed on its streams. *)
Frame(c, pushed) == [i \in Streams |-> IF ChannelOf[i] = c THEN pushed[i] ELSE <<>>]

(* The channels with something to send. *)
Loaded(pushed) == {ChannelOf[i] : i \in {k \in Streams : pushed[k] # <<>>}}

(* Mistake: ed247_send_pushed_samples is not called. *)
PushOnly(ref, now) ==
  /\ status' = "SEND_OK"
  /\ outbox' = Pushed(NStreams + 1, 0, ref, now)
  /\ UNCHANGED network

(* All the streams were pushed.  The library sends a frame on every channel that
   has samples, or it fails: then only the channels in out got theirs, and only
   those in gone (out and perhaps others) are without samples now. *)
SendPushedSamples(ref, now) ==
  LET pushed == Pushed(NStreams + 1, 0, ref, now)
  IN  \E gone \in SUBSET Loaded(pushed) : \E out \in SUBSET gone :
        /\ \/ status' = "SEND_OK" /\ out = Loaded(pushed)
           \/ status' = "SEND_PUSHED_SAMPLES_FAILURE"
        /\ outbox' = [i \in Streams |-> IF ChannelOf[i] \in gone THEN <<>> ELSE pushed[i]]
        /\ network' = [c \in Channels |-> IF c \in out
                                          THEN Append(network[c], Frame(c, pushed))
                                          ELSE network[c]]

(* Send::outputs *)
Send ==
  /\ sends < MaxSends
  /\ sends' = sends + 1
  /\ \E ref \in RefreshChoices, stop \in 1 .. (NStreams + 1) :
     \E done \in TakenBefore(stop, ref, sends') :
       /\ IF stop \in Streams
          THEN Leave(stop, done, ref, sends')
          ELSE SendPushedSamples(ref, sends')
       /\ whole' = (whole /\ ref = AllSignals /\ status' = "SEND_OK")
  /\ UNCHANGED <<lost, unknown, received>>

(* The network loses a frame of channel c. *)
Lose(c) ==
  /\ network[c] # <<>>
  /\ network' = [network EXCEPT ![c] = Tail(@)]
  /\ lost' = TRUE
  /\ UNCHANGED <<sends, outbox, status, whole, unknown, received>>

-----------------------------------------------------------------------------
(* Mistake: one sample is removed for all the signals of a stream. *)
PopsOne(i, q) == IF q = <<>> THEN 0 ELSE 1

(* How many samples the receive loop pops from queue q of stream i: one for the
   whole stream or one per signal. *)
Popped(i, q) ==
  LET wanted == IF KindOf[i] = "ASSISTANT" THEN 1 ELSE Size[i]
  IN  IF wanted < Len(q) THEN wanted ELSE Len(q)

(* The sample that the receive loop pops for signal s, q being the samples of
   its stream: the j-th signal gets the j-th sample. *)
SampleFor(s, q) ==
  IF KindOf[s[1]] = "ASSISTANT"
  THEN IF q = <<>> THEN NoSample ELSE Head(q)
  ELSE IF s[2] <= Len(q) THEN q[s[2]] ELSE NoSample

(* do_refresh of s once sample d was popped for it: the assistant leaves it as
   it is when there is nothing to pop. *)
FlagFor(s, d) ==
  IF d # NoSample THEN 1
  ELSE IF KindOf[s[1]] = "ASSISTANT" THEN flag[s] ELSE 0

(* The samples on stream i once the oldest frame of every channel in came is in. *)
QueueWith(came, i) ==
  IF ChannelOf[i] \in came THEN inbox[i] \o Head(network[ChannelOf[i]])[i] ELSE inbox[i]

(* The loop returns at stream stop, after it read the first n of its signals: the
   type is unknown, or the assistant popped a sample and cannot read signal n + 1.
   It ends normally when stop is NStreams + 1. *)
ReturnsAt(stop, n, queue) ==
  /\ \A i \in unknown : stop <= i
  /\ \/ stop \in unknown \cup {NStreams + 1} /\ n = 0
     \/ stop \in MayNotRead \ unknown /\ queue[stop] # <<>> /\ n < Size[stop]

(* The loop assigns signal s, or pops from stream i, before it returns. *)
Reaches(s, stop, n) == s[1] < stop \/ (s[1] = stop /\ s[2] <= n)
PopsFrom(i, stop) == i < stop \/ (i = stop /\ i \notin unknown)

(* The stream loop of receiveED247ToSimulink over the samples in queue. *)
StreamLoop(stop, n, queue) ==
  LET got == [s \in Signals |-> SampleFor(s, queue[s[1]])]
  IN  /\ ReturnsAt(stop, n, queue)
      /\ inbox' = [i \in Streams |->
                     IF PopsFrom(i, stop)
                     THEN SubSeq(queue[i], Popped(i, queue[i]) + 1, Len(queue[i]))
                     ELSE queue[i]]
      /\ value' = [s \in Signals |->
                     IF Reaches(s, stop, n) /\ got[s] # NoSample THEN got[s] ELSE value[s]]
      /\ flag' = [s \in Signals |->
                     IF Reaches(s, stop, n) THEN FlagFor(s, got[s]) ELSE flag[s]]
      /\ skipped' = skipped \cup {i \in Streams : stop <= i /\ queue[i] # <<>>}

(* receiveED247ToSimulink, when ed247_wait_frame got a frame on the channels in
   came. *)
Receive ==
  \E came \in (SUBSET {c \in Channels : network[c] # <<>>}) \ {{}} :
    /\ network' = [c \in Channels |-> IF c \in came THEN Tail(network[c]) ELSE network[c]]
    /\ \E stop \in 1 .. (NStreams + 1) :
       \E n \in 0 .. (IF stop \in Streams THEN Size[stop] - 1 ELSE 0) :
         StreamLoop(stop, n, [i \in Streams |-> QueueWith(came, i)])
    /\ UNCHANGED <<sends, outbox, status, whole, lost, unknown>>

(* receiveED247ToSimulink, when ed247_wait_frame timed out or failed: samples
   that wait in the library are not looked at. *)
ReceiveNothing ==
  /\ flag' = [s \in Signals |-> 0]
  /\ UNCHANGED <<sends, outbox, network, status, whole, lost, unknown, inbox, value, skipped>>

-----------------------------------------------------------------------------
Init ==
  /\ sends = 0
  /\ outbox = NoSamples
  /\ network = [c \in Channels |-> <<>>]
  /\ inbox = NoSamples
  /\ value = [s \in Signals |-> NoSample]
  /\ flag \in [Signals -> {0, 1}]
  /\ status = "NONE"
  /\ whole = TRUE
  /\ lost = FALSE
  /\ unknown \in SUBSET MayBeUnknown
  /\ skipped = {}

Next == Send \/ (\E c \in Channels : Lose(c)) \/ Receive \/ ReceiveNothing

Spec == Init /\ [][Next]_vars

(* Both simulations keep running: the sender reaches its last step, and a
   receiver that keeps calling ed247_wait_frame gets a frame that waits. *)
FairSpec == Spec /\ WF_vars(Send) /\ WF_vars(Receive)

-----------------------------------------------------------------------------
(* Every variable stays in its domain. *)
TypeOK ==
  /\ sends \in 0 .. MaxSends
  /\ outbox \in [Streams -> Seq(Samples)]
  /\ network \in [Channels -> Seq([Streams -> Seq(Samples)])]
  /\ inbox \in [Streams -> Seq(Samples)]
  /\ value \in [Signals -> Samples \cup {NoSample}]
  /\ flag \in [Signals -> {0, 1}]
  /\ status \in {"NONE", "SEND_OK", "SEND_PUSHED_SAMPLES_FAILURE"}
                 \cup UNION {FailureStatuses(k) : k \in Kinds}
  /\ whole \in BOOLEAN
  /\ lost \in BOOLEAN
  /\ unknown \subseteq MayBeUnknown
  /\ skipped \subseteq Streams

(* Every signal of the receiver holds data that was sent for this signal. *)
ReceivedMatchesSent ==
  \A s \in Signals : value[s] # NoSample => s \in value[s].for

(* The receive loop attributes samples by position only.  That is right as long
   as every send so far pushed all the signals and completed, whatever frames
   were lost, however fast the receiver runs and wherever its loop returned. *)
WholeSendsMatch == whole => ReceivedMatchesSent

(* Then all the signals of a channel show the data of one same send, but for the
   streams for which a call returned too early: their samples wait from then on
   and they lag behind. *)
WholeSendsAreCoherent ==
  whole => \A s, t \in {s \in Signals : s[1] \notin skipped} :
             ChannelOf[s[1]] = ChannelOf[t[1]] => value[s].at = value[t].at

(* The step of which s shows data that was sent for s. *)
StepShown(s) == IF s \in value[s].for THEN value[s].at ELSE 0

(* The step that a frame is of, if it is of one. *)
StepOf(frame) == frame[CHOOSE i \in Streams : frame[i] # <<>>][1].at

Promise == INSTANCE Delivery WITH
  LineOf    <- [s \in Signals |-> ChannelOf[s[1]]],
  Lines     <- Channels,
  sent      <- sends,
  waiting   <- [c \in Channels |-> [f \in DOMAIN network[c] |-> StepOf(network[c][f])]],
  shown     <- [s \in Signals |-> StepShown(s)],
  refreshed <- flag

(* While all sends are whole and no call of receive returned early with data
   waiting, what the queues, loops and positions come to is a line of steps per
   channel, each shown as a whole, in the order in which they were sent. *)
WholeSendsAreSteps ==
  Promise!Init /\ [][whole' /\ skipped' = {} => Promise!Next]_(Promise!vars)

(* The data of a signal never goes back in time, not even when sends are partial
   or fail or receive returns early: every sample is popped once, oldest first. *)
NeverGoesBack ==
  [][\A s \in Signals : value'[s].at >= value[s].at]_vars

(* In the end, when nothing was lost and every send was whole, the last data sent is
   in the signals of every stream that no call left with data waiting. *)
LastSendArrives ==
  <>[](whole /\ ~lost =>
         \A s \in Signals : s[1] \notin skipped => value[s].at = MaxSends)

(* A failure on an A825 stream is ignored: the samples that the call pushed on
   the other streams are sent. *)
A825FailureIgnored ==
  status = "SEND_A825_SKIP" =>
    \A i \in Streams : KindOf[i] # "A825" => outbox[i] = <<>>
=============================================================================
