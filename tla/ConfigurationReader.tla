------------------------ MODULE ConfigurationReader ------------------------
(***************************************************************************)
(* ED247Connector::readED247Configuration with localSignalsFromECIC and    *)
(* localSignalsFromICD: the streams of an ECIC file become the input and   *)
(* output arrays of the connector, on which the blocks build their ports.  *)
(*                                                                         *)
(* An input of the connector is what the model sends (direction OUT), an   *)
(* output what it receives (direction IN).  ANA, DIS, NAD and VNAD streams *)
(* (ASSISTANT) take their signals from the library, A429, A664 and A825    *)
(* streams take their messages from the CMD file of their bus.  The arrays *)
(* have fixed sizes, and the statuses of the two helpers are ignored but   *)
(* for a warning: reading goes on with the next stream.                    *)
(*                                                                         *)
(* One step is one call of the library, or one message.                    *)
(***************************************************************************)
EXTENDS Naturals, Sequences, FiniteSets

CONSTANTS
  Files,           (* the ECIC files with their CMD files                   *)
  MaxStreams,      (* MAX_STREAMS, size of the two arrays of streams        *)
  MaxSignals,      (* MAX_SIGNALS, size of the two arrays of signals        *)
  LibraryMayFail   (* may calls of the library, and reading CMD files, fail?*)

Sides      == {"inputs", "outputs"}
Kinds      == {"ASSISTANT", "A429", "A664", "A825", "OTHER"}
Directions == {"IN", "OUT", "INOUT"}

(* A message is told by its direction in the CMD file, and a NAD signal by
   whether its dimensions fit in MAX_DIMENSIONS. *)
Messages    == Directions \cup {"FITS", "TOO_MANY_DIMENSIONS"}
StreamInfos == [kind : Kinds, direction : Directions, messages : Seq(Messages)]

ASSUME ConfigurationAssumption ==
  /\ Files \subseteq Seq(StreamInfos)
  /\ MaxStreams \in Nat \ {0}
  /\ MaxSignals \in Nat \ {0}
  /\ LibraryMayFail \in BOOLEAN

(* stream_characteristics_t: the library stream it stands for (0 when its
   fields were never assigned) and the indices of its signals. *)
NoStream == [of |-> 0, list |-> <<>>]
NoSlots  == [s \in Sides |-> 0]

VARIABLES
  file,      (* the file that is read                                      *)
  step,      (* which loop the reader is in                                *)
  stream,    (* the stream it is at                                        *)
  message,   (* the message or signal of this stream it is at, 0 if none   *)
  io,        (* the two sides: nstreams, streams and signals; a signal is  *)
             (*   the pair of its stream and its message                   *)
  current,   (* slot of the current stream on each side, 0 for NULL        *)
  status,    (* what readED247Configuration returned                       *)
  warned,    (* history: was a message printed about a loss or a failure?  *)
  failed     (* history: did a call of the library fail?                   *)

vars == <<file, step, stream, message, io, current, status, warned, failed>>

-----------------------------------------------------------------------------
Info == file[stream]

At(kind) == step = "STREAMS" /\ stream <= Len(file) /\ Info.kind = kind

(* Mistake: the block's point of view. *)
SideSwapped(direction) ==
  CASE direction = "IN"  -> "inputs"
    [] direction = "OUT" -> "outputs"
    [] OTHER             -> "none"

(* The side of the connector a direction of the file leads to. *)
SideOf(direction) ==
  CASE direction = "IN"  -> "outputs"
    [] direction = "OUT" -> "inputs"
    [] OTHER             -> "none"

(* Mistake: the last place is never used. *)
FullTooEarly(s) == io[s].nstreams >= MaxStreams - 1

Full(s) == io[s].nstreams >= MaxStreams

(* Mistake: the array of signals is overrun by one. *)
RoomForOneMore(o, k) ==
  Len(o.signals) <= MaxSignals /\ Len(o.streams[k].list) <= MaxSignals

Room(o, k) == Len(o.signals) < MaxSignals /\ Len(o.streams[k].list) < MaxSignals

(* One more stream is counted on side o. *)
Count(o) == [o EXCEPT !.nstreams = @ + 1]

(* Mistake: the slot is computed after the count has changed. *)
FillNext(o) == [o EXCEPT !.streams[o.nstreams + 1] = [of |-> stream, list |-> <<>>]]

(* The fields of the stream counted last are assigned. *)
Fill(o) == [o EXCEPT !.streams[o.nstreams] = [of |-> stream, list |-> <<>>]]

(* Mistake: the index of the signal in its stream is stored. *)
StoreLocalIndex(o, k) ==
  [o EXCEPT !.signals = Append(@, <<stream, message>>),
            !.streams[k].list = Append(@, Len(@) + 1)]

(* The current message becomes the next signal of o, listed by slot k. *)
Store(o, k) ==
  [o EXCEPT !.signals = Append(@, <<stream, message>>),
            !.streams[k].list = Append(@, Len(o.signals) + 1)]

StoreIfRoom(o, k) == IF Room(o, k) THEN Store(o, k) ELSE o

(* Mistake: the status of the helper is not looked at. *)
NextStreamSilently(prints) ==
  /\ step' = "STREAMS"
  /\ stream' = stream + 1
  /\ message' = 0
  /\ current' = NoSlots
  /\ UNCHANGED <<file, status, warned>>

(* The helper returns: on to the next stream. *)
NextStream(prints) ==
  /\ step' = "STREAMS"
  /\ stream' = stream + 1
  /\ message' = 0
  /\ current' = NoSlots
  /\ warned' = (warned \/ prints)
  /\ UNCHANGED <<file, status>>

(* The helper goes on, with the messages of the current stream. *)
EnterLoop(loop, slots) ==
  /\ step' = loop
  /\ message' = 1
  /\ current' = slots
  /\ UNCHANGED <<file, stream, status, warned, failed>>

NextMessage(prints) ==
  /\ message' = message + 1
  /\ warned' = (warned \/ prints)
  /\ UNCHANGED <<file, step, stream, status, failed>>

Return(s) ==
  /\ step' = "END"
  /\ status' = s
  /\ UNCHANGED <<file, stream, message, io, current>>

CallFails == LibraryMayFail /\ failed' = TRUE

-----------------------------------------------------------------------------
(* readED247Configuration *)
Open ==
  /\ step = "START"
  /\ \/ Return("INVALID_FILE") /\ UNCHANGED <<warned, failed>>
     \/ /\ CallFails
        /\ warned' = TRUE
        /\ Return("LOAD_FAILURE") \/ Return("FIND_STREAMS_FAILURE")
     \/ /\ step' = "STREAMS"
        /\ stream' = 1
        /\ UNCHANGED <<file, message, io, current, status, warned, failed>>

(* The next stream cannot be described: the call fails. *)
StreamFails ==
  /\ step = "STREAMS"
  /\ stream <= Len(file)
  /\ CallFails
  /\ warned' = TRUE
  /\ Return("STREAM_GET_INFO_FAILURE")

(* There is no more stream, or the library fails to give the next one.  The
   list is freed. *)
Close ==
  /\ step = "STREAMS"
  /\ \/ /\ stream > Len(file)
        /\ Return("CONFIGURATION_SUCCESS")
        /\ UNCHANGED <<warned, failed>>
     \/ /\ CallFails
        /\ warned' = TRUE
        /\ Return("CONFIGURATION_SUCCESS") \/ Return("STREAM_LIST_FREE_FAILURE")

(* A stream of no known type. *)
SkipStream ==
  /\ At("OTHER")
  /\ NextStream(FALSE)
  /\ UNCHANGED <<io, failed>>

-----------------------------------------------------------------------------
(* localSignalsFromECIC, before its loop.  The stream is counted before the
   limit is tested and before the assistant is asked for. *)
OpenAssistantStream ==
  /\ At("ASSISTANT")
  /\ LET s == SideOf(Info.direction)
     IN  \/ /\ s \notin Sides
            /\ NextStream(TRUE)
            /\ UNCHANGED <<io, failed>>
         \/ /\ s \in Sides /\ Full(s)
            /\ io' = [io EXCEPT ![s] = Count(@)]
            /\ NextStream(TRUE)
            /\ UNCHANGED failed
         \/ /\ s \in Sides /\ ~Full(s)
            /\ CallFails
            /\ \/ io' = [io EXCEPT ![s] = Count(@)]
               \/ io' = [io EXCEPT ![s] = Fill(Count(@))]
            /\ NextStream(TRUE)
         \/ /\ s \in Sides /\ ~Full(s)
            /\ io' = [io EXCEPT ![s] = Fill(Count(@))]
            /\ EnterLoop("SIGNALS", [NoSlots EXCEPT ![s] = io[s].nstreams + 1])

(* One turn of the loop of localSignalsFromECIC, or its end.  A signal with too
   many dimensions ends the call without a message; so does a failure to get
   the next signal. *)
AssistantSignal ==
  /\ step = "SIGNALS"
  /\ LET s    == SideOf(Info.direction)
         more == Len(io[s].signals) < MaxSignals /\ message <= Len(Info.messages)
     IN  \/ /\ more /\ Info.messages[message] # "TOO_MANY_DIMENSIONS"
            /\ io' = [io EXCEPT ![s] = Store(@, current[s])]
            /\ NextMessage(FALSE)
            /\ UNCHANGED current
         \/ /\ more /\ Info.messages[message] = "TOO_MANY_DIMENSIONS"
            /\ NextStream(FALSE)
            /\ UNCHANGED <<io, failed>>
         \/ /\ CallFails
            /\ NextStream(TRUE) \/ (more /\ NextStream(FALSE))
            /\ UNCHANGED io
         \/ /\ ~more
            /\ NextStream(Len(io[s].signals) = MaxSignals)
            /\ UNCHANGED <<io, failed>>

-----------------------------------------------------------------------------
IcdKinds == {"A429", "A664", "A825"}

(* localSignalsFromICD: the CMD file cannot be read. *)
CmdFails ==
  /\ \E kind \in IcdKinds : At(kind)
  /\ CallFails
  /\ NextStream(TRUE)
  /\ UNCHANGED io

(* A429: a stream is only added when a message needs it. *)
OpenA429Stream ==
  /\ At("A429")
  /\ EnterLoop("MESSAGES", NoSlots)
  /\ UNCHANGED io

(* Mistake: the slot of a bus is searched on the other side too. *)
A429SlotShared(s) ==
  IF \E t \in Sides : current[t] # 0
  THEN CHOOSE k \in {current[t] : t \in Sides} : k # 0
  ELSE io[s].nstreams + 1

(* The slot of the current bus on side s, a new one for its first message. *)
A429Slot(s) == IF current[s] = 0 THEN io[s].nstreams + 1 ELSE current[s]

(* A429: one message, to the side of its own direction.  The limit is tested for
   every message, whether it needs a new stream or not. *)
A429Message ==
  /\ step = "MESSAGES" /\ message <= Len(Info.messages)
  /\ LET s == SideOf(Info.messages[message])
     IN  \/ /\ s \notin Sides
            /\ NextMessage(FALSE)
            /\ UNCHANGED <<io, current>>
         \/ /\ s \in Sides /\ Full(s)
            /\ NextStream(TRUE)
            /\ UNCHANGED <<io, failed>>
         \/ /\ s \in Sides /\ ~Full(s)
            /\ LET k == A429Slot(s)
                   o == IF current[s] = 0 THEN Fill(Count(io[s])) ELSE io[s]
               IN  /\ io' = [io EXCEPT ![s] = StoreIfRoom(o, k)]
                   /\ current' = [current EXCEPT ![s] = k]
                   /\ NextMessage(~Room(o, k))

(* A664: one stream on the side of its direction. *)
OpenA664Stream ==
  /\ At("A664")
  /\ LET s == SideOf(Info.direction)
     IN  \/ /\ s \notin Sides \/ (s \in Sides /\ Full(s))
            /\ NextStream(s \in Sides)
            /\ UNCHANGED <<io, failed>>
         \/ /\ s \in Sides /\ ~Full(s)
            /\ io' = [io EXCEPT ![s] = Fill(Count(@))]
            /\ EnterLoop("ENTRIES", [NoSlots EXCEPT ![s] = io[s].nstreams + 1])

(* A825: one stream on each side, whatever the direction; the input stream stays
   if there is no place for the output stream. *)
OpenA825Stream ==
  /\ At("A825")
  /\ \/ /\ Full("inputs")
        /\ NextStream(TRUE)
        /\ UNCHANGED <<io, failed>>
     \/ /\ ~Full("inputs") /\ Full("outputs")
        /\ io' = [io EXCEPT !["inputs"] = Fill(Count(@))]
        /\ NextStream(TRUE)
        /\ UNCHANGED failed
     \/ /\ ~Full("inputs") /\ ~Full("outputs")
        /\ io' = [s \in Sides |-> Fill(Count(io[s]))]
        /\ EnterLoop("ENTRIES", [s \in Sides |-> io[s].nstreams + 1])

(* A664 and A825: one entry of the CMD file, on every side of the stream. *)
IcdEntry ==
  /\ step = "ENTRIES" /\ message <= Len(Info.messages)
  /\ io' = [s \in Sides |-> IF current[s] = 0 THEN io[s]
                            ELSE StoreIfRoom(io[s], current[s])]
  /\ NextMessage(\E s \in Sides : current[s] # 0 /\ ~Room(io[s], current[s]))
  /\ UNCHANGED current

(* localSignalsFromICD ends. *)
EndOfIcd ==
  /\ step \in {"MESSAGES", "ENTRIES"} /\ message > Len(Info.messages)
  /\ NextStream(FALSE)
  /\ UNCHANGED <<io, failed>>

-----------------------------------------------------------------------------
NoSide == [nstreams |-> 0, streams |-> [k \in 1 .. MaxStreams |-> NoStream],
           signals |-> <<>>]

Init ==
  /\ file \in Files
  /\ step = "START"
  /\ stream = 0
  /\ message = 0
  /\ io = [s \in Sides |-> NoSide]
  /\ current = NoSlots
  /\ status = "NONE"
  /\ warned = FALSE
  /\ failed = FALSE

Next ==
  \/ Open \/ StreamFails \/ Close \/ SkipStream
  \/ OpenAssistantStream \/ AssistantSignal
  \/ CmdFails \/ OpenA429Stream \/ A429Message
  \/ OpenA664Stream \/ OpenA825Stream \/ IcdEntry \/ EndOfIcd

Spec == Init /\ [][Next]_vars

-----------------------------------------------------------------------------
Steps == {"START", "STREAMS", "SIGNALS", "MESSAGES", "ENTRIES", "END"}

Statuses == {"NONE", "INVALID_FILE", "LOAD_FAILURE", "FIND_STREAMS_FAILURE",
             "STREAM_GET_INFO_FAILURE", "STREAM_LIST_FREE_FAILURE",
             "CONFIGURATION_SUCCESS"}

(* The arrays hold what fits in them; the number of streams is a mere counter,
   which assistant streams take beyond the size of the array. *)
StreamRecords == [of : Nat, list : Seq(1 .. MaxSignals)]
SideRecords   == [nstreams : Nat, streams : [1 .. MaxStreams -> StreamRecords],
                  signals : Seq(Nat \X Nat)]

(* Every variable stays in its domain, and the arrays within their sizes. *)
TypeOK ==
  /\ file \in Files
  /\ step \in Steps
  /\ stream \in Nat
  /\ message \in Nat
  /\ io \in [Sides -> SideRecords]
  /\ \A s \in Sides : Len(io[s].signals) <= MaxSignals
  /\ current \in [Sides -> 0 .. MaxStreams]
  /\ status \in Statuses
  /\ warned \in BOOLEAN
  /\ failed \in BOOLEAN

Slots == 1 .. MaxStreams
Listed(s, k) == io[s].streams[k].list

(* send and receive walk the streams and their lists, the blocks walk the array
   of signals: both see every signal once, and in the same order. *)
ListsEnumerateSignals ==
  \A s \in Sides :
    /\ \A n \in 1 .. Len(io[s].signals) :
         \E k \in Slots : \E p \in 1 .. Len(Listed(s, k)) : Listed(s, k)[p] = n
    /\ \A k, l \in Slots :
         \A p \in 1 .. Len(Listed(s, k)), q \in 1 .. Len(Listed(s, l)) :
           k < l \/ (k = l /\ p < q) => Listed(s, k)[p] < Listed(s, l)[q]

(* A stream lists signals of the library stream it was made for, so that a sample
   pushed on or popped from a stream is one of its own. *)
SignalsOfTheirStream ==
  \A s \in Sides, k \in Slots : \A p \in 1 .. Len(Listed(s, k)) :
    /\ Listed(s, k)[p] \in 1 .. Len(io[s].signals)
    /\ io[s].signals[Listed(s, k)[p]][1] = io[s].streams[k].of

(* A stream that is counted, and whose slot exists, has its fields assigned,
   unless a call of the library failed: send and receive read its type and its
   number of signals. *)
CountedStreamsAreFilled ==
  ~failed => \A s \in Sides, k \in Slots :
               k <= io[s].nstreams => io[s].streams[k].of # 0

(* The counter exceeds the array only after the warning about the limit. *)
OverflowIsReported ==
  ~warned => \A s \in Sides : io[s].nstreams <= MaxStreams

(* What a file asks for on side s, told by the ECIC and CMD files alone. *)
Leads(direction, s) ==
  direction = (IF s = "outputs" THEN "IN" ELSE "OUT")

Asks(i, m, s) ==
  LET info == file[i]
  IN  CASE info.kind = "A429"  -> Leads(info.messages[m], s)
        [] info.kind = "A825"  -> TRUE
        [] info.kind = "OTHER" -> FALSE
        [] OTHER               -> Leads(info.direction, s)

Asked(s) == {im \in UNION {{i} \X (1 .. Len(file[i].messages)) : i \in 1 .. Len(file)} :
               Asks(im[1], im[2], s)}

Stored(s) == {io[s].signals[n] : n \in 1 .. Len(io[s].signals)}

DimensionsFit ==
  \A i \in 1 .. Len(file) : \A m \in 1 .. Len(file[i].messages) :
    file[i].messages[m] # "TOO_MANY_DIMENSIONS"

Success == step = "END" /\ status = "CONFIGURATION_SUCCESS"

(* Nothing is lost in silence: when reading succeeds, no call failed and no
   message was printed, every signal the file asks for is there, on its side.
   (A NAD signal with too many dimensions is lost without a word.) *)
LossIsReported ==
  Success /\ ~warned /\ ~failed /\ DimensionsFit =>
    \A s \in Sides : Stored(s) = Asked(s)

(* The streams that a file needs on side s: an A429 stream is only added for a
   message, the others always. *)
Needed(s) == {i \in 1 .. Len(file) :
  IF file[i].kind = "A429"
  THEN \E m \in 1 .. Len(file[i].messages) : Asks(i, m, s)
  ELSE Asks(i, 0, s)}

(* How much room is enough: nothing is lost if a side needs no more signals than
   its array holds and FEWER streams than its array holds.  The last place does
   not count: an A429 stream that takes it loses all its messages but one. *)
RoomIsEnough ==
  Success /\ ~failed /\ DimensionsFit =>
    ((\A s \in Sides : /\ Cardinality(Needed(s)) < MaxStreams
                      /\ Cardinality(Asked(s)) <= MaxSignals)
     => \A s \in Sides : Stored(s) = Asked(s))
=============================================================================
