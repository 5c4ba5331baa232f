----------------------------- MODULE CmdReader -----------------------------
(***************************************************************************)
(* Cmd::readData: the buses and messages of a CMD file are copied into a   *)
(* structure of fixed arrays, cmd_data_t, from which localSignalsFromICD   *)
(* takes those of the bus of a stream.                                     *)
(*                                                                         *)
(* The structure is static in localSignalsFromICD: it is zero before the   *)
(* first file, and every ICD stream of every configuration reads its file  *)
(* into it.  Reading clears the counters only.  An attribute that a node   *)
(* does not have is not assigned.                                          *)
(*                                                                         *)
(* One step is one node of the file, or one child of a bus.  Of the        *)
(* attributes that are copied without looking at them, ValidityDurationUs  *)
(* stands for all (Label, SDI, PeriodUs, Comment, the sizes).              *)
(***************************************************************************)
EXTENDS Naturals, Sequences, FiniteSets

CONSTANTS
  Files,        (* the CMD files: sequences of nodes                        *)
  MaxOf,        (* MAX_A429_BUS, MAX_A664_MESSAGES, ...: size of each array *)
  MaxMessages,  (* MAX_A429_MSG_PER_BUS                                     *)
  MaxReads      (* bound: number of files read with success                 *)

Tags == {"A429_Bus", "A664_SamplingMessage", "A825_SamplingMessage", "NAD_Variable"}

(* A node has a tag, attributes, and children (used for buses only); a child
   that is no element is a text or a comment. *)
AttributeNames == {"Direction", "Name", "ValidityDurationUs", "Type"}

HasAttributes(t) == DOMAIN t \subseteq AttributeNames /\ t \in [DOMAIN t -> STRING]

IsList(q) == Len(q) \in Nat /\ DOMAIN q = 1 .. Len(q)

IsChild(c) == c.element \in BOOLEAN /\ c.tag \in STRING /\ HasAttributes(c.attributes)

IsNode(n) ==
  /\ n.tag \in STRING /\ HasAttributes(n.attributes)
  /\ IsList(n.children) /\ \A c \in DOMAIN n.children : IsChild(n.children[c])

ASSUME CmdAssumption ==
  /\ \A f \in Files : IsList(f) /\ \A i \in DOMAIN f : IsNode(f[i])
  /\ MaxOf \in [Tags -> Nat \ {0}]
  /\ MaxMessages \in Nat \ {0}
  /\ MaxReads \in Nat

VARIABLES
  past,       (* history: the files parsed so far, the current one last     *)
  status,     (* what readData returned, "READING" while it is in its loop  *)
  node,       (* the node of the file it is at                              *)
  child,      (* the child of this node it is at, 0 outside of a bus        *)
  counter,    (* data->counter                                              *)
  slot,       (* the fields of the elements of the four arrays              *)
  n_messages, (* of each bus                                                *)
  message,    (* the fields of the messages of each bus                     *)
  warned      (* history: the tags with "Too many ..." in this file         *)

vars == <<past, status, node, child, counter, slot, n_messages, message, warned>>

File == past[Len(past)]
Here == File[node]
At(tags) == status = "READING" /\ child = 0 /\ node <= Len(File) /\ Here.tag \in tags

-----------------------------------------------------------------------------
(* local_direction_from_string *)
DirectionFrom(v) ==
  CASE v = "In" -> "IN" [] v = "Out" -> "OUT" [] v = "InOut" -> "INOUT"
    [] OTHER -> "INVALID"

(* local_nad_type_from_string *)
NadTypes == {"int8", "int16", "int32", "int64", "uint8", "uint16", "uint32",
             "uint64", "float32", "float64"}
NadTypeFrom(v) == IF v \in NadTypes THEN v ELSE "INVALID"

(* local_a429_message_type_from_string, of the name of the element *)
MessageTypeFrom(tag) ==
  CASE tag = "SamplingMessage" -> "SAMPLING"
    [] tag = "QueuingMessage"  -> "QUEUING"
    [] OTHER                   -> "UNKNOWN"

(* The attributes that fillA429, fillA664, fillA825 and fillNAD look at. *)
FieldsOf(tag) ==
  CASE tag = "A429_Bus"             -> {"Name"}
    [] tag = "A664_SamplingMessage" -> {"Direction", "Name", "ValidityDurationUs"}
    [] tag = "A825_SamplingMessage" -> {"Name", "ValidityDurationUs"}
    [] tag = "NAD_Variable"         -> {"Direction", "Name", "Type"}

MessageFields == {"Direction", "Name", "ValidityDurationUs"}

(* What is stored for attribute a of value v. *)
Stored(a, v) ==
  CASE a = "Direction" -> DirectionFrom(v)
    [] a = "Type"      -> NadTypeFrom(v)
    [] OTHER           -> v

(* Mistake: the slot is cleared first. *)
AssignCleared(fields, attributes, known) ==
  [a \in DOMAIN fields |->
     IF a \in known \cap DOMAIN attributes THEN Stored(a, attributes[a]) ELSE "zero"]

(* The loop over the attributes of a node: those that are known are stored. *)
Assign(fields, attributes, known) ==
  [a \in DOMAIN fields |->
     IF a \in known \cap DOMAIN attributes THEN Stored(a, attributes[a]) ELSE fields[a]]

(* fillA429Message: the type comes from the name of the element. *)
AssignMessage(fields, element) ==
  [Assign(fields, element.attributes, MessageFields)
     EXCEPT !["Type"] = MessageTypeFrom(element.tag)]

(* Mistake: the last place is counted beyond the array. *)
FullTooLate(tag) == counter[tag] > MaxOf[tag]

Full(tag) == counter[tag] >= MaxOf[tag]

(* Mistake: the counters go on from the file before. *)
KeepCounters == counter

(* The memset of the counters. *)
ClearedCounters == [tag \in Tags |-> 0]

-----------------------------------------------------------------------------
ReadFailures ==
  {"CMD_READ_INVALID_FILE", "CMD_READ_CANNOT_CREATE_CONTEXT", "CMD_READ_CANNOT_OPEN_FILE"}

(* readData fails: no file, no context, or no XML.  The structure keeps what the
   file before left in it. *)
ReadFails ==
  /\ status # "READING"
  /\ status' \in ReadFailures
  /\ UNCHANGED <<past, node, child, counter, slot, n_messages, message, warned>>

(* readData opens a file. *)
Open ==
  /\ status # "READING" /\ Len(past) < MaxReads
  /\ \E f \in Files : past' = Append(past, f)
  /\ status' = "READING"
  /\ node' = 1 /\ child' = 0
  /\ counter' = ClearedCounters
  /\ warned' = {}
  /\ UNCHANGED <<slot, n_messages, message>>

(* A node of no known tag: comments, texts and other elements. *)
SkipNode ==
  /\ status = "READING" /\ child = 0 /\ node <= Len(File) /\ Here.tag \notin Tags
  /\ node' = node + 1
  /\ UNCHANGED <<past, status, child, counter, slot, n_messages, message, warned>>

(* No place for this node: it is skipped with a message. *)
TooMany ==
  /\ At(Tags) /\ Full(Here.tag)
  /\ warned' = warned \cup {Here.tag}
  /\ node' = node + 1
  /\ UNCHANGED <<past, status, child, counter, slot, n_messages, message>>

(* fillA664, fillA825, fillNAD *)
FillNode ==
  /\ At(Tags \ {"A429_Bus"}) /\ ~Full(Here.tag)
  /\ slot' = [slot EXCEPT ![Here.tag][counter[Here.tag] + 1] =
                Assign(@, Here.attributes, FieldsOf(Here.tag))]
  /\ counter' = [counter EXCEPT ![Here.tag] = @ + 1]
  /\ node' = node + 1
  /\ UNCHANGED <<past, status, child, n_messages, message, warned>>

(* fillA429, before its loop over the children *)
OpenBus ==
  /\ At({"A429_Bus"}) /\ ~Full("A429_Bus")
  /\ LET k == counter["A429_Bus"] + 1
     IN  /\ slot' = [slot EXCEPT !["A429_Bus"][k] =
                       Assign(@, Here.attributes, FieldsOf("A429_Bus"))]
         /\ n_messages' = [n_messages EXCEPT ![k] = 0]
  /\ child' = 1
  /\ UNCHANGED <<past, status, node, counter, message, warned>>

Bus == counter["A429_Bus"] + 1

(* Mistake: the loop ends one message too early. *)
BusGoesOnTooShort == child <= Len(Here.children) /\ n_messages[Bus] < MaxMessages - 1

BusGoesOn == child <= Len(Here.children) /\ n_messages[Bus] < MaxMessages

(* One child of a bus: an element becomes a message, others are passed over. *)
FillChild ==
  /\ status = "READING" /\ child > 0 /\ BusGoesOn
  /\ LET c == Here.children[child]
         m == n_messages[Bus] + 1
     IN  IF c.element
         THEN /\ message' = [message EXCEPT ![Bus][m] = AssignMessage(@, c)]
              /\ n_messages' = [n_messages EXCEPT ![Bus] = m]
         ELSE UNCHANGED <<message, n_messages>>
  /\ child' = child + 1
  /\ UNCHANGED <<past, status, node, counter, slot, warned>>

(* fillA429 returns, at the last child or at the limit. *)
CloseBus ==
  /\ status = "READING" /\ child > 0 /\ ~BusGoesOn
  /\ counter' = [counter EXCEPT !["A429_Bus"] = @ + 1]
  /\ node' = node + 1
  /\ child' = 0
  /\ UNCHANGED <<past, status, slot, n_messages, message, warned>>

Close ==
  /\ status = "READING" /\ child = 0 /\ node > Len(File)
  /\ status' = "CMD_READ_OK"
  /\ UNCHANGED <<past, node, child, counter, slot, n_messages, message, warned>>

-----------------------------------------------------------------------------
Buses == 1 .. MaxOf["A429_Bus"]
Zero(fields) == [a \in fields |-> "zero"]

Init ==
  /\ past = <<>>
  /\ status = "NONE"
  /\ node = 0 /\ child = 0
  /\ counter = [tag \in Tags |-> 0]
  /\ slot = [tag \in Tags |-> [k \in 1 .. MaxOf[tag] |-> Zero(FieldsOf(tag))]]
  /\ n_messages = [k \in Buses |-> 0]
  /\ message = [k \in Buses |-> [m \in 1 .. MaxMessages |-> Zero(MessageFields \cup {"Type"})]]
  /\ warned = {}

Next ==
  \/ Open \/ ReadFails \/ SkipNode \/ TooMany \/ FillNode
  \/ OpenBus \/ FillChild \/ CloseBus \/ Close

Spec == Init /\ [][Next]_vars

-----------------------------------------------------------------------------
(* What a field holds: a text, or a constant of one of the enumerations. *)
FieldValues ==
  STRING \cup {"zero"} \cup {"IN", "OUT", "INOUT", "INVALID"} \cup NadTypes
         \cup {"SAMPLING", "QUEUING", "UNKNOWN"}

(* Every variable stays in its domain, in particular every counter within the
   size of its array (the limits of readData and of fillA429). *)
TypeOK ==
  /\ past \in Seq(Files) /\ Len(past) <= MaxReads
  /\ status \in {"NONE", "READING", "CMD_READ_OK"} \cup ReadFailures
  /\ node \in Nat /\ child \in Nat
  /\ DOMAIN counter = Tags /\ DOMAIN slot = Tags
  /\ \A tag \in Tags :
       /\ counter[tag] \in 0 .. MaxOf[tag]
       /\ slot[tag] \in [1 .. MaxOf[tag] -> [FieldsOf(tag) -> FieldValues]]
  /\ n_messages \in [Buses -> 0 .. MaxMessages]
  /\ message \in [Buses -> [1 .. MaxMessages -> [MessageFields \cup {"Type"} -> FieldValues]]]
  /\ warned \subseteq Tags

Done == status = "CMD_READ_OK"

(* The nodes of a tag among the first n of file f, and the k-th of them. *)
Count(f, tag, n) == Cardinality({i \in 1 .. n : f[i].tag = tag})
Nodes(f, tag)    == Count(f, tag, Len(f))

IsNth(f, tag, k, i) == i \in DOMAIN f /\ f[i].tag = tag /\ Count(f, tag, i) = k
Nth(f, tag, k)      == f[CHOOSE i \in DOMAIN f : IsNth(f, tag, k, i)]

(* The messages among the first n children of a bus, and the m-th of them. *)
Elements(bus, n) == Cardinality({c \in 1 .. n : bus.children[c].element})
Messages(bus)    == Elements(bus, Len(bus.children))

IsMth(bus, m, c) == c \in DOMAIN bus.children /\ bus.children[c].element /\ Elements(bus, c) = m
Mth(bus, m)      == bus.children[CHOOSE c \in DOMAIN bus.children : IsMth(bus, m, c)]

Gives(f, tag, k, a) ==
  \E i \in DOMAIN f : IsNth(f, tag, k, i) /\ a \in DOMAIN f[i].attributes

HasMessage(f, k, m) ==
  \E i \in DOMAIN f : IsNth(f, "A429_Bus", k, i) /\ \E c \in DOMAIN f[i].children : IsMth(f[i], m, c)

MessageAt(f, k, m) == Mth(Nth(f, "A429_Bus", k), m)

LastOf(reads) == CHOOSE r \in reads : \A q \in reads : q <= r

(* What a place of the structure holds, told by the files alone: the value of the
   latest file whose node at this very place gave one, whatever was read since;
   zero if there was none. *)
Expected(tag, k, a) ==
  LET givers == {r \in 1 .. Len(past) : Gives(past[r], tag, k, a)}
  IN  IF givers = {} THEN "zero"
      ELSE Stored(a, Nth(past[LastOf(givers)], tag, k).attributes[a])

ExpectedInMessage(k, m, a) ==
  LET holders == {r \in 1 .. Len(past) : HasMessage(past[r], k, m)}
      givers  == {r \in holders : a \in DOMAIN MessageAt(past[r], k, m).attributes}
  IN  CASE a = "Type" ->
             IF holders = {} THEN "zero"
             ELSE MessageTypeFrom(MessageAt(past[LastOf(holders)], k, m).tag)
        [] a # "Type" ->
             IF givers = {} THEN "zero"
             ELSE Stored(a, MessageAt(past[LastOf(givers)], k, m).attributes[a])

(* The static structure is never mixed up: an attribute has the value of its own
   node if the node gives one, and else that of the latest file that gave one at
   the same place.  This is how far values leak from one file to the next. *)
LatestFileWins ==
  Done =>
    /\ \A tag \in Tags : \A k \in 1 .. MaxOf[tag], a \in FieldsOf(tag) :
         slot[tag][k][a] = Expected(tag, k, a)
    /\ \A k \in Buses, m \in 1 .. MaxMessages, a \in MessageFields \cup {"Type"} :
         message[k][m][a] = ExpectedInMessage(k, m, a)

(* The places where localSignalsFromICD finds a bus or message of this name. *)
Matches(tag, name) == {k \in 1 .. counter[tag] : slot[tag][k]["Name"] = name}

Named(f, tag) == \A i \in DOMAIN f : f[i].tag = tag => "Name" \in DOMAIN f[i].attributes

(* If its nodes have names and all fit, looking up a name finds exactly the nodes
   of this file with that name, none of the files before. *)
LookupIsExact ==
  Done => \A tag \in Tags \ warned : Named(File, tag) =>
    \A name \in {slot[tag][k]["Name"] : k \in 1 .. MaxOf[tag]} :
      Matches(tag, name) =
        {k \in 1 .. Nodes(File, tag) : Nth(File, tag, k).attributes["Name"] = name}

(* What is lost is told, but for messages of a bus: the tags without a warning are
   complete, those with one are full; a bus with room left has all its messages. *)
OnlyMessagesGetLostInSilence ==
  Done =>
    /\ \A tag \in Tags \ warned : counter[tag] = Nodes(File, tag)
    /\ \A tag \in warned : counter[tag] = MaxOf[tag] /\ Nodes(File, tag) > MaxOf[tag]
    /\ \A k \in 1 .. counter["A429_Bus"] :
         IF n_messages[k] < MaxMessages
         THEN n_messages[k] = Messages(Nth(File, "A429_Bus", k))
         ELSE Messages(Nth(File, "A429_Bus", k)) >= MaxMessages
=============================================================================
