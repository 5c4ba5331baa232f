-------------------------------- MODULE Ports --------------------------------
(***************************************************************************)
(* The ports of the Receive and Send blocks as the S-function numbers them *)
(* (Receive::initialize, Send::initialize, RTW) and as the masks label and *)
(* wire them (getPorts, createBus of Receive.m and Send.m).                *)
(*                                                                         *)
(* Both start from the configuration file, but the S-function reads it     *)
(* itself, while the masks take what the MEX gateway returned when the     *)
(* file was last put into the model workspace (Configure.m), one list for  *)
(* both directions.                                                        *)
(*                                                                         *)
(* A signal is the pair of its stream and its message.  Files fit into the *)
(* arrays here; ConfigurationReader is about the limits.                   *)
(***************************************************************************)
EXTENDS Integers, Sequences, FiniteSets

CONSTANTS
  FileNames,
  Contents,   (* the files: sequences of streams                            *)
  NoFile,
  MaxEdits    (* bound: changes of files on the disk                        *)

Directions == {"IN", "OUT", "INOUT"}
Kinds == {"ASSISTANT", "A429", "A664", "A825"}

ASSUME PortsAssumption ==
  /\ Contents \subseteq Seq([kind : Kinds, direction : Directions,
                           messages : Seq(Directions \cup {"INVALID"})])
  /\ NoFile \notin Contents
  /\ "none" \notin FileNames
  /\ MaxEdits \in Nat

VARIABLES
  disk,        (* the content of each file, or NoFile                       *)
  edits,       (* history: number of changes on the disk                    *)
  configured,  (* the file name in the mask of the Configure block          *)
  workspace,   (* ED247Configuration of the model workspace                 *)
  refresh,     (* refresh_factor > 0 (Receive), enable_refresh (Send)       *)
  connected,   (* the file the connector has read                           *)
  side,        (* the signals of the connector with their port numbers      *)
  nports,      (* ssSetNumOutputPorts, ssSetNumInputPorts                   *)
  seen,        (* history: the mask parameters when the ports were made     *)
  outdated,    (* history: who read the file before its last change         *)
  bus          (* the lines createBus has drawn                             *)

vars == <<disk, edits, configured, workspace, refresh, connected, side, nports,
          seen, outdated, bus>>

Blocks == {"Receive", "Send"}
NoConfiguration == [file |-> "none", configuration |-> <<>>]

-----------------------------------------------------------------------------
(* The connector: outputs are received, inputs are sent. *)
Signal(i, j, s, direction) ==
  [of |-> <<i, j>>, direction |-> direction, stream_type |-> s.kind,
   is_refresh |-> s.kind # "ASSISTANT", port_index |-> -1, refresh_index |-> -1]

Opposite(block) == IF block = "Receive" THEN "IN" ELSE "OUT"

(* The direction that message j of stream s gets on the side of this block,
   "NONE" if it has no signal there. *)
DirectionOn(block, s, j) ==
  CASE s.kind = "ASSISTANT" -> IF s.direction = Opposite(block) THEN s.direction ELSE "NONE"
    [] s.kind = "A429" -> IF s.messages[j] = Opposite(block) THEN s.messages[j] ELSE "NONE"
    [] s.kind = "A664" -> IF s.direction = Opposite(block) THEN s.messages[j] ELSE "NONE"
    [] s.kind = "A825" -> IF block = "Receive" THEN "OUT" ELSE "IN"

(* The messages that have a signal there: message p[2] of stream p[1]. *)
Present(block, content) ==
  {p \in UNION {{i} \X DOMAIN content[i].messages : i \in DOMAIN content} :
     DirectionOn(block, content[p[1]], p[2]) # "NONE"}

Earlier(p, q) == p[1] < q[1] \/ (p[1] = q[1] /\ p[2] < q[2])

(* The pairs of a set as nested loops come to them. *)
InOrder(S) ==
  [k \in 1 .. Cardinality(S) |->
     CHOOSE p \in S : Cardinality({q \in S : Earlier(q, p)}) = k - 1]

(* The numbers of a set as a loop comes to them. *)
Ascending(S) == LET order == InOrder(S \X {0}) IN [k \in DOMAIN order |-> order[k][1]]

(* The signals of a file on each side, in the order of the file. *)
Sides ==
  [content \in Contents |->
    [block \in Blocks |->
      LET here == InOrder(Present(block, content))
      IN  [k \in DOMAIN here |->
             LET p == here[k]
                 s == content[p[1]]
             IN  Signal(p[1], p[2], s, DirectionOn(block, s, p[2]))]]]

(* What fillStructure keeps of a signal, in words for the masks. *)
FillStructure(signal) ==
  [of |-> signal.of,
   direction   |-> IF signal.direction \in Directions THEN signal.direction ELSE "UNKNOWN",
   signal_type |-> signal.stream_type]

Filled(signals) == [k \in DOMAIN signals |-> FillStructure(signals[k])]

(* Mistake: the outputs come first. *)
MexOutputsFirst(content) ==
  Filled(Sides[content]["Receive"] \o Sides[content]["Send"])

(* The configuration that mexFunction returns: inputs first, then outputs. *)
Mex(content) == Filled(Sides[content]["Send"] \o Sides[content]["Receive"])

-----------------------------------------------------------------------------
(* Port numbering. *)
HasPort(signal, enabled) == enabled /\ signal.is_refresh

Places(signals, enabled) ==
  Len(signals) + Cardinality({k \in DOMAIN signals : HasPort(signals[k], enabled)})

(* Mistake: ports are numbered from 1. *)
FirstPortFromOne(signals, k, enabled) == Places(SubSeq(signals, 1, k - 1), enabled) + 1

(* Mistake: the data ports follow each other without a gap. *)
FirstPortDense(signals, k, enabled) == k - 1

(* iport at the k-th signal. *)
FirstPort(signals, k, enabled) == Places(SubSeq(signals, 1, k - 1), enabled)

(* The loop over the signals in initialize. *)
Numbered(signals, enabled) ==
  [k \in DOMAIN signals |->
     [signals[k] EXCEPT
        !.port_index    = FirstPort(signals, k, enabled),
        !.refresh_index = IF HasPort(signals[k], enabled)
                          THEN FirstPort(signals, k, enabled) + 1 ELSE -1]]

(* PortIndex and RefreshIndex as Receive::RTW and Send::RTW pass them to the code
   generation. *)
PortIndex(block) == [k \in DOMAIN side[block] |-> side[block][k].port_index]

RefreshIndex(block) ==
  [k \in DOMAIN side[block] |->
     IF block = "Receive" \/ (side[block][k].is_refresh /\ side[block][k].refresh_index >= 0)
     THEN side[block][k].refresh_index ELSE -1]

-----------------------------------------------------------------------------
(* The masks. *)

(* get.Configuration: ECIC.fromStruct gives nothing if the file is gone. *)
Available == workspace.file \in FileNames /\ disk[workspace.file] # NoFile
Configuration == IF Available THEN workspace.configuration ELSE <<>>

TYPES_FOR_REFRESH == {"A429", "A664", "A825"}
Refreshable(signal) == signal.signal_type \in TYPES_FOR_REFRESH

(* get.IsRefresh *)
IsRefresh ==
  Configuration = <<>> \/ \E k \in DOMAIN Configuration : Refreshable(Configuration[k])

(* The signals that the mask takes for those of its block. *)
Listed(block) ==
  LET own == Ascending({k \in DOMAIN Configuration :
                          Configuration[k].direction \in {Opposite(block), "INOUT"}})
  IN  [k \in DOMAIN own |-> Configuration[own[k]]]

Label(signal, what) == [of |-> signal.of, what |-> what]

(* The ports of a list of signals: <<k, 0>> carries the data of the k-th signal, and
   <<k, 1>>, if there is one, its refresh flag. *)
Slots(n, refreshed) == {s \in (1 .. n) \X {0, 1} : s[2] = 1 => s[1] \in refreshed}

(* getPorts; the number of a label is its position. *)
Labels(block) ==
  LET enabled == refresh[block] /\ (block = "Send" => IsRefresh)
      signals == Listed(block)
      slots   == InOrder(Slots(Len(signals),
                               {k \in DOMAIN signals : enabled /\ Refreshable(signals[k])}))
  IN  [p \in DOMAIN slots |-> Label(signals[slots[p][1]],
                                   IF slots[p][2] = 0 THEN "data" ELSE "refresh")]

(* What each port carries. *)
Carries(block) ==
  [p \in 1 .. nports[block] |->
     LET k == CHOOSE k \in DOMAIN side[block] :
                p - 1 \in {side[block][k].port_index, side[block][k].refresh_index}
     IN  Label(side[block][k],
               IF p - 1 = side[block][k].port_index THEN "data" ELSE "refresh")]

(* createBus.  The elements are the signals of the mask.  Those with refresh go
   through a bus of their own, from the port with their label and the next one; the
   others take what is left of the ports when the refresh ports are struck out. *)
Elements == Listed("Receive")
WithRefresh == {k \in DOMAIN Elements : Refreshable(Elements[k])}

(* Mistake: the data ports are struck out. *)
RemainingOffByOne == Ascending({p \in DOMAIN Labels("Receive") : p \notin WithRefresh})

(* source(find(refreshmask)+1) = [] *)
Remaining == Ascending({p \in DOMAIN Labels("Receive") : p - 1 \notin WithRefresh})

PortLabelled(label) == CHOOSE p \in DOMAIN Labels("Receive") : Labels("Receive")[p] = label

Sources ==
  [k \in DOMAIN Elements |->
     IF ~refresh["Receive"] THEN <<k>>
     ELSE IF k \in WithRefresh
     THEN LET p == PortLabelled(Label(Elements[k], "data")) IN <<p, p + 1>>
     ELSE <<Remaining[k]>>]

-----------------------------------------------------------------------------
(* saveConfigurationInModelWorkspace, for the file f in the mask: read again only if
   the name is not that of the configuration in the workspace. *)
Save(f) ==
  IF Available /\ workspace.file = f
  THEN UNCHANGED <<workspace, outdated>>
  ELSE /\ workspace' = [file |-> f, configuration |-> Mex(disk[f])]
       /\ outdated' = outdated \ {"workspace"}

(* Somebody writes, changes or deletes a file. *)
EditFile ==
  /\ edits < MaxEdits
  /\ \E f \in FileNames, c \in Contents \cup {NoFile} :
       /\ disk' = [disk EXCEPT ![f] = c]
       /\ outdated' = outdated \cup (IF f = workspace.file THEN {"workspace"} ELSE {})
                               \cup (IF f = connected THEN {"connector"} ELSE {})
  /\ edits' = edits + 1
  /\ UNCHANGED <<configured, workspace, refresh, connected, side, nports, seen, bus>>

(* The name is typed into the mask. *)
SetFileName ==
  /\ \E f \in FileNames : configured' = f
  /\ UNCHANGED <<disk, edits, workspace, refresh, connected, side, nports, seen, outdated, bus>>

(* browseConfigurationFile *)
Browse ==
  /\ \E f \in FileNames : disk[f] # NoFile /\ configured' = f /\ Save(f)
  /\ UNCHANGED <<disk, edits, refresh, connected, side, nports, seen, bus>>

(* LoadFcn and InitFcn; without the file the first does nothing and the second
   raises an error, which changes nothing either. *)
LoadOrInit ==
  /\ disk[configured] # NoFile
  /\ Save(configured)
  /\ UNCHANGED <<disk, edits, configured, refresh, connected, side, nports, seen, bus>>

(* enableRefresh, changeRefreshFactor, and the check box of the Send block *)
SetRefresh ==
  /\ \E block \in Blocks : refresh' = [refresh EXCEPT ![block] = ~@]
  /\ UNCHANGED <<disk, edits, configured, workspace, connected, side, nports, seen, outdated, bus>>

(* What the S-functions see of the parameter: it is a uint8, which they read through
   a pointer to int_T.  The bytes behind it are not theirs: with any other value in
   them the factor can have any sign, and the flag is not 1. *)
Seen(block, value) ==
  IF block = "Receive" THEN BOOLEAN ELSE {value, FALSE}

(* Mask initialisation (Receive.initialize) and mdlInitializeSizes of the three
   blocks: the connector reads the file, and the ports are numbered. *)
InitializeSizes ==
  /\ disk[configured] # NoFile
  /\ connected' = configured
  /\ refresh' = [refresh EXCEPT !["Receive"] = @ /\ IsRefresh]
  /\ seen' \in {e \in [Blocks -> BOOLEAN] : \A b \in Blocks : e[b] \in Seen(b, refresh'[b])}
  /\ LET signals == Sides[disk[configured]]
     IN  /\ side' = [block \in Blocks |-> Numbered(signals[block], seen'[block])]
         /\ nports' = [block \in Blocks |-> Places(signals[block], seen'[block])]
  /\ outdated' = outdated \ {"connector"}
  /\ UNCHANGED <<disk, edits, configured, workspace, bus>>

(* createBus of the Receive block, which ends up in a subsystem.  Lines to ports
   that do not exist are an error. *)
CreateBus ==
  /\ connected # "none" /\ bus.elements = <<>> /\ Elements # <<>>
  /\ \A k \in DOMAIN Sources : Sources[k][Len(Sources[k])] <= nports["Receive"]
  /\ bus' = [elements |-> Elements, sources |-> Sources, split |-> refresh["Receive"],
             carried |-> Carries("Receive"), labelled |-> Labels("Receive") = Carries("Receive")]
  /\ UNCHANGED <<disk, edits, configured, workspace, refresh, connected, side, nports, seen, outdated>>

NoBus ==
  [elements |-> <<>>, sources |-> <<>>, split |-> FALSE, carried |-> <<>>, labelled |-> TRUE]

Init ==
  /\ disk \in [FileNames -> Contents \cup {NoFile}]
  /\ edits = 0
  /\ configured \in FileNames
  /\ workspace = NoConfiguration
  /\ refresh = [block \in Blocks |-> FALSE]
  /\ connected = "none"
  /\ side = [block \in Blocks |-> <<>>]
  /\ nports = [block \in Blocks |-> 0]
  /\ seen = [block \in Blocks |-> FALSE]
  /\ outdated = {}
  /\ bus = NoBus

Next ==
  \/ EditFile \/ SetFileName \/ Browse \/ LoadOrInit \/ SetRefresh
  \/ InitializeSizes \/ CreateBus

Spec == Init /\ [][Next]_vars

-----------------------------------------------------------------------------
(* The domains of the variables. *)
TypeOK ==
  /\ disk \in [FileNames -> Contents \cup {NoFile}]
  /\ edits \in 0 .. MaxEdits
  /\ configured \in FileNames
  /\ workspace.file \in FileNames \cup {"none"}
  /\ connected \in FileNames \cup {"none"}
  /\ refresh \in [Blocks -> BOOLEAN] /\ seen \in [Blocks -> BOOLEAN]
  /\ outdated \subseteq {"workspace", "connector"}
  /\ \A block \in Blocks : \A k \in DOMAIN side[block] :
       /\ side[block][k].port_index \in 0 .. nports[block] - 1
       /\ side[block][k].refresh_index \in -1 .. nports[block] - 1

(* The tables for the code generation name every port of the block, each once: the
   loop that counts the ports and the loop that numbers them agree, on both blocks. *)
EveryPortOnce ==
  \A block \in Blocks :
    /\ \A k \in DOMAIN side[block] :
         /\ PortIndex(block)[k] \in 0 .. nports[block] - 1
         /\ RefreshIndex(block)[k] \in -1 .. nports[block] - 1
    /\ \A p \in 0 .. nports[block] - 1 :
         LET data      == {k \in DOMAIN side[block] : PortIndex(block)[k] = p}
             refreshes == {k \in DOMAIN side[block] : RefreshIndex(block)[k] = p}
         IN  \E k \in DOMAIN side[block] : {data, refreshes} = {{k}, {}}

(* The mask is looking at the ports that are there: the same file, not changed since
   either of them read it, and the same parameters. *)
UpToDate(block) ==
  /\ connected \in FileNames /\ workspace.file = connected
  /\ disk[connected] # NoFile /\ outdated = {}
  /\ seen[block] = refresh[block]

(* A664 messages whose direction in the CMD file is not that of their stream. *)
Disagrees(s, j) == s.kind = "A664" /\ s.messages[j] # s.direction

Agreeing(content) ==
  \A i \in DOMAIN content : \A j \in DOMAIN content[i].messages : ~Disagrees(content[i], j)

IsA825(signal) == signal.stream_type = "A825"

(* The labels of received signals have the A825 messages in front, those of sent
   signals have them at the end; the ports have all in the order of the file. *)
InLabelOrder(block) ==
  \A k, l \in DOMAIN side[block] : k < l =>
    IF block = "Receive"
    THEN IsA825(side[block][l]) => IsA825(side[block][k])
    ELSE IsA825(side[block][k]) => IsA825(side[block][l])

(* The labels tell what is on the ports exactly as long as no other received signal
   comes before an A825 message in the file (for sent signals: after one), if the
   A664 messages agree with their streams and nobody changed the file since it was
   put into the workspace. *)
LabelsRightExactly ==
  \A block \in Blocks :
    UpToDate(block) /\ Agreeing(disk[connected]) =>
      (Labels(block) = Carries(block) <=> InLabelOrder(block))

(* What arrives at the k-th element of the main bus. *)
Arrives(k) == bus.carried[bus.sources[k][1]]

(* Without A825 messages and other reasons for wrong labels, an element without
   refresh gets its own signal exactly if, with c elements with refresh in front of
   it, none of the next c - 1 has refresh.  Elements with refresh are right. *)
BusRightExactly ==
  bus.labelled => \A k \in DOMAIN bus.elements :
    LET before == {i \in 1 .. k - 1 : Refreshable(bus.elements[i])}
        next   == {i \in k + 1 .. k + Cardinality(before) - 1 :
                     i \in DOMAIN bus.elements /\ Refreshable(bus.elements[i])}
    IN  Arrives(k) = Label(bus.elements[k], "data")
          <=> (~bus.split \/ Refreshable(bus.elements[k]) \/ next = {})

(* "Connect all signals to main bus" (createBus): each to the element of its name. *)
BusConnectsAllSignals ==
  bus.labelled => \A k \in DOMAIN bus.elements : Arrives(k) = Label(bus.elements[k], "data")
=============================================================================
