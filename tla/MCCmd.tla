------------------------------- MODULE MCCmd -------------------------------
(***************************************************************************)
(* The instance of CmdReader for TLC: files of up to two nodes out of      *)
(* seven, and three that pass the limits, up to three of them read one     *)
(* after the other.  A bus has two places for messages, and there are two  *)
(* places for buses and one or two for the other nodes.                    *)
(***************************************************************************)
EXTENDS CmdReader, TLC

Node(tag, attributes, children) ==
  [tag |-> tag, attributes |-> attributes, children |-> children]
Child(tag, attributes) ==
  [element |-> TRUE, tag |-> tag, attributes |-> attributes]
Comment == [element |-> FALSE, tag |-> "comment", attributes |-> <<>>]

NoAttributes == [a \in {} |-> ""]

Full1 == Child("SamplingMessage",
           "Direction" :> "In" @@ "Name" :> "m1" @@ "ValidityDurationUs" :> "64000")
Bare1 == Child("QueuingMessage", "Direction" :> "Out" @@ "Name" :> "m2")
Odd1  == Child("Message", NoAttributes)

Bus1 == Node("A429_Bus", "Name" :> "b1", <<Full1, Comment, Bare1>>)
Bus2 == Node("A429_Bus", "Name" :> "b2", <<Bare1, Odd1, Full1>>)
Bus3 == Node("A429_Bus", NoAttributes, <<Odd1>>)

A664Full == Node("A664_SamplingMessage",
  "Direction" :> "InOut" @@ "Name" :> "b1" @@ "ValidityDurationUs" :> "1000", <<>>)
A664Bare == Node("A664_SamplingMessage", "Name" :> "b2" @@ "Direction" :> "in", <<>>)
A825Full == Node("A825_SamplingMessage",
  "Name" :> "b1" @@ "ValidityDurationUs" :> "1000" @@ "Direction" :> "In", <<>>)
NadFull  == Node("NAD_Variable",
  "Name" :> "n1" @@ "Type" :> "int8" @@ "Direction" :> "Out", <<>>)
NadBare  == Node("NAD_Variable", "Type" :> "int7", <<>>)
Text     == Node("text", NoAttributes, <<>>)

SomeNodes == {Bus1, Bus2, Bus3, A664Full, A664Bare, A825Full}

SomeFiles ==
  {<<>>} \cup {<<n>> : n \in SomeNodes} \cup {<<n, p>> : n, p \in SomeNodes}
  \cup {<<Bus1, Bus2, Bus3>>, <<Text, NadFull, NadBare>>, <<NadBare, A825Full, Bus2>>}

MCMaxOf == [tag \in Tags |-> IF tag \in {"A429_Bus", "NAD_Variable"} THEN 2 ELSE 1]
=============================================================================
