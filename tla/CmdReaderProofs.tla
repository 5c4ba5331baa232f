-------------------------- MODULE CmdReaderProofs --------------------------
(***************************************************************************)
(* Proofs about reading CMD files, for all files and all sizes of the      *)
(* arrays: what is stored where, although the structure is static and is   *)
(* not cleared between two files.                                          *)
(***************************************************************************)
EXTENDS CmdReader, FiniteSetTheorems, SequenceTheorems, TLAPS

(***************************************************************************)
(* Where the reader is.  Before the first file, and between two files, it  *)
(* stands behind the last node.                                            *)
(***************************************************************************)
Position ==
  /\ past = <<>> => /\ status \notin {"READING", "CMD_READ_OK"} /\ child = 0
                    /\ warned = {} /\ counter = ClearedCounters
  /\ past # <<>> =>
       /\ node \in 1 .. Len(File) + 1
       /\ status # "READING" => node = Len(File) + 1 /\ child = 0
       /\ child > 0 => /\ node <= Len(File) /\ Here.tag = "A429_Bus" /\ ~Full("A429_Bus")
                       /\ child <= Len(Here.children) + 1

(* The counters: the nodes of a tag so far, as many as there is room for; each of them
   has its place; the message tells of the others. *)
CounterIsRight(tag) ==
  LET n == Count(File, tag, node - 1)
  IN  /\ counter[tag] = IF n <= MaxOf[tag] THEN n ELSE MaxOf[tag]
      /\ tag \in warned <=> n > MaxOf[tag]
      /\ \A k \in 1 .. counter[tag] : \E i \in 1 .. (node - 1) : IsNth(File, tag, k, i)

CountersAreRight == past # <<>> => \A tag \in Tags : CounterIsRight(tag)

(* The messages of each bus so far, as many as there is room for. *)
MessagesAreCounted ==
  past # <<>> =>
    /\ \A k \in 1 .. counter["A429_Bus"] : \A i \in DOMAIN File :
         IsNth(File, "A429_Bus", k, i) =>
           IF n_messages[k] < MaxMessages THEN n_messages[k] = Messages(File[i])
           ELSE Messages(File[i]) >= MaxMessages
    /\ child > 0 => n_messages[Bus] = Elements(Here, child - 1)

(***************************************************************************)
(* What was stored: the nodes and children that were read up to now.       *)
(***************************************************************************)
NodeRead(p)  == p[1] < Len(past) \/ p[2] < node \/ (p[2] = node /\ child > 0)
ChildRead(p) == p[1] < Len(past) \/ p[2] < node \/ (p[2] = node /\ p[3] < child)

NodePlaces == UNION {{r} \X DOMAIN past[r] : r \in DOMAIN past}
ChildPlaces ==
  UNION {{p[1]} \X {p[2]} \X DOMAIN past[p[1]][p[2]].children : p \in NodePlaces}

NodeAt(p)  == past[p[1]][p[2]]
ChildAt(p) == NodeAt(p).children[p[3]]

(* The nodes read so far that gave attribute a of the k-th element of a tag. *)
SlotGivers(tag, k, a) ==
  {p \in NodePlaces : /\ IsNth(past[p[1]], tag, k, p[2]) /\ NodeRead(p)
                      /\ a \in DOMAIN NodeAt(p).attributes}

(* The fields that a child gives: the type is that of its name, which it always has. *)
HasField(c, a) == a = "Type" \/ a \in DOMAIN c.attributes
Field(c, a) == IF a = "Type" THEN MessageTypeFrom(c.tag) ELSE Stored(a, c.attributes[a])

(* The children read so far that gave field a of message m of the k-th bus. *)
MessageGivers(k, m, a) ==
  {p \in ChildPlaces : /\ IsNth(past[p[1]], "A429_Bus", k, p[2]) /\ IsMth(NodeAt(p), m, p[3])
                       /\ ChildRead(p) /\ HasField(ChildAt(p), a)}

(* Each place of the structure has what the latest file that gave it has given. *)
SlotIsLatest(tag, k, a) ==
  \/ SlotGivers(tag, k, a) = {} /\ slot[tag][k][a] = "zero"
  \/ \E p \in SlotGivers(tag, k, a) :
       /\ slot[tag][k][a] = Stored(a, NodeAt(p).attributes[a])
       /\ \A q \in SlotGivers(tag, k, a) : q[1] <= p[1]

MessageIsLatest(k, m, a) ==
  \/ MessageGivers(k, m, a) = {} /\ message[k][m][a] = "zero"
  \/ \E p \in MessageGivers(k, m, a) :
       /\ message[k][m][a] = Field(ChildAt(p), a)
       /\ \A q \in MessageGivers(k, m, a) : q[1] <= p[1]

AllLatest ==
  /\ \A tag \in Tags : \A k \in 1 .. MaxOf[tag], a \in FieldsOf(tag) : SlotIsLatest(tag, k, a)
  /\ \A k \in Buses, m \in 1 .. MaxMessages, a \in MessageFields \cup {"Type"} :
       MessageIsLatest(k, m, a)

CmdInv == TypeOK /\ Position /\ CountersAreRight /\ MessagesAreCounted /\ AllLatest

-----------------------------------------------------------------------------
(***************************************************************************)
(* Counting.                                                               *)
(***************************************************************************)

(* How many of a set of numbers are among the first n, and how this grows. *)
LEMMA CountStep ==
  ASSUME NEW S, NEW n \in Nat
  PROVE  /\ Cardinality(S \cap (1 .. n)) \in Nat
         /\ Cardinality(S \cap (1 .. 0)) = 0
         /\ Cardinality(S \cap (1 .. (n + 1))) =
              IF n + 1 \in S THEN Cardinality(S \cap (1 .. n)) + 1
                             ELSE Cardinality(S \cap (1 .. n))
         /\ \A m \in Nat : n <= m =>
              Cardinality(S \cap (1 .. n)) <= Cardinality(S \cap (1 .. m))
<1> DEFINE below(m) == S \cap (1 .. m)
<1>1. \A m \in Nat : IsFiniteSet(below(m))
  <2> SUFFICES ASSUME NEW m \in Nat
               PROVE  IsFiniteSet(below(m))
    OBVIOUS
  <2>1. IsFiniteSet(1 .. m)
    BY FS_Interval
  <2> QED
    BY <2>1, FS_Subset
<1>2. below(0) = {}
  OBVIOUS
<1>3. n + 1 \notin below(n)
  OBVIOUS
<1>4. below(n + 1) = IF n + 1 \in S THEN below(n) \cup {n + 1} ELSE below(n)
  OBVIOUS
<1>5. \A m \in Nat : n <= m => below(n) \subseteq below(m)
  OBVIOUS
<1> HIDE DEF below
<1>6. Cardinality(below(n)) \in Nat /\ Cardinality(below(0)) = 0
  BY <1>1, <1>2, FS_CardinalityType, FS_EmptySet
<1>7. Cardinality(below(n + 1)) =
        IF n + 1 \in S THEN Cardinality(below(n)) + 1 ELSE Cardinality(below(n))
  BY <1>1, <1>3, <1>4, FS_AddElement
<1>8. \A m \in Nat : n <= m => Cardinality(below(n)) <= Cardinality(below(m))
  BY <1>1, <1>5, FS_Subset
<1> QED
  BY <1>6, <1>7, <1>8 DEF below

(* The same of the nodes of a tag. *)
LEMMA CountIs ==
  ASSUME NEW f, NEW tag, NEW n \in Nat
  PROVE  /\ Count(f, tag, n) \in Nat /\ Count(f, tag, 0) = 0
         /\ Count(f, tag, n + 1) =
              IF f[n + 1].tag = tag THEN Count(f, tag, n) + 1 ELSE Count(f, tag, n)
         /\ \A m \in Nat : n <= m => Count(f, tag, n) <= Count(f, tag, m)
<1> DEFINE S == {i \in Nat : f[i].tag = tag}
<1>1. \A m \in Nat : Count(f, tag, m) = Cardinality(S \cap (1 .. m))
  <2> SUFFICES ASSUME NEW m \in Nat
               PROVE  {i \in 1 .. m : f[i].tag = tag} = S \cap (1 .. m)
    BY DEF Count
  <2> QED
    OBVIOUS
<1>2. n + 1 \in S <=> f[n + 1].tag = tag
  OBVIOUS
<1> HIDE DEF S
<1> DEFINE card(m) == Cardinality(S \cap (1 .. m))
<1>3. /\ card(n) \in Nat /\ card(0) = 0
      /\ n + 1 \in S => card(n + 1) = card(n) + 1
      /\ n + 1 \notin S => card(n + 1) = card(n)
      /\ \A m \in Nat : n <= m => card(n) <= card(m)
  BY CountStep
<1>4. \A m \in Nat : Count(f, tag, m) = card(m)
  BY <1>1
<1>5. n + 1 \in Nat /\ 0 \in Nat
  OBVIOUS
<1> HIDE DEF card
<1> QED
  BY <1>2, <1>3, <1>4, <1>5

(* The count up to a node, from that before it. *)
LEMMA CountOne ==
  ASSUME NEW f, NEW tag, NEW i \in Nat \ {0}
  PROVE  /\ Count(f, tag, i - 1) \in Nat
         /\ Count(f, tag, i) =
              IF f[i].tag = tag THEN Count(f, tag, i - 1) + 1 ELSE Count(f, tag, i - 1)
<1>1. i - 1 \in Nat /\ (i - 1) + 1 = i
  OBVIOUS
<1>2. Count(f, tag, i - 1) \in Nat
  BY <1>1, CountIs
<1>3. f[i].tag = tag => Count(f, tag, i) = Count(f, tag, i - 1) + 1
  BY <1>1, CountIs
<1>4. f[i].tag # tag => Count(f, tag, i) = Count(f, tag, i - 1)
  BY <1>1, CountIs
<1> QED
  BY <1>2, <1>3, <1>4

(* And of the messages of a bus. *)
LEMMA ElementsIs ==
  ASSUME NEW b, NEW n \in Nat
  PROVE  /\ Elements(b, n) \in Nat /\ Elements(b, 0) = 0
         /\ Elements(b, n + 1) =
              IF b.children[n + 1].element THEN Elements(b, n) + 1 ELSE Elements(b, n)
         /\ \A m \in Nat : n <= m => Elements(b, n) <= Elements(b, m)
<1> DEFINE S == {c \in Nat : b.children[c].element}
<1>1. \A m \in Nat : Elements(b, m) = Cardinality(S \cap (1 .. m))
  <2> SUFFICES ASSUME NEW m \in Nat
               PROVE  {c \in 1 .. m : b.children[c].element} = S \cap (1 .. m)
    BY DEF Elements
  <2> QED
    OBVIOUS
<1>2. n + 1 \in S <=> b.children[n + 1].element
  OBVIOUS
<1> HIDE DEF S
<1> DEFINE card(m) == Cardinality(S \cap (1 .. m))
<1>3. /\ card(n) \in Nat /\ card(0) = 0
      /\ n + 1 \in S => card(n + 1) = card(n) + 1
      /\ n + 1 \notin S => card(n + 1) = card(n)
      /\ \A m \in Nat : n <= m => card(n) <= card(m)
  BY CountStep
<1>4. \A m \in Nat : Elements(b, m) = card(m)
  BY <1>1
<1>5. n + 1 \in Nat /\ 0 \in Nat
  OBVIOUS
<1> HIDE DEF card
<1> QED
  BY <1>2, <1>3, <1>4, <1>5

(* There is one k-th node of a tag. *)
LEMMA NthIsOne ==
  ASSUME NEW f, IsList(f), NEW tag, NEW k, NEW i, IsNth(f, tag, k, i)
  PROVE  /\ i \in Nat \ {0} /\ k \in Nat \ {0}
         /\ \A j : IsNth(f, tag, k, j) => j = i
         /\ Nth(f, tag, k) = f[i]
<1>1. \A l, j \in DOMAIN f :
        f[j].tag = tag /\ l < j => Count(f, tag, l) < Count(f, tag, j)
  <2> SUFFICES ASSUME NEW l \in DOMAIN f, NEW j \in DOMAIN f, f[j].tag = tag, l < j
               PROVE  Count(f, tag, l) < Count(f, tag, j)
    OBVIOUS
  <2>1. l \in Nat /\ j \in Nat /\ j - 1 \in Nat /\ l <= j - 1 /\ (j - 1) + 1 = j
    BY DEF IsList
  <2>2. Count(f, tag, l) <= Count(f, tag, j - 1)
    BY <2>1, CountIs
  <2>3. Count(f, tag, j) = Count(f, tag, j - 1) + 1
    BY <2>1, CountIs
  <2>4. Count(f, tag, l) \in Nat /\ Count(f, tag, j - 1) \in Nat
    BY <2>1, CountIs
  <2> QED
    BY <2>2, <2>3, <2>4
<1>2. i \in Nat \ {0} /\ i - 1 \in Nat /\ (i - 1) + 1 = i
  BY DEF IsList, IsNth
<1>3. k \in Nat \ {0}
  <2>1. k = Count(f, tag, i) /\ f[i].tag = tag
    BY DEF IsNth
  <2>2. Count(f, tag, i) = Count(f, tag, i - 1) + 1 /\ Count(f, tag, i - 1) \in Nat
    BY <1>2, <2>1, CountIs
  <2> QED
    BY <2>1, <2>2
<1>4. ASSUME NEW j, IsNth(f, tag, k, j)
      PROVE  j = i
  <2>1. /\ i \in DOMAIN f /\ f[i].tag = tag /\ Count(f, tag, i) = k
        /\ j \in DOMAIN f /\ f[j].tag = tag /\ Count(f, tag, j) = k
    BY <1>4 DEF IsNth
  <2>2. i \in Nat /\ j \in Nat
    BY <2>1 DEF IsList
  <2>3. ~(i < j) /\ ~(j < i)
    BY <1>1, <1>3, <2>1
  <2> QED
    BY <2>2, <2>3
<1>5. Nth(f, tag, k) = f[i]
  <2>1. i \in DOMAIN f
    BY DEF IsNth
  <2>2. (CHOOSE j \in DOMAIN f : IsNth(f, tag, k, j)) = i
    BY <1>4, <2>1
  <2> QED
    BY <2>2 DEF Nth
<1> QED
  BY <1>2, <1>3, <1>4, <1>5

(* There is one m-th message of a bus. *)
LEMMA MthIsOne ==
  ASSUME NEW b, IsList(b.children), NEW m, NEW c, IsMth(b, m, c)
  PROVE  /\ c \in Nat \ {0} /\ m \in Nat \ {0}
         /\ \A d : IsMth(b, m, d) => d = c
         /\ Mth(b, m) = b.children[c]
<1>1. \A l, d \in DOMAIN b.children :
        b.children[d].element /\ l < d => Elements(b, l) < Elements(b, d)
  <2> SUFFICES ASSUME NEW l \in DOMAIN b.children, NEW d \in DOMAIN b.children,
                      b.children[d].element, l < d
               PROVE  Elements(b, l) < Elements(b, d)
    OBVIOUS
  <2>1. l \in Nat /\ d \in Nat /\ d - 1 \in Nat /\ l <= d - 1 /\ (d - 1) + 1 = d
    BY DEF IsList
  <2>2. Elements(b, l) <= Elements(b, d - 1)
    BY <2>1, ElementsIs
  <2>3. Elements(b, d) = Elements(b, d - 1) + 1
    BY <2>1, ElementsIs
  <2>4. Elements(b, l) \in Nat /\ Elements(b, d - 1) \in Nat
    BY <2>1, ElementsIs
  <2> QED
    BY <2>2, <2>3, <2>4
<1>2. c \in Nat \ {0} /\ c - 1 \in Nat /\ (c - 1) + 1 = c
  BY DEF IsList, IsMth
<1>3. m \in Nat \ {0}
  <2>1. m = Elements(b, c) /\ b.children[c].element
    BY DEF IsMth
  <2>2. Elements(b, c) = Elements(b, c - 1) + 1 /\ Elements(b, c - 1) \in Nat
    BY <1>2, <2>1, ElementsIs
  <2> QED
    BY <2>1, <2>2
<1>4. ASSUME NEW d, IsMth(b, m, d)
      PROVE  d = c
  <2>1. /\ c \in DOMAIN b.children /\ b.children[c].element /\ Elements(b, c) = m
        /\ d \in DOMAIN b.children /\ b.children[d].element /\ Elements(b, d) = m
    BY <1>4 DEF IsMth
  <2>2. c \in Nat /\ d \in Nat
    BY <2>1 DEF IsList
  <2>3. ~(c < d) /\ ~(d < c)
    BY <1>1, <1>3, <2>1
  <2> QED
    BY <2>2, <2>3
<1>5. Mth(b, m) = b.children[c]
  <2>1. c \in DOMAIN b.children
    BY DEF IsMth
  <2>2. (CHOOSE d \in DOMAIN b.children : IsMth(b, m, d)) = c
    BY <1>4, <2>1
  <2> QED
    BY <2>2 DEF Mth
<1> QED
  BY <1>2, <1>3, <1>4, <1>5

-----------------------------------------------------------------------------
(***************************************************************************)
(* Attributes and fields.                                                  *)
(***************************************************************************)

(* What is stored is a value of a field, whatever the conversion. *)
LEMMA StoredIs ==
  ASSUME NEW a, NEW v \in STRING
  PROVE  Stored(a, v) \in FieldValues
<1>1. DirectionFrom(v) \in FieldValues
  BY Zenon DEF DirectionFrom, FieldValues
<1>2. NadTypeFrom(v) \in FieldValues
  BY Zenon DEF NadTypeFrom, FieldValues
<1>3. CASE a = "Direction"
  BY <1>1, <1>3 DEF Stored
<1>4. CASE a = "Type"
  BY <1>2, <1>4 DEF Stored
<1>5. CASE a # "Direction" /\ a # "Type"
  BY <1>5 DEF Stored, FieldValues
<1> QED
  BY <1>3, <1>4, <1>5

(* The loop over the attributes of a node changes the fields that are known and
   given, and no others. *)
LEMMA AssignIs ==
  ASSUME NEW F, NEW fields \in [F -> FieldValues], NEW t, HasAttributes(t), NEW known
  PROVE  /\ Assign(fields, t, known) \in [F -> FieldValues]
         /\ \A a \in F : Assign(fields, t, known)[a] =
              IF a \in known /\ a \in DOMAIN t THEN Stored(a, t[a]) ELSE fields[a]
<1>1. \A a \in DOMAIN t : Stored(a, t[a]) \in FieldValues
  BY StoredIs DEF HasAttributes
<1>2. DOMAIN fields = F
  OBVIOUS
<1>3. Assign(fields, t, known) =
        [a \in F |-> IF a \in known \cap DOMAIN t THEN Stored(a, t[a]) ELSE fields[a]]
  BY <1>2 DEF Assign
<1> QED
  BY <1>1, <1>3

FieldNames == MessageFields \cup {"Type"}

(* So does the loop over those of a message, which also sets the type. *)
LEMMA AssignMessageIs ==
  ASSUME NEW fields \in [FieldNames -> FieldValues], NEW c, IsChild(c)
  PROVE  /\ AssignMessage(fields, c) \in [FieldNames -> FieldValues]
         /\ \A a \in FieldNames : AssignMessage(fields, c)[a] =
              IF HasField(c, a) THEN Field(c, a) ELSE fields[a]
<1> DEFINE d == Assign(fields, c.attributes, MessageFields)
<1>1. HasAttributes(c.attributes)
  BY DEF IsChild
<1>2. /\ d \in [FieldNames -> FieldValues]
      /\ \A a \in FieldNames : d[a] =
           IF a \in MessageFields /\ a \in DOMAIN c.attributes
           THEN Stored(a, c.attributes[a]) ELSE fields[a]
  BY <1>1, AssignIs
<1>3. MessageTypeFrom(c.tag) \in FieldValues
  BY Zenon DEF MessageTypeFrom, FieldValues
<1>4. AssignMessage(fields, c) = [d EXCEPT !["Type"] = MessageTypeFrom(c.tag)]
  BY DEF AssignMessage
<1>5. "Type" \notin MessageFields /\ \A a \in FieldNames : a # "Type" => a \in MessageFields
  BY DEF MessageFields, FieldNames
<1> HIDE DEF d
<1>6. AssignMessage(fields, c) \in [FieldNames -> FieldValues]
  BY <1>2, <1>3, <1>4
<1>7. ASSUME NEW a \in FieldNames
      PROVE  AssignMessage(fields, c)[a] = IF HasField(c, a) THEN Field(c, a) ELSE fields[a]
  <2>1. CASE a = "Type"
    BY <1>2, <1>4, <2>1 DEF HasField, Field
  <2>2. CASE a # "Type"
    <3>1. AssignMessage(fields, c)[a] = d[a] /\ a \in MessageFields
      BY <1>2, <1>4, <1>5, <2>2
    <3> QED
      BY <1>2, <2>2, <3>1 DEF HasField, Field
  <2> QED
    BY <2>1, <2>2
<1> QED
  BY <1>6, <1>7

(***************************************************************************)
(* The files read.                                                         *)
(***************************************************************************)

(* Each of them is a list of nodes, and the last is the present one. *)
LEMMA PastIs ==
  ASSUME TypeOK
  PROVE  /\ past \in Seq(Files) /\ Len(past) \in Nat /\ DOMAIN past = 1 .. Len(past)
         /\ \A r \in DOMAIN past : /\ IsList(past[r])
                                  /\ \A i \in DOMAIN past[r] : IsNode(past[r][i])
         /\ past # <<>> => /\ Len(past) \in DOMAIN past /\ Len(File) \in Nat
                           /\ DOMAIN File = 1 .. Len(File) /\ File = past[Len(past)]
<1>1. past \in Seq(Files)
  BY DEF TypeOK
<1>2. Len(past) \in Nat /\ DOMAIN past = 1 .. Len(past)
  BY <1>1, LenProperties
<1>3. \A r \in DOMAIN past : past[r] \in Files
  BY <1>1, <1>2, ElementOfSeq
<1>4. \A r \in DOMAIN past : IsList(past[r]) /\ \A i \in DOMAIN past[r] : IsNode(past[r][i])
  BY <1>3, CmdAssumption
<1>5. past # <<>> => Len(past) \in DOMAIN past
  BY <1>1, <1>2, EmptySeq
<1> QED
  BY <1>1, <1>2, <1>4, <1>5 DEF File, IsList

(* A place is a file and a node of it, and for a child also its number. *)
PlacesExist ==
  /\ \A p \in NodePlaces : p[1] \in DOMAIN past /\ p[2] \in DOMAIN past[p[1]] /\ p = <<p[1], p[2]>>
  /\ \A r \in DOMAIN past : \A i \in DOMAIN past[r] : <<r, i>> \in NodePlaces
  /\ \A p \in ChildPlaces :
       /\ p[1] \in DOMAIN past /\ p[2] \in DOMAIN past[p[1]]
       /\ p[3] \in DOMAIN past[p[1]][p[2]].children /\ p = <<p[1], p[2], p[3]>>
  /\ \A r \in DOMAIN past : \A i \in DOMAIN past[r] : \A c \in DOMAIN past[r][i].children :
       <<r, i, c>> \in ChildPlaces

(* These are the places. *)
LEMMA PlacesAre == PlacesExist
<1>1. /\ \A p \in NodePlaces : p[1] \in DOMAIN past /\ p[2] \in DOMAIN past[p[1]] /\ p = <<p[1], p[2]>>
      /\ \A r \in DOMAIN past : \A i \in DOMAIN past[r] : <<r, i>> \in NodePlaces
  BY DEF NodePlaces
<1>2. ASSUME NEW p \in ChildPlaces
      PROVE  /\ p[1] \in DOMAIN past /\ p[2] \in DOMAIN past[p[1]]
             /\ p[3] \in DOMAIN past[p[1]][p[2]].children /\ p = <<p[1], p[2], p[3]>>
  <2>1. PICK q \in NodePlaces : p \in {q[1]} \X {q[2]} \X DOMAIN past[q[1]][q[2]].children
    BY DEF ChildPlaces
  <2>2. q[1] \in DOMAIN past /\ q[2] \in DOMAIN past[q[1]]
    BY <1>1
  <2> QED
    BY <2>1, <2>2
<1>3. ASSUME NEW r \in DOMAIN past, NEW i \in DOMAIN past[r], NEW c \in DOMAIN past[r][i].children
      PROVE  <<r, i, c>> \in ChildPlaces
  <2>1. <<r, i>> \in NodePlaces
    BY <1>1
  <2> DEFINE q == <<r, i>>
  <2>2. <<r, i, c>> \in {q[1]} \X {q[2]} \X DOMAIN past[q[1]][q[2]].children
    OBVIOUS
  <2> QED
    BY <2>1, <2>2 DEF ChildPlaces
<1> QED
  BY <1>1, <1>2, <1>3 DEF PlacesExist

-----------------------------------------------------------------------------
(***************************************************************************)
(* The types and the position.                                             *)
(***************************************************************************)

(* The present node, and the place of the present bus, exist. *)
LEMMA HereIs ==
  ASSUME TypeOK, Position, status = "READING"
  PROVE  /\ past # <<>> /\ node \in 1 .. Len(File) + 1
         /\ node <= Len(File) => /\ node \in DOMAIN File /\ IsNode(Here)
                                 /\ Len(past) \in DOMAIN past /\ node \in DOMAIN past[Len(past)]
                                 /\ Here = past[Len(past)][node]
         /\ child > 0 => node <= Len(File) /\ Here.tag = "A429_Bus" /\ Bus \in Buses
<1>1. past # <<>>
  BY DEF Position
<1>2. node \in 1 .. Len(File) + 1
  BY <1>1 DEF Position
<1>3. /\ DOMAIN File = 1 .. Len(File) /\ Len(File) \in Nat /\ File = past[Len(past)]
      /\ Len(past) \in DOMAIN past /\ \A i \in DOMAIN past[Len(past)] : IsNode(past[Len(past)][i])
  BY <1>1, PastIs
<1>4. ASSUME child > 0
      PROVE  node <= Len(File) /\ Here.tag = "A429_Bus" /\ Bus \in Buses
  <2>1. node <= Len(File) /\ Here.tag = "A429_Bus" /\ ~Full("A429_Bus")
    BY <1>1, <1>4 DEF Position
  <2>2. counter["A429_Bus"] \in Nat /\ MaxOf["A429_Bus"] \in Nat
    BY CmdAssumption DEF TypeOK, Tags
  <2> QED
    BY <2>1, <2>2 DEF Full, Bus, Buses
<1> QED
  BY <1>1, <1>2, <1>3, <1>4 DEF Here

(* The place that a node takes, and what it makes of it. *)
LEMMA FillIs ==
  ASSUME TypeOK, Position, status = "READING", node <= Len(File), NEW tag \in Tags,
         Here.tag = tag, ~Full(tag),
         slot' = [slot EXCEPT ![tag][counter[tag] + 1] = Assign(@, Here.attributes, FieldsOf(tag))]
  PROVE  /\ counter[tag] + 1 \in 1 .. MaxOf[tag]
         /\ DOMAIN slot' = Tags
         /\ \A t \in Tags : slot'[t] \in [1 .. MaxOf[t] -> [FieldsOf(t) -> FieldValues]]
         /\ \A a \in FieldsOf(tag) : slot'[tag][counter[tag] + 1][a] =
              IF a \in DOMAIN Here.attributes THEN Stored(a, Here.attributes[a])
              ELSE slot[tag][counter[tag] + 1][a]
         /\ \A t \in Tags : \A l \in 1 .. MaxOf[t] :
              t # tag \/ l # counter[tag] + 1 => slot'[t][l] = slot[t][l]
<1> DEFINE k == counter[tag] + 1
           new == Assign(slot[tag][k], Here.attributes, FieldsOf(tag))
<1>1. k \in 1 .. MaxOf[tag]
  <2>1. counter[tag] \in 0 .. MaxOf[tag] /\ MaxOf[tag] \in Nat
    BY CmdAssumption DEF TypeOK
  <2>2. ~(counter[tag] >= MaxOf[tag])
    BY DEF Full
  <2> QED
    BY <2>1, <2>2
<1>2. slot[tag][k] \in [FieldsOf(tag) -> FieldValues]
  BY <1>1 DEF TypeOK
<1>3. HasAttributes(Here.attributes)
  BY HereIs DEF IsNode
<1>4. /\ new \in [FieldsOf(tag) -> FieldValues]
      /\ \A a \in FieldsOf(tag) : new[a] =
           IF a \in DOMAIN Here.attributes THEN Stored(a, Here.attributes[a]) ELSE slot[tag][k][a]
  BY <1>2, <1>3, AssignIs
<1>5. slot' = [slot EXCEPT ![tag][k] = new]
  BY <1>1 DEF TypeOK
<1> HIDE DEF k, new
<1>6. /\ DOMAIN slot' = Tags
      /\ \A t \in Tags : slot'[t] \in [1 .. MaxOf[t] -> [FieldsOf(t) -> FieldValues]]
      /\ slot'[tag][k] = new
      /\ \A t \in Tags : \A l \in 1 .. MaxOf[t] :
           t # tag \/ l # k => slot'[t][l] = slot[t][l]
  <2>1. DOMAIN slot = Tags /\ \A t \in Tags : slot[t] \in [1 .. MaxOf[t] -> [FieldsOf(t) -> FieldValues]]
    BY DEF TypeOK
  <2>2. DOMAIN slot' = Tags /\ slot'[tag] = [slot[tag] EXCEPT ![k] = new]
    BY <1>5, <2>1
  <2>3. \A t \in Tags : t # tag => slot'[t] = slot[t]
    BY <1>5, <2>1
  <2>4. slot[tag] \in [1 .. MaxOf[tag] -> [FieldsOf(tag) -> FieldValues]]
        /\ new \in [FieldsOf(tag) -> FieldValues]
    BY <1>4, <2>1
  <2>5. /\ slot'[tag] \in [1 .. MaxOf[tag] -> [FieldsOf(tag) -> FieldValues]]
        /\ slot'[tag][k] = new /\ \A l \in 1 .. MaxOf[tag] : l # k => slot'[tag][l] = slot[tag][l]
    <3> DEFINE K == 1 .. MaxOf[tag]
               V == [FieldsOf(tag) -> FieldValues]
               old == slot[tag]
               now == slot'[tag]
    <3>1. k \in K /\ old \in [K -> V] /\ new \in V /\ now = [old EXCEPT ![k] = new]
      BY <1>1, <2>2, <2>4
    <3> HIDE DEF K, V, old, now
    <3>2. now \in [K -> V] /\ now[k] = new /\ \A l \in K : l # k => now[l] = old[l]
      BY <3>1
    <3> QED
      BY <3>2 DEF K, V, old, now
  <2> QED
    BY <2>1, <2>2, <2>3, <2>5
<1>7. \A a \in FieldsOf(tag) : slot'[tag][k][a] =
           IF a \in DOMAIN Here.attributes THEN Stored(a, Here.attributes[a]) ELSE slot[tag][k][a]
  BY <1>4, <1>6
<1> QED
  BY <1>1, <1>6, <1>7 DEF k

(* The message that a child becomes. *)
LEMMA FillChildIs ==
  ASSUME TypeOK, Position, FillChild, Here.children[child].element
  PROVE  LET m == n_messages[Bus] + 1
         IN  /\ child \in DOMAIN Here.children /\ IsChild(Here.children[child])
             /\ m \in 1 .. MaxMessages /\ n_messages' = [n_messages EXCEPT ![Bus] = m]
             /\ message' \in [Buses -> [1 .. MaxMessages -> [FieldNames -> FieldValues]]]
             /\ \A a \in FieldNames : message'[Bus][m][a] =
                  IF HasField(Here.children[child], a) THEN Field(Here.children[child], a)
                  ELSE message[Bus][m][a]
             /\ \A b \in Buses, l \in 1 .. MaxMessages :
                  b # Bus \/ l # m => message'[b][l] = message[b][l]
<1> DEFINE m == n_messages[Bus] + 1
           c == Here.children[child]
           new == AssignMessage(message[Bus][m], c)
<1>1. status = "READING" /\ child > 0 /\ child <= Len(Here.children) /\ n_messages[Bus] < MaxMessages
  BY DEF FillChild, BusGoesOn
<1>2. IsNode(Here) /\ Bus \in Buses
  BY <1>1, HereIs
<1>3. child \in DOMAIN Here.children
  BY <1>1, <1>2 DEF TypeOK, IsNode, IsList
<1>4. IsChild(c)
  BY <1>2, <1>3 DEF IsNode
<1>5. m \in 1 .. MaxMessages
  BY <1>1, <1>2, CmdAssumption DEF TypeOK
<1>6. message \in [Buses -> [1 .. MaxMessages -> [FieldNames -> FieldValues]]]
  BY DEF TypeOK, FieldNames
<1>7. message[Bus][m] \in [FieldNames -> FieldValues]
  BY <1>2, <1>5, <1>6
<1>8. new \in [FieldNames -> FieldValues]
      /\ \A a \in FieldNames : new[a] = IF HasField(c, a) THEN Field(c, a) ELSE message[Bus][m][a]
  BY <1>4, <1>7, AssignMessageIs
<1>9. message' = [message EXCEPT ![Bus][m] = new] /\ n_messages' = [n_messages EXCEPT ![Bus] = m]
  BY <1>2, <1>5, <1>6 DEF FillChild
<1> HIDE DEF m, new, c
<1>10. /\ message' \in [Buses -> [1 .. MaxMessages -> [FieldNames -> FieldValues]]]
       /\ message'[Bus][m] = new
       /\ \A b \in Buses, l \in 1 .. MaxMessages : b # Bus \/ l # m => message'[b][l] = message[b][l]
  BY <1>2, <1>5, <1>6, <1>8, <1>9
<1>11. \A a \in FieldNames : message'[Bus][m][a] =
         IF HasField(c, a) THEN Field(c, a) ELSE message[Bus][m][a]
  BY <1>8, <1>10
<1> QED
  BY <1>3, <1>4, <1>5, <1>9, <1>10, <1>11 DEF m, c

(* Every step keeps the types. *)
LEMMA TypeStep ==
  ASSUME TypeOK, Position, [Next]_vars
  PROVE  TypeOK'
<1> DEFINE Pasts == past \in Seq(Files) /\ Len(past) <= MaxReads
           States == /\ status \in {"NONE", "READING", "CMD_READ_OK"} \cup ReadFailures
                     /\ node \in Nat /\ child \in Nat
           Counters == DOMAIN counter = Tags /\ \A tag \in Tags : counter[tag] \in 0 .. MaxOf[tag]
           Slots == /\ DOMAIN slot = Tags
                    /\ \A tag \in Tags : slot[tag] \in [1 .. MaxOf[tag] -> [FieldsOf(tag) -> FieldValues]]
           Numbers == n_messages \in [Buses -> 0 .. MaxMessages]
           Messages1 == message \in [Buses -> [1 .. MaxMessages -> [FieldNames -> FieldValues]]]
           Warnings == warned \subseteq Tags
<1>1. TypeOK <=> Pasts /\ States /\ Counters /\ Slots /\ Numbers /\ Messages1 /\ Warnings
  BY DEF TypeOK, FieldNames
<1>2. TypeOK' <=> Pasts' /\ States' /\ Counters' /\ Slots' /\ Numbers' /\ Messages1' /\ Warnings'
  BY DEF TypeOK, FieldNames
<1>3. Pasts /\ States /\ Counters /\ Slots /\ Numbers /\ Messages1 /\ Warnings
  BY <1>1
<1>4. MaxOf \in [Tags -> Nat \ {0}] /\ MaxMessages \in Nat \ {0} /\ MaxReads \in Nat
  BY CmdAssumption
<1>5. CASE Open
  <2>1. Pasts'
    <3>1. PICK f \in Files : past' = Append(past, f)
      BY <1>5 DEF Open
    <3> QED
      BY <1>3, <1>4, <1>5, <3>1, AppendProperties DEF Open
  <2>2. States' /\ Counters' /\ Warnings'
    BY <1>4, <1>5 DEF Open, ClearedCounters
  <2>3. Slots' /\ Numbers' /\ Messages1'
    BY <1>3, <1>5 DEF Open
  <2> HIDE DEF Pasts, States, Counters, Slots, Numbers, Messages1, Warnings
  <2> QED
    BY <1>2, <2>1, <2>2, <2>3
<1>6. CASE ReadFails
  <2>1. Pasts' /\ Counters' /\ Slots' /\ Numbers' /\ Messages1' /\ Warnings'
    BY <1>3, <1>6 DEF ReadFails
  <2>2. States'
    BY <1>3, <1>6 DEF ReadFails
  <2> HIDE DEF Pasts, States, Counters, Slots, Numbers, Messages1, Warnings
  <2> QED
    BY <1>2, <2>1, <2>2
<1>7. CASE SkipNode \/ Close
  <2>1. Pasts' /\ Counters' /\ Slots' /\ Numbers' /\ Messages1' /\ Warnings'
    BY <1>3, <1>7 DEF SkipNode, Close
  <2>2. States'
    BY <1>3, <1>7 DEF SkipNode, Close
  <2> HIDE DEF Pasts, States, Counters, Slots, Numbers, Messages1, Warnings
  <2> QED
    BY <1>2, <2>1, <2>2
<1>8. CASE TooMany
  <2>1. Pasts' /\ Counters' /\ Slots' /\ Numbers' /\ Messages1'
    BY <1>3, <1>8 DEF TooMany
  <2>2. States' /\ Warnings'
    BY <1>3, <1>8 DEF TooMany, At
  <2> HIDE DEF Pasts, States, Counters, Slots, Numbers, Messages1, Warnings
  <2> QED
    BY <1>2, <2>1, <2>2
<1>9. CASE FillNode
  <2> DEFINE tag == Here.tag
  <2>1. status = "READING" /\ node <= Len(File) /\ tag \in Tags /\ ~Full(tag)
    BY <1>9 DEF FillNode, At
  <2>2. slot' = [slot EXCEPT ![tag][counter[tag] + 1] = Assign(@, Here.attributes, FieldsOf(tag))]
    BY <1>9 DEF FillNode
  <2>3. counter[tag] + 1 \in 1 .. MaxOf[tag] /\ Slots'
    BY <2>1, <2>2, FillIs
  <2>4. Counters'
    <3>1. counter' = [counter EXCEPT ![tag] = @ + 1]
      BY <1>9 DEF FillNode
    <3> HIDE DEF tag
    <3>2. counter[tag] + 1 \in 0 .. MaxOf[tag]
      BY <1>4, <2>1, <2>3
    <3> QED
      BY <1>3, <2>1, <3>1, <3>2
  <2>5. Pasts' /\ Numbers' /\ Messages1' /\ Warnings'
    BY <1>3, <1>9 DEF FillNode
  <2>6. States'
    BY <1>3, <1>9 DEF FillNode
  <2> HIDE DEF Pasts, States, Counters, Slots, Numbers, Messages1, Warnings
  <2> QED
    BY <1>2, <2>3, <2>4, <2>5, <2>6
<1>10. CASE OpenBus
  <2>1. status = "READING" /\ node <= Len(File) /\ "A429_Bus" \in Tags /\ Here.tag = "A429_Bus"
        /\ ~Full("A429_Bus")
    BY <1>10 DEF OpenBus, At, Tags
  <2>2. slot' = [slot EXCEPT !["A429_Bus"][counter["A429_Bus"] + 1] =
                   Assign(@, Here.attributes, FieldsOf("A429_Bus"))]
    BY <1>10 DEF OpenBus
  <2>3. Slots'
    BY <2>1, <2>2, FillIs
  <2>4. Numbers'
    <3>1. n_messages' = [n_messages EXCEPT ![counter["A429_Bus"] + 1] = 0]
      BY <1>10 DEF OpenBus
    <3>2. 0 \in 0 .. MaxMessages
      BY <1>4
    <3> QED
      BY <1>3, <3>1, <3>2
  <2>5. Pasts' /\ Counters' /\ Messages1' /\ Warnings'
    BY <1>3, <1>10 DEF OpenBus
  <2>6. States'
    BY <1>3, <1>10 DEF OpenBus
  <2> HIDE DEF Pasts, States, Counters, Slots, Numbers, Messages1, Warnings
  <2> QED
    BY <1>2, <2>3, <2>4, <2>5, <2>6
<1>11. CASE FillChild
  <2>1. Pasts' /\ Counters' /\ Slots' /\ Warnings'
    BY <1>3, <1>11 DEF FillChild
  <2>2. States'
    BY <1>3, <1>11 DEF FillChild
  <2>3. CASE Here.children[child].element
    <3>1. LET m == n_messages[Bus] + 1
          IN  m \in 1 .. MaxMessages /\ n_messages' = [n_messages EXCEPT ![Bus] = m] /\ Messages1'
      BY <1>11, <2>3, FillChildIs
    <3>2. Numbers'
      <4> DEFINE m == n_messages[Bus] + 1
      <4>1. m \in 0 .. MaxMessages /\ n_messages' = [n_messages EXCEPT ![Bus] = m]
        BY <1>4, <3>1
      <4> HIDE DEF m
      <4> QED
        BY <1>3, <4>1
    <3> HIDE DEF Pasts, States, Counters, Slots, Numbers, Messages1, Warnings
    <3> QED
      BY <1>2, <2>1, <2>2, <3>1, <3>2
  <2>4. CASE ~Here.children[child].element
    <3>1. Numbers' /\ Messages1'
      BY <1>3, <1>11, <2>4 DEF FillChild
    <3> HIDE DEF Pasts, States, Counters, Slots, Numbers, Messages1, Warnings
    <3> QED
      BY <1>2, <2>1, <2>2, <3>1
  <2> QED
    BY <2>3, <2>4
<1>12. CASE CloseBus
  <2>1. Pasts' /\ Slots' /\ Numbers' /\ Messages1' /\ Warnings'
    BY <1>3, <1>12 DEF CloseBus
  <2>2. States'
    BY <1>3, <1>12 DEF CloseBus
  <2>3. Counters'
    <3>1. Bus \in 1 .. MaxOf["A429_Bus"] /\ "A429_Bus" \in Tags
      BY <1>12, HereIs DEF CloseBus, Buses, Tags
    <3>2. counter' = [counter EXCEPT !["A429_Bus"] = @ + 1]
      BY <1>12 DEF CloseBus
    <3>3. counter["A429_Bus"] + 1 \in 0 .. MaxOf["A429_Bus"]
      BY <1>4, <3>1 DEF Bus
    <3> QED
      BY <1>3, <3>1, <3>2, <3>3
  <2> HIDE DEF Pasts, States, Counters, Slots, Numbers, Messages1, Warnings
  <2> QED
    BY <1>2, <2>1, <2>2, <2>3
<1>13. CASE UNCHANGED vars
  <2>1. Pasts' /\ States' /\ Counters' /\ Slots' /\ Numbers' /\ Messages1' /\ Warnings'
    BY <1>3, <1>13 DEF vars
  <2> HIDE DEF Pasts, States, Counters, Slots, Numbers, Messages1, Warnings
  <2> QED
    BY <1>2, <2>1
<1> QED
  BY <1>5, <1>6, <1>7, <1>8, <1>9, <1>10, <1>11, <1>12, <1>13 DEF Next

(* Every step keeps the position. *)
LEMMA PositionStep ==
  ASSUME TypeOK, Position, [Next]_vars
  PROVE  Position'
<1> DEFINE Start == past = <<>> => /\ status \notin {"READING", "CMD_READ_OK"} /\ child = 0
                                   /\ warned = {} /\ counter = ClearedCounters
           Node == past # <<>> => node \in 1 .. Len(File) + 1
           Between == past # <<>> /\ status # "READING" => node = Len(File) + 1 /\ child = 0
           Within == past # <<>> /\ child > 0 =>
                       /\ node <= Len(File) /\ Here.tag = "A429_Bus" /\ ~Full("A429_Bus")
                       /\ child <= Len(Here.children) + 1
<1>1. Position <=> Start /\ Node /\ Between /\ Within
  BY DEF Position
<1>2. Position' <=> Start' /\ Node' /\ Between' /\ Within'
  BY DEF Position
<1>3. Start /\ Node /\ Between /\ Within
  BY <1>1
<1>4. TypeOK' /\ node \in Nat /\ child \in Nat
  BY TypeStep DEF TypeOK
<1>5. past' # <<>> => Len(File)' \in Nat
  <2>1. past' \in Seq(Files)
    BY <1>4 DEF TypeOK
  <2>2. ASSUME past' # <<>>
        PROVE  past'[Len(past')] \in Files
    BY <2>1, <2>2, LenProperties, EmptySeq, ElementOfSeq
  <2> QED
    BY <2>2, CmdAssumption DEF File, IsList
<1>6. CASE Open
  <2>1. PICK f \in Files : past' = Append(past, f)
    BY <1>6 DEF Open
  <2>2. past \in Seq(Files)
    BY DEF TypeOK
  <2>3. past' # <<>>
    BY <2>1, <2>2, AppendProperties
  <2>4. Start' /\ Node' /\ Between' /\ Within'
    BY <1>5, <1>6, <2>3 DEF Open
  <2> QED
    BY <1>2, <2>4
<1>7. ASSUME past' = past, past # <<>>, status = "READING"
      PROVE  past' # <<>> /\ File' = File /\ Len(File)' \in Nat /\ node \in 1 .. Len(File) + 1
  BY <1>3, <1>5, <1>7 DEF File
<1>8. CASE SkipNode \/ TooMany \/ FillNode \/ CloseBus
  <2>1. /\ past' = past /\ past # <<>> /\ status = "READING" /\ status' = status
        /\ node <= Len(File) /\ node' = node + 1 /\ child' = 0
    BY <1>3, <1>8 DEF SkipNode, TooMany, FillNode, CloseBus, At
  <2>2. Start' /\ Node' /\ Between' /\ Within'
    BY <1>4, <1>7, <2>1
  <2> QED
    BY <1>2, <2>2
<1>9. CASE OpenBus
  <2>1. /\ past' = past /\ past # <<>> /\ status = "READING" /\ status' = status
        /\ node <= Len(File) /\ node' = node /\ child' = 1
    BY <1>3, <1>9 DEF OpenBus, At
  <2>2. Start' /\ Node' /\ Between'
    BY <1>4, <1>7, <2>1
  <2>3. IsNode(Here) /\ Len(Here.children) \in Nat
    BY <2>1, HereIs DEF IsNode, IsList
  <2>4. Here.tag = "A429_Bus" /\ ~Full("A429_Bus") /\ counter' = counter
    BY <1>9 DEF OpenBus, At
  <2>5. Within'
    BY <1>7, <2>1, <2>3, <2>4 DEF Here, Full
  <2> QED
    BY <1>2, <2>2, <2>5
<1>10. CASE FillChild
  <2>1. /\ past' = past /\ past # <<>> /\ status = "READING" /\ status' = status
        /\ node' = node /\ child > 0 /\ child' = child + 1 /\ counter' = counter
        /\ child <= Len(Here.children)
    BY <1>3, <1>10 DEF FillChild, BusGoesOn
  <2>2. node <= Len(File) /\ Here.tag = "A429_Bus" /\ ~Full("A429_Bus")
    BY <1>3, <2>1
  <2>3. IsNode(Here) /\ Len(Here.children) \in Nat
    BY <2>1, <2>2, HereIs DEF IsNode, IsList
  <2>4. Start' /\ Node' /\ Between'
    BY <1>4, <1>7, <2>1
  <2>5. Within'
    BY <1>4, <1>7, <2>1, <2>2, <2>3 DEF Here, Full
  <2> QED
    BY <1>2, <2>4, <2>5
<1>11. CASE Close
  <2>1. /\ past' = past /\ past # <<>> /\ status = "READING"
        /\ node' = node /\ child = 0 /\ child' = 0 /\ node > Len(File)
    BY <1>3, <1>11 DEF Close
  <2>2. node = Len(File) + 1
    BY <1>7, <2>1
  <2>3. Start' /\ Node' /\ Between' /\ Within'
    BY <1>7, <2>1, <2>2
  <2> QED
    BY <1>2, <2>3
<1>12. CASE ReadFails \/ UNCHANGED vars
  <2>1. /\ past' = past /\ node' = node /\ child' = child /\ counter' = counter
        /\ warned' = warned
        /\ status' = status \/ (status # "READING" /\ status' \in ReadFailures)
    BY <1>12 DEF ReadFails, vars
  <2>2. File' = File /\ Here' = Here /\ (Full("A429_Bus")' <=> Full("A429_Bus"))
    BY <2>1 DEF File, Here, Full
  <2>3. status' = "READING" <=> status = "READING"
    BY <2>1 DEF ReadFailures
  <2>4. Start'
    BY <1>3, <2>1 DEF ReadFailures, ClearedCounters
  <2>5. Node' /\ Between' /\ Within'
    BY <1>3, <2>1, <2>2, <2>3
  <2> QED
    BY <1>2, <2>4, <2>5
<1> QED
  BY <1>6, <1>8, <1>9, <1>10, <1>11, <1>12 DEF Next

-----------------------------------------------------------------------------
(***************************************************************************)
(* The counters.                                                           *)
(***************************************************************************)

(* A step to the next node keeps the counter of a tag right: it counts the node if
   there is room, and else warns. *)
LEMMA CounterStep ==
  ASSUME TypeOK, Position, CountersAreRight, past' = past, status = "READING",
         node <= Len(File), node' = node + 1, NEW tag \in Tags,
         \/ Here.tag # tag /\ counter'[tag] = counter[tag] /\ (tag \in warned' <=> tag \in warned)
         \/ Here.tag = tag /\ Full(tag) /\ counter'[tag] = counter[tag] /\ tag \in warned'
         \/ Here.tag = tag /\ ~Full(tag) /\ counter'[tag] = counter[tag] + 1
              /\ (tag \in warned' <=> tag \in warned)
  PROVE  CounterIsRight(tag)'
<1> DEFINE n == Count(File, tag, node - 1)
           now == Count(File, tag, node)
           max == MaxOf[tag]
           c == counter[tag]
           d == counter'[tag]
           Counted(k) == \E i \in 1 .. (node - 1) : IsNth(File, tag, k, i)
           CountedNow(k) == \E i \in 1 .. node : IsNth(File, tag, k, i)
<1>1. past # <<>> /\ node \in DOMAIN File /\ node \in Nat \ {0}
  BY HereIs
<1>2. /\ c = IF n <= max THEN n ELSE max
      /\ tag \in warned <=> n > max
      /\ \A k \in 1 .. c : Counted(k)
  BY <1>1 DEF CountersAreRight, CounterIsRight
<1>3. n \in Nat /\ now = IF Here.tag = tag THEN n + 1 ELSE n
  <2>1. n \in Nat /\ now = IF File[node].tag = tag THEN n + 1 ELSE n
    BY <1>1, CountOne
  <2> QED
    BY <2>1 DEF Here
<1>4. max \in Nat \ {0} /\ (Full(tag) <=> c >= max)
  BY CmdAssumption DEF Full
<1>5. \A k : Counted(k) => CountedNow(k)
  BY <1>1
<1>6. Here.tag = tag => CountedNow(now)
  <2>1. Here.tag = tag => IsNth(File, tag, now, node)
    BY <1>1 DEF IsNth, Here
  <2> QED
    BY <1>1, <2>1
<1>7. File' = File /\ node' - 1 = node
  BY <1>1 DEF File
<1> HIDE DEF n, now, max, c, Counted, CountedNow
<1>8. \/ Here.tag # tag /\ d = c /\ (tag \in warned' <=> tag \in warned)
      \/ Here.tag = tag /\ Full(tag) /\ d = c /\ tag \in warned'
      \/ Here.tag = tag /\ ~Full(tag) /\ d = c + 1 /\ (tag \in warned' <=> tag \in warned)
  BY DEF c
<1> HIDE DEF d
<1>9. d = IF now <= max THEN now ELSE max
  BY <1>2, <1>3, <1>4, <1>8
<1>10. tag \in warned' <=> now > max
  BY <1>2, <1>3, <1>4, <1>8
<1>11. ASSUME NEW k \in 1 .. d
       PROVE  CountedNow(k)
  <2>1. CASE k \in 1 .. c
    BY <1>2, <1>5, <2>1
  <2>2. CASE k \notin 1 .. c
    <3>1. Here.tag = tag /\ d = c + 1 /\ ~Full(tag)
      BY <1>2, <1>3, <1>4, <1>8, <2>2
    <3>2. k = now
      BY <1>2, <1>3, <1>4, <2>2, <3>1
    <3> QED
      BY <1>6, <3>1, <3>2
  <2> QED
    BY <2>1, <2>2
<1>12. CounterIsRight(tag)' <=> /\ d = IF now <= max THEN now ELSE max
                                /\ tag \in warned' <=> now > max
                                /\ \A k \in 1 .. d : CountedNow(k)
  BY <1>7 DEF CounterIsRight, d, now, max, CountedNow
<1> QED
  BY <1>9, <1>10, <1>11, <1>12

(* Every step keeps the counters right. *)
LEMMA CountersStep ==
  ASSUME TypeOK, Position, CountersAreRight, [Next]_vars
  PROVE  CountersAreRight'
<1> USE DEF CountersAreRight
<1>1. TypeOK' /\ DOMAIN counter = Tags /\ DOMAIN counter' = Tags
  BY TypeStep DEF TypeOK
<1>2. CASE Open
  <2>1. node' = 1 /\ counter' = ClearedCounters /\ warned' = {}
    BY <1>2 DEF Open
  <2>2. ASSUME NEW tag \in Tags
        PROVE  CounterIsRight(tag)'
    <3>1. Count(File', tag, 0) = 0 /\ node' - 1 = 0
      BY <2>1, CountIs
    <3>2. counter'[tag] = 0 /\ tag \notin warned' /\ MaxOf[tag] \in Nat \ {0}
      BY <2>1, CmdAssumption DEF ClearedCounters
    <3> QED
      BY <3>1, <3>2 DEF CounterIsRight
  <2> QED
    BY <2>2
<1>3. CASE SkipNode \/ TooMany \/ FillNode \/ CloseBus
  <2>1. past' = past /\ status = "READING" /\ node <= Len(File) /\ node' = node + 1
    BY <1>3, HereIs DEF SkipNode, TooMany, FillNode, CloseBus, At
  <2>2. ASSUME NEW tag \in Tags
        PROVE  CounterIsRight(tag)'
    <3>1. CASE SkipNode
      <4>1. Here.tag # tag /\ counter'[tag] = counter[tag] /\ (tag \in warned' <=> tag \in warned)
        BY <3>1 DEF SkipNode
      <4> QED
        BY <2>1, <4>1, CounterStep
    <3>2. CASE TooMany
      <4>1. Full(Here.tag) /\ counter' = counter /\ warned' = warned \cup {Here.tag}
        BY <3>2 DEF TooMany
      <4>2. CASE Here.tag = tag
        BY <2>1, <4>1, <4>2, CounterStep
      <4>3. CASE Here.tag # tag
        <5>1. tag \in warned' <=> tag \in warned
          BY <4>1, <4>3
        <5> QED
          BY <2>1, <4>1, <4>3, <5>1, CounterStep
      <4> QED
        BY <4>2, <4>3
    <3>3. CASE FillNode
      <4>1. /\ ~Full(Here.tag) /\ warned' = warned
            /\ counter' = [counter EXCEPT ![Here.tag] = counter[Here.tag] + 1]
        BY <3>3 DEF FillNode
      <4>2. CASE Here.tag = tag
        <5>1. counter'[tag] = counter[tag] + 1
          BY <1>1, <4>1, <4>2
        <5> QED
          BY <2>1, <4>1, <4>2, <5>1, CounterStep
      <4>3. CASE Here.tag # tag
        <5>1. counter'[tag] = counter[tag]
          BY <1>1, <4>1, <4>3
        <5> QED
          BY <2>1, <4>1, <4>3, <5>1, CounterStep
      <4> QED
        BY <4>2, <4>3
    <3>4. CASE CloseBus
      <4>1. /\ warned' = warned /\ child > 0
            /\ counter' = [counter EXCEPT !["A429_Bus"] = counter["A429_Bus"] + 1]
        BY <3>4 DEF CloseBus
      <4>2. Here.tag = "A429_Bus" /\ ~Full("A429_Bus")
        BY <2>1, <4>1, HereIs DEF Position
      <4>3. CASE tag = "A429_Bus"
        <5>1. counter'[tag] = counter[tag] + 1
          BY <1>1, <4>1, <4>3
        <5> QED
          BY <2>1, <4>1, <4>2, <4>3, <5>1, CounterStep
      <4>4. CASE tag # "A429_Bus"
        <5>1. counter'[tag] = counter[tag]
          BY <1>1, <4>1, <4>4
        <5> QED
          BY <2>1, <4>1, <4>2, <4>4, <5>1, CounterStep
      <4> QED
        BY <4>3, <4>4
    <3> QED
      BY <1>3, <3>1, <3>2, <3>3, <3>4
  <2> QED
    BY <2>2
<1>4. CASE OpenBus \/ FillChild \/ Close \/ ReadFails \/ UNCHANGED vars
  <2>1. past' = past /\ node' = node /\ counter' = counter /\ warned' = warned
    BY <1>4 DEF OpenBus, FillChild, Close, ReadFails, vars
  <2> QED
    BY <2>1 DEF CounterIsRight, File
<1> QED
  BY <1>2, <1>3, <1>4 DEF Next

(* The place of the k-th bus, and what a bus is closed at. *)
MessagesAreRight(k, bus) ==
  IF n_messages[k] < MaxMessages THEN n_messages[k] = Messages(bus)
  ELSE Messages(bus) >= MaxMessages

(* Every step keeps the number of messages of each bus right. *)
LEMMA MessagesStep ==
  ASSUME TypeOK, Position, CountersAreRight, MessagesAreCounted, [Next]_vars
  PROVE  MessagesAreCounted'
<1> DEFINE Before == \A k \in 1 .. counter["A429_Bus"] : \A i \in DOMAIN File :
                       IsNth(File, "A429_Bus", k, i) => MessagesAreRight(k, File[i])
           Here1 == child > 0 => n_messages[Bus] = Elements(Here, child - 1)
<1>1. MessagesAreCounted <=> (past # <<>> => Before /\ Here1)
  BY Zenon DEF MessagesAreCounted, MessagesAreRight
<1>2. MessagesAreCounted' <=> (past' # <<>> => Before' /\ Here1')
  BY Zenon DEF MessagesAreCounted, MessagesAreRight
<1>3. past # <<>> => Before /\ Here1
  BY <1>1
<1>0. TypeOK'
  BY TypeStep
<1>4. counter["A429_Bus"] \in Nat /\ counter'["A429_Bus"] \in Nat /\ child \in Nat
      /\ n_messages \in [Buses -> 0 .. MaxMessages] /\ MaxMessages \in Nat
  <2>1. "A429_Bus" \in Tags /\ MaxOf["A429_Bus"] \in Nat /\ MaxMessages \in Nat
    BY CmdAssumption DEF Tags
  <2>2. counter["A429_Bus"] \in 0 .. MaxOf["A429_Bus"] /\ counter'["A429_Bus"] \in 0 .. MaxOf["A429_Bus"]
    BY <1>0, <2>1 DEF TypeOK
  <2> QED
    BY <2>1, <2>2 DEF TypeOK
<1>5. CASE Open
  <2>1. child' = 0 /\ counter'["A429_Bus"] = 0
    BY <1>5 DEF Open, ClearedCounters, Tags
  <2>2. Before' /\ Here1'
    BY <2>1
  <2> HIDE DEF Before, Here1
  <2> QED
    BY <1>2, <2>2
<1>6. CASE SkipNode \/ TooMany \/ FillNode
  <2>1. /\ past' = past /\ status = "READING" /\ child' = 0 /\ n_messages' = n_messages
        /\ counter'["A429_Bus"] = counter["A429_Bus"]
    BY <1>6 DEF SkipNode, TooMany, FillNode, At, TypeOK, Tags
  <2>2. past # <<>> /\ File' = File
    BY <2>1, HereIs DEF File
  <2>3. Before'
    BY <1>3, <2>1, <2>2 DEF MessagesAreRight
  <2>4. Here1'
    BY <2>1
  <2> HIDE DEF Before, Here1
  <2> QED
    BY <1>2, <2>3, <2>4
<1>7. CASE OpenBus
  <2>1. /\ past' = past /\ status = "READING" /\ child' = 1 /\ node' = node /\ counter' = counter
        /\ node <= Len(File) /\ ~Full("A429_Bus")
        /\ n_messages' = [n_messages EXCEPT ![Bus] = 0]
    BY <1>7 DEF OpenBus, At, Bus
  <2>2. past # <<>> /\ File' = File
    BY <2>1, HereIs DEF File
  <2>3. Bus \in Buses /\ Bus' = Bus
    BY <1>4, <2>1, CmdAssumption DEF Full, Bus, Buses, Tags
  <2>4. n_messages'[Bus] = 0 /\ \A k \in 1 .. counter["A429_Bus"] : n_messages'[k] = n_messages[k]
    BY <1>4, <2>1, <2>3 DEF Bus, Buses
  <2>5. Before'
    BY <1>3, <2>1, <2>2, <2>4 DEF MessagesAreRight
  <2>6. Here1'
    BY <2>1, <2>3, <2>4, ElementsIs
  <2> HIDE DEF Before, Here1
  <2> QED
    BY <1>2, <2>5, <2>6
<1>8. CASE FillChild
  <2>1. /\ past' = past /\ status = "READING" /\ child > 0 /\ child' = child + 1 /\ node' = node
        /\ counter' = counter
    BY <1>8 DEF FillChild
  <2>2. past # <<>> /\ File' = File /\ Here' = Here /\ Bus \in Buses /\ Bus' = Bus
    BY <2>1, HereIs DEF File, Here, Bus
  <2>3. n_messages[Bus] = Elements(Here, child - 1)
    BY <1>3, <2>1, <2>2
  <2>4. Elements(Here, child) = IF Here.children[child].element THEN Elements(Here, child - 1) + 1
                                ELSE Elements(Here, child - 1)
    <3>1. child - 1 \in Nat /\ (child - 1) + 1 = child
      BY <1>4, <2>1
    <3> QED
      BY <3>1, ElementsIs
  <2>5. /\ n_messages'[Bus] = Elements(Here, child)
        /\ \A k \in 1 .. counter["A429_Bus"] : n_messages'[k] = n_messages[k]
    <3>1. CASE Here.children[child].element
      <4>1. n_messages' = [n_messages EXCEPT ![Bus] = n_messages[Bus] + 1]
        BY <1>8, <3>1 DEF FillChild
      <4>2. \A k \in 1 .. counter["A429_Bus"] : k # Bus
        BY <1>4 DEF Bus
      <4>3. \A k \in 1 .. counter["A429_Bus"] : k \in Buses
        BY <1>4, <2>2, CmdAssumption DEF Bus, Buses, Tags
      <4> QED
        BY <1>4, <2>2, <2>3, <2>4, <3>1, <4>1, <4>2, <4>3
    <3>2. CASE ~Here.children[child].element
      BY <1>8, <2>3, <2>4, <3>2 DEF FillChild
    <3> QED
      BY <3>1, <3>2
  <2>6. Before'
    BY <1>3, <2>1, <2>2, <2>5 DEF MessagesAreRight
  <2>7. Here1'
    <3>1. child' - 1 = child
      BY <1>4, <2>1
    <3> QED
      BY <2>2, <2>5, <3>1
  <2> HIDE DEF Before, Here1
  <2> QED
    BY <1>2, <2>6, <2>7
<1>9. CASE CloseBus
  <2>1. /\ past' = past /\ status = "READING" /\ child > 0 /\ ~BusGoesOn /\ child' = 0
        /\ n_messages' = n_messages
        /\ counter' = [counter EXCEPT !["A429_Bus"] = counter["A429_Bus"] + 1]
    BY <1>9 DEF CloseBus
  <2>2. /\ past # <<>> /\ File' = File /\ Bus \in Buses /\ node \in DOMAIN File
        /\ Here.tag = "A429_Bus" /\ IsNode(Here) /\ node \in Nat \ {0}
    BY <2>1, HereIs DEF File
  <2>3. counter'["A429_Bus"] = Bus
    BY <2>1 DEF TypeOK, Tags, Bus
  <2>4. MessagesAreRight(Bus, Here)
    <3>1. n_messages[Bus] = Elements(Here, child - 1)
      BY <1>3, <2>1, <2>2
    <3>2. child <= Len(Here.children) + 1 /\ Len(Here.children) \in Nat /\ child - 1 \in Nat
      BY <1>4, <2>1, <2>2 DEF Position, IsNode, IsList
    <3>3. Elements(Here, child - 1) <= Messages(Here) /\ Messages(Here) \in Nat
      <4>1. child - 1 <= Len(Here.children)
        BY <1>4, <3>2
      <4> QED
        BY <3>2, <4>1, ElementsIs DEF Messages
    <3>4. CASE n_messages[Bus] < MaxMessages
      <4>1. child - 1 = Len(Here.children)
        BY <1>4, <2>1, <3>2, <3>4 DEF BusGoesOn
      <4> QED
        BY <3>1, <3>4, <4>1 DEF MessagesAreRight, Messages
    <3>5. CASE ~(n_messages[Bus] < MaxMessages)
      <4>1. n_messages[Bus] \in Nat
        BY <1>4, <2>2
      <4> QED
        BY <1>4, <3>1, <3>3, <3>5, <4>1 DEF MessagesAreRight
    <3> QED
      BY <3>4, <3>5
  <2>5. IsNth(File, "A429_Bus", Bus, node)
    <3>1. CounterIsRight("A429_Bus") /\ ~Full("A429_Bus")
      BY <2>1, <2>2 DEF CountersAreRight, Position, Tags
    <3>2. counter["A429_Bus"] = Count(File, "A429_Bus", node - 1)
      <4>1. Count(File, "A429_Bus", node - 1) \in Nat /\ MaxOf["A429_Bus"] \in Nat
        BY <2>2, CountIs, CmdAssumption DEF Tags
      <4> QED
        BY <3>1, <4>1 DEF CounterIsRight, Full
    <3>3. Count(File, "A429_Bus", node) = Count(File, "A429_Bus", node - 1) + 1
      <4>1. node - 1 \in Nat /\ (node - 1) + 1 = node
        BY <2>2
      <4>2. Count(File, "A429_Bus", node) =
              IF File[node].tag = "A429_Bus" THEN Count(File, "A429_Bus", node - 1) + 1
              ELSE Count(File, "A429_Bus", node - 1)
        BY <4>1, CountIs
      <4> QED
        BY <2>2, <4>2 DEF Here
    <3> QED
      BY <2>2, <3>2, <3>3 DEF IsNth, Here, Bus
  <2>6. ASSUME NEW k \in 1 .. Bus, NEW i \in DOMAIN File, IsNth(File, "A429_Bus", k, i)
        PROVE  MessagesAreRight(k, File[i])
    <3>1. CASE k \in 1 .. counter["A429_Bus"]
      BY <1>3, <2>2, <2>6, <3>1
    <3>2. CASE k \notin 1 .. counter["A429_Bus"]
      <4>1. k = Bus
        BY <1>4, <3>2 DEF Bus
      <4>2. IsList(File)
        BY <2>2, PastIs
      <4>3. i = node
        BY <2>5, <2>6, <4>1, <4>2, NthIsOne
      <4> QED
        BY <2>4, <4>1, <4>3 DEF Here
    <3> QED
      BY <3>1, <3>2
  <2>7. Before'
    BY <2>1, <2>2, <2>3, <2>6 DEF MessagesAreRight
  <2>8. Here1'
    BY <2>1
  <2> HIDE DEF Before, Here1
  <2> QED
    BY <1>2, <2>7, <2>8
<1>10. CASE Close \/ ReadFails \/ UNCHANGED vars
  <2>1. past' = past /\ node' = node /\ child' = child /\ counter' = counter
        /\ n_messages' = n_messages
    BY <1>10 DEF Close, ReadFails, vars
  <2>2. File' = File /\ Here' = Here /\ Bus' = Bus
    BY <2>1 DEF File, Here, Bus
  <2>3. past # <<>> => Before' /\ Here1'
    BY <1>3, <2>1, <2>2 DEF MessagesAreRight
  <2> HIDE DEF Before, Here1
  <2> QED
    BY <1>2, <2>1, <2>3
<1> QED
  BY <1>5, <1>6, <1>7, <1>8, <1>9, <1>10 DEF Next

-----------------------------------------------------------------------------
(***************************************************************************)
(* What is stored.                                                         *)
(***************************************************************************)

SlotsLatest == \A tag \in Tags : \A k \in 1 .. MaxOf[tag], a \in FieldsOf(tag) : SlotIsLatest(tag, k, a)
MessagesLatest == \A k \in Buses, m \in 1 .. MaxMessages, a \in FieldNames : MessageIsLatest(k, m, a)

(* The node that a place is taken for is the one of this rank. *)
LEMMA RankIs ==
  ASSUME TypeOK, Position, CountersAreRight, status = "READING", node <= Len(File),
         NEW tag \in Tags, Here.tag = tag
  PROVE  /\ ~Full(tag) => IsNth(File, tag, counter[tag] + 1, node)
         /\ Full(tag) => \A k : IsNth(File, tag, k, node) => k > MaxOf[tag]
<1>1. past # <<>> /\ node \in DOMAIN File /\ node \in Nat \ {0} /\ File[node].tag = tag
  BY HereIs DEF Here
<1>2. /\ Count(File, tag, node - 1) \in Nat
      /\ Count(File, tag, node) = Count(File, tag, node - 1) + 1
  BY <1>1, CountOne
<1>3. MaxOf[tag] \in Nat \ {0}
  BY CmdAssumption
<1>4. counter[tag] = IF Count(File, tag, node - 1) <= MaxOf[tag] THEN Count(File, tag, node - 1)
                     ELSE MaxOf[tag]
  BY <1>1 DEF CountersAreRight, CounterIsRight
<1>5. ASSUME ~Full(tag)
      PROVE  IsNth(File, tag, counter[tag] + 1, node)
  <2>1. counter[tag] = Count(File, tag, node - 1)
    BY <1>2, <1>3, <1>4, <1>5 DEF Full
  <2> QED
    BY <1>1, <1>2, <2>1 DEF IsNth
<1>6. ASSUME Full(tag), NEW k, IsNth(File, tag, k, node)
      PROVE  k > MaxOf[tag]
  <2>1. k = Count(File, tag, node)
    BY <1>6 DEF IsNth
  <2>2. Count(File, tag, node - 1) >= MaxOf[tag]
    BY <1>2, <1>3, <1>4, <1>6 DEF Full
  <2> QED
    BY <1>2, <1>3, <2>1, <2>2
<1> QED
  BY <1>5, <1>6

(* Which nodes are read by a step. *)
LEMMA NodeReadIs ==
  ASSUME TypeOK, Position, past' = past, NEW p \in NodePlaces
  PROVE  /\ \/ node' = node + 1 /\ child' = 0 /\ child = 0
            \/ node' = node /\ child = 0 /\ child' = 1
            => (NodeRead(p)' <=> NodeRead(p) \/ (p[1] = Len(past) /\ p[2] = node))
         /\ \/ node' = node + 1 /\ child' = 0 /\ child > 0
            \/ node' = node /\ child' = child
            \/ node' = node /\ child > 0 /\ child' > 0
            => (NodeRead(p)' <=> NodeRead(p))
<1>1. p[1] \in 1 .. Len(past) /\ Len(past) \in Nat
  BY PlacesAre, PastIs DEF PlacesExist
<1>2. p[2] \in Nat \ {0}
  <2>1. p[1] \in DOMAIN past /\ p[2] \in DOMAIN past[p[1]] /\ IsList(past[p[1]])
    BY PlacesAre, PastIs DEF PlacesExist
  <2> QED
    BY <2>1 DEF IsList
<1>3. node \in Nat /\ child \in Nat
  BY DEF TypeOK
<1> QED
  BY <1>1, <1>2, <1>3 DEF NodeRead

(* Which children are read by a step. *)
LEMMA ChildReadIs ==
  ASSUME TypeOK, Position, past' = past, NEW p \in ChildPlaces
  PROVE  /\ node' = node + 1 /\ child' = 0
            => (ChildRead(p)' <=> ChildRead(p) \/ (p[1] = Len(past) /\ p[2] = node))
         /\ node' = node /\ child' = child + 1
            => (ChildRead(p)' <=> ChildRead(p) \/ (p[1] = Len(past) /\ p[2] = node /\ p[3] = child))
         /\ node' = node /\ child' = child => (ChildRead(p)' <=> ChildRead(p))
         /\ p[1] = Len(past) /\ p[2] = node /\ p[3] >= child => ~ChildRead(p)
         /\ p[3] \in Nat \ {0}
<1>1. p[1] \in 1 .. Len(past) /\ Len(past) \in Nat
  BY PlacesAre, PastIs DEF PlacesExist
<1>2. p[2] \in Nat \ {0} /\ p[3] \in Nat \ {0}
  <2>1. p[1] \in DOMAIN past /\ p[2] \in DOMAIN past[p[1]] /\ IsList(past[p[1]])
        /\ IsNode(past[p[1]][p[2]]) /\ p[3] \in DOMAIN past[p[1]][p[2]].children
    BY PlacesAre, PastIs DEF PlacesExist
  <2> QED
    BY <2>1 DEF IsList, IsNode
<1>3. node \in Nat /\ child \in Nat
  BY DEF TypeOK
<1> QED
  BY <1>1, <1>2, <1>3 DEF ChildRead

(* A place that no node read by the step gives is as it was. *)
LEMMA SlotKept ==
  ASSUME past' = past, NEW tag, NEW k, NEW a, slot'[tag][k][a] = slot[tag][k][a],
         SlotIsLatest(tag, k, a),
         \A p \in NodePlaces : /\ IsNth(past[p[1]], tag, k, p[2]) /\ a \in DOMAIN NodeAt(p).attributes
                               => (NodeRead(p)' <=> NodeRead(p))
  PROVE  SlotIsLatest(tag, k, a)'
<1>1. NodePlaces' = NodePlaces /\ \A p : NodeAt(p)' = NodeAt(p)
  BY DEF NodePlaces, NodeAt
<1>2. SlotGivers(tag, k, a)' = SlotGivers(tag, k, a)
  <2>1. SlotGivers(tag, k, a)' =
          {p \in NodePlaces : /\ IsNth(past[p[1]], tag, k, p[2]) /\ NodeRead(p)'
                              /\ a \in DOMAIN NodeAt(p).attributes}
    BY <1>1 DEF SlotGivers
  <2> QED
    BY <2>1 DEF SlotGivers
<1> QED
  BY <1>1, <1>2 DEF SlotIsLatest

(* A place that a node of the present file has just given is the latest. *)
LEMMA SlotTaken ==
  ASSUME TypeOK, past' = past, NEW tag, NEW k, NEW a, NEW p \in NodePlaces, p[1] = Len(past),
         IsNth(past[p[1]], tag, k, p[2]), NodeRead(p)', a \in DOMAIN NodeAt(p).attributes,
         slot'[tag][k][a] = Stored(a, NodeAt(p).attributes[a])
  PROVE  SlotIsLatest(tag, k, a)'
<1>1. NodePlaces' = NodePlaces /\ \A q : NodeAt(q)' = NodeAt(q)
  BY DEF NodePlaces, NodeAt
<1>2. p \in SlotGivers(tag, k, a)' /\ SlotGivers(tag, k, a)' \subseteq NodePlaces
  BY <1>1 DEF SlotGivers
<1>3. \A q \in NodePlaces : q[1] <= p[1]
  BY PlacesAre, PastIs DEF PlacesExist
<1> QED
  BY <1>1, <1>2, <1>3 DEF SlotIsLatest

(* The same of the messages. *)
LEMMA MessageKept ==
  ASSUME past' = past, NEW k, NEW m, NEW a, message'[k][m][a] = message[k][m][a],
         MessageIsLatest(k, m, a),
         \A p \in ChildPlaces : /\ IsNth(past[p[1]], "A429_Bus", k, p[2]) /\ IsMth(NodeAt(p), m, p[3])
                                /\ HasField(ChildAt(p), a)
                                => (ChildRead(p)' <=> ChildRead(p))
  PROVE  MessageIsLatest(k, m, a)'
<1>1. ChildPlaces' = ChildPlaces /\ \A p : NodeAt(p)' = NodeAt(p) /\ ChildAt(p)' = ChildAt(p)
  BY DEF ChildPlaces, NodePlaces, NodeAt, ChildAt
<1>2. MessageGivers(k, m, a)' = MessageGivers(k, m, a)
  <2>1. MessageGivers(k, m, a)' =
          {p \in ChildPlaces : /\ IsNth(past[p[1]], "A429_Bus", k, p[2]) /\ IsMth(NodeAt(p), m, p[3])
                               /\ ChildRead(p)' /\ HasField(ChildAt(p), a)}
    BY <1>1 DEF MessageGivers
  <2> QED
    BY <2>1 DEF MessageGivers
<1> QED
  BY <1>1, <1>2 DEF MessageIsLatest

(* A step that gives field a of message m of the k-th bus: it is that of the latest file,
   the present one. *)
LEMMA MessageTaken ==
  ASSUME TypeOK, past' = past, NEW k, NEW m, NEW a, NEW p \in ChildPlaces, p[1] = Len(past),
         IsNth(past[p[1]], "A429_Bus", k, p[2]), IsMth(NodeAt(p), m, p[3]), ChildRead(p)',
         HasField(ChildAt(p), a), message'[k][m][a] = Field(ChildAt(p), a)
  PROVE  MessageIsLatest(k, m, a)'
<1>1. ChildPlaces' = ChildPlaces /\ \A q : NodeAt(q)' = NodeAt(q) /\ ChildAt(q)' = ChildAt(q)
  BY DEF ChildPlaces, NodePlaces, NodeAt, ChildAt
<1>2. p \in MessageGivers(k, m, a)' /\ MessageGivers(k, m, a)' \subseteq ChildPlaces
  BY <1>1 DEF MessageGivers
<1>3. \A q \in ChildPlaces : q[1] <= p[1]
  BY PlacesAre, PastIs DEF PlacesExist
<1> QED
  BY <1>1, <1>2, <1>3 DEF MessageIsLatest

(* A step that fills the place of the present node, of an array or of the buses. *)
LEMMA NodeTaken ==
  ASSUME TypeOK, Position, CountersAreRight, SlotsLatest,
         status = "READING", child = 0, node <= Len(File), past' = past,
         NEW tag \in Tags, Here.tag = tag, ~Full(tag),
         slot' = [slot EXCEPT ![tag][counter[tag] + 1] = Assign(@, Here.attributes, FieldsOf(tag))],
         \/ node' = node + 1 /\ child' = 0
         \/ node' = node /\ child' = 1
  PROVE  SlotsLatest'
<1> DEFINE L == Len(past)
           place == counter[tag] + 1
<1>1. /\ past # <<>> /\ node \in DOMAIN File /\ L \in DOMAIN past /\ node \in DOMAIN past[L]
      /\ Here = past[L][node] /\ File = past[L]
  BY HereIs DEF File
<1>2. PICK here \in NodePlaces : here[1] = L /\ here[2] = node /\ NodeAt(here) = Here
  <2>1. <<L, node>> \in NodePlaces /\ NodeAt(<<L, node>>) = Here
    BY <1>1, PlacesAre DEF NodeAt, PlacesExist
  <2> QED
    BY <2>1
<1>3. IsNth(past[L], tag, place, node)
  BY <1>1, RankIs
<1>4. \A p \in NodePlaces : NodeRead(p)' <=> NodeRead(p) \/ (p[1] = L /\ p[2] = node)
  BY NodeReadIs
<1>5. /\ \A a \in FieldsOf(tag) : slot'[tag][place][a] =
           IF a \in DOMAIN Here.attributes THEN Stored(a, Here.attributes[a])
           ELSE slot[tag][place][a]
      /\ \A t \in Tags : \A l \in 1 .. MaxOf[t] :
           t # tag \/ l # place => slot'[t][l] = slot[t][l]
  BY FillIs
<1> SUFFICES ASSUME NEW t \in Tags, NEW k \in 1 .. MaxOf[t], NEW a \in FieldsOf(t)
             PROVE  SlotIsLatest(t, k, a)'
  BY DEF SlotsLatest
<1>6. SlotIsLatest(t, k, a)
  BY DEF SlotsLatest
<1> HIDE DEF L, place
<1>7. CASE t = tag /\ k = place /\ a \in DOMAIN Here.attributes
  <2>1. slot'[t][k][a] = Stored(a, NodeAt(here).attributes[a])
    BY <1>2, <1>5, <1>7
  <2>2. NodeRead(here)'
    BY <1>2, <1>4
  <2>3. IsNth(past[here[1]], t, k, here[2]) /\ a \in DOMAIN NodeAt(here).attributes
    BY <1>2, <1>3, <1>7
  <2>4. here[1] = Len(past)
    BY <1>2 DEF L
  <2> QED
    BY <1>2, <2>1, <2>2, <2>3, <2>4, SlotTaken
<1>8. CASE ~(t = tag /\ k = place /\ a \in DOMAIN Here.attributes)
  <2>1. slot'[t][k][a] = slot[t][k][a]
    BY <1>5, <1>8
  <2>2. ASSUME NEW p \in NodePlaces, IsNth(past[p[1]], t, k, p[2]), a \in DOMAIN NodeAt(p).attributes
        PROVE  NodeRead(p)' <=> NodeRead(p)
    <3>1. CASE p[1] = L /\ p[2] = node
      <4>1. IsNth(past[L], t, k, node) /\ a \in DOMAIN Here.attributes
        BY <1>1, <2>2, <3>1 DEF NodeAt
      <4>2. t = tag /\ k = place
        BY <1>3, <4>1 DEF IsNth
      <4> QED
        BY <1>8, <4>1, <4>2
    <3>2. CASE ~(p[1] = L /\ p[2] = node)
      BY <1>4, <3>2
    <3> QED
      BY <3>1, <3>2
  <2> QED
    BY <1>6, <2>1, <2>2, SlotKept
<1> QED
  BY <1>7, <1>8

(* A step to the next node that fills no place, since there is none for it. *)
LEMMA NodePassed ==
  ASSUME TypeOK, Position, CountersAreRight, SlotsLatest, MessagesLatest,
         status = "READING", child = 0, node <= Len(File), past' = past,
         Here.tag \notin Tags \/ Full(Here.tag), slot' = slot, message' = message,
         node' = node + 1, child' = 0
  PROVE  SlotsLatest' /\ MessagesLatest'
<1> DEFINE L == Len(past)
<1>1. past # <<>> /\ L \in DOMAIN past /\ Here = past[L][node] /\ File = past[L]
  BY HereIs DEF File
<1>2. \A p \in NodePlaces : NodeRead(p)' <=> NodeRead(p) \/ (p[1] = L /\ p[2] = node)
  BY NodeReadIs
<1>3. \A p \in ChildPlaces : ChildRead(p)' <=> ChildRead(p) \/ (p[1] = L /\ p[2] = node)
  BY ChildReadIs
<1>4. ASSUME NEW t \in Tags, NEW k \in 1 .. MaxOf[t]
      PROVE  ~IsNth(past[L], t, k, node)
  <2>1. SUFFICES ASSUME IsNth(past[L], t, k, node)
                 PROVE  FALSE
    OBVIOUS
  <2>2. Here.tag = t /\ Full(t)
    BY <1>1, <2>1 DEF IsNth
  <2>3. k > MaxOf[t]
    BY <1>1, <2>1, <2>2, RankIs
  <2> QED
    BY <2>3, CmdAssumption
<1> HIDE DEF L
<1>5. ASSUME NEW t \in Tags, NEW k \in 1 .. MaxOf[t], NEW a \in FieldsOf(t)
      PROVE  SlotIsLatest(t, k, a)'
  <2>1. SlotIsLatest(t, k, a)
    BY DEF SlotsLatest
  <2>2. \A p \in NodePlaces : IsNth(past[p[1]], t, k, p[2]) => (NodeRead(p)' <=> NodeRead(p))
    BY <1>2, <1>4
  <2> QED
    BY <2>1, <2>2, SlotKept
<1>6. ASSUME NEW k \in Buses, NEW m \in 1 .. MaxMessages, NEW a \in FieldNames
      PROVE  MessageIsLatest(k, m, a)'
  <2>1. MessageIsLatest(k, m, a)
    BY DEF MessagesLatest
  <2>2. "A429_Bus" \in Tags /\ k \in 1 .. MaxOf["A429_Bus"]
    BY DEF Tags, Buses
  <2>3. \A p \in ChildPlaces :
          IsNth(past[p[1]], "A429_Bus", k, p[2]) => (ChildRead(p)' <=> ChildRead(p))
    BY <1>3, <1>4, <2>2
  <2> QED
    BY <2>1, <2>3, MessageKept
<1> QED
  BY <1>5, <1>6 DEF SlotsLatest, MessagesLatest

(* The messages when a node is filled that is no bus, or a bus is opened. *)
LEMMA NoMessageYet ==
  ASSUME TypeOK, Position, MessagesLatest, status = "READING", child = 0, node <= Len(File),
         past' = past, message' = message,
         \/ node' = node + 1 /\ child' = 0 /\ Here.tag # "A429_Bus"
         \/ node' = node /\ child' = 1
  PROVE  MessagesLatest'
<1>1. Here = past[Len(past)][node]
  BY HereIs
<1>2. ASSUME NEW k \in Buses, NEW m \in 1 .. MaxMessages, NEW a \in FieldNames
      PROVE  MessageIsLatest(k, m, a)'
  <2>1. MessageIsLatest(k, m, a)
    BY DEF MessagesLatest
  <2>2. ASSUME NEW p \in ChildPlaces, IsNth(past[p[1]], "A429_Bus", k, p[2])
        PROVE  ChildRead(p)' <=> ChildRead(p)
    <3>1. CASE node' = node + 1 /\ child' = 0 /\ Here.tag # "A429_Bus"
      <4>1. ~(p[1] = Len(past) /\ p[2] = node)
        BY <1>1, <2>2, <3>1 DEF IsNth
      <4> QED
        BY <3>1, <4>1, ChildReadIs
    <3>2. CASE node' = node /\ child' = 1
      <4>1. child' = child + 1 /\ p[3] # child
        BY <3>2, ChildReadIs
      <4> QED
        BY <3>2, <4>1, ChildReadIs
    <3> QED
      BY <3>1, <3>2
  <2> QED
    BY <2>1, <2>2, MessageKept
<1> QED
  BY <1>2 DEF MessagesLatest

(* A child of a bus becomes its next message. *)
LEMMA ChildTaken ==
  ASSUME TypeOK, Position, CountersAreRight, MessagesAreCounted, MessagesLatest, FillChild
  PROVE  MessagesLatest'
<1> DEFINE L == Len(past)
           c == Here.children[child]
           number == n_messages[Bus] + 1
<1>1. /\ past' = past /\ node' = node /\ child' = child + 1 /\ status = "READING" /\ child > 0
      /\ child <= Len(Here.children)
  BY DEF FillChild, BusGoesOn
<1>2. /\ past # <<>> /\ node \in DOMAIN File /\ L \in DOMAIN past /\ node \in DOMAIN past[L]
      /\ Here = past[L][node] /\ File = past[L] /\ IsNode(Here) /\ node <= Len(File)
      /\ Here.tag = "A429_Bus" /\ Bus \in Buses /\ ~Full("A429_Bus")
  BY <1>1, HereIs DEF File, Position
<1>3. child \in DOMAIN Here.children /\ child \in Nat \ {0}
  BY <1>1, <1>2 DEF TypeOK, IsNode, IsList
<1>4. PICK here \in ChildPlaces : /\ here[1] = L /\ here[2] = node /\ here[3] = child
                                  /\ NodeAt(here) = Here /\ ChildAt(here) = c
  <2> DEFINE place == <<L, node, child>>
  <2>1. place \in ChildPlaces /\ NodeAt(place) = Here /\ ChildAt(place) = c
    BY <1>2, <1>3, PlacesAre DEF NodeAt, ChildAt, PlacesExist
  <2> QED
    BY <2>1
<1>5. IsNth(past[L], "A429_Bus", Bus, node)
  BY <1>1, <1>2, RankIs DEF Tags, Bus
<1>6. c.element => IsMth(Here, number, child)
  <2>1. n_messages[Bus] = Elements(Here, child - 1)
    BY <1>1, <1>2 DEF MessagesAreCounted
  <2>2. child - 1 \in Nat /\ (child - 1) + 1 = child
    BY <1>3
  <2>3. c.element => Elements(Here, child) = Elements(Here, child - 1) + 1
    BY <2>2, ElementsIs
  <2> QED
    BY <1>3, <2>1, <2>3 DEF IsMth
<1>7. \A p \in ChildPlaces :
        ChildRead(p)' <=> ChildRead(p) \/ (p[1] = L /\ p[2] = node /\ p[3] = child)
  BY <1>1, ChildReadIs
<1>8. c.element => /\ \A a \in FieldNames : message'[Bus][number][a] =
                        IF HasField(c, a) THEN Field(c, a) ELSE message[Bus][number][a]
                   /\ \A b \in Buses, l \in 1 .. MaxMessages :
                        b # Bus \/ l # number => message'[b][l] = message[b][l]
  BY FillChildIs
<1>9. ~c.element => message' = message
  BY DEF FillChild
<1> SUFFICES ASSUME NEW k \in Buses, NEW m \in 1 .. MaxMessages, NEW a \in FieldNames
             PROVE  MessageIsLatest(k, m, a)'
  BY DEF MessagesLatest
<1>10. MessageIsLatest(k, m, a)
  BY DEF MessagesLatest
<1> HIDE DEF L, c, number
<1>11. CASE c.element /\ k = Bus /\ m = number /\ HasField(c, a)
  <2>1. message'[k][m][a] = Field(ChildAt(here), a) /\ HasField(ChildAt(here), a)
    BY <1>4, <1>8, <1>11
  <2>2. ChildRead(here)' /\ here[1] = Len(past)
    BY <1>4, <1>7 DEF L
  <2>3. IsNth(past[here[1]], "A429_Bus", k, here[2]) /\ IsMth(NodeAt(here), m, here[3])
    BY <1>4, <1>5, <1>6, <1>11
  <2> QED
    BY <1>1, <1>4, <2>1, <2>2, <2>3, MessageTaken
<1>12. CASE ~(c.element /\ k = Bus /\ m = number /\ HasField(c, a))
  <2>1. message'[k][m][a] = message[k][m][a]
    BY <1>8, <1>9, <1>12
  <2>2. CASE ~(c.element /\ k = Bus /\ m = number)
    <3>1. ASSUME NEW p \in ChildPlaces, IsNth(past[p[1]], "A429_Bus", k, p[2]), IsMth(NodeAt(p), m, p[3])
          PROVE  ChildRead(p)' <=> ChildRead(p)
      <4>1. CASE p[1] = L /\ p[2] = node /\ p[3] = child
        <5>1. IsNth(past[L], "A429_Bus", k, node) /\ IsMth(Here, m, child)
          BY <1>2, <3>1, <4>1 DEF NodeAt
        <5>2. c.element /\ k = Bus
          BY <1>5, <5>1 DEF IsNth, IsMth, c
        <5>3. m = number
          BY <1>6, <5>1, <5>2 DEF IsMth
        <5> QED
          BY <2>2, <5>2, <5>3
      <4>2. CASE ~(p[1] = L /\ p[2] = node /\ p[3] = child)
        BY <1>7, <4>2
      <4> QED
        BY <4>1, <4>2
    <3> QED
      BY <1>1, <1>10, <2>1, <3>1, MessageKept
  <2>3. CASE c.element /\ k = Bus /\ m = number /\ ~HasField(c, a)
    <3>1. \A p \in ChildPlaces : HasField(ChildAt(p), a) => (ChildRead(p)' <=> ChildRead(p))
      BY <1>2, <1>7, <2>3 DEF ChildAt, NodeAt, c
    <3> QED
      BY <1>1, <1>10, <2>1, <3>1, MessageKept
  <2> QED
    BY <1>12, <2>2, <2>3
<1> QED
  BY <1>11, <1>12

(* A bus is closed: the children that were not looked at are beyond the limit. *)
LEMMA BusClosed ==
  ASSUME TypeOK, Position, CountersAreRight, MessagesAreCounted, SlotsLatest, MessagesLatest, CloseBus
  PROVE  SlotsLatest' /\ MessagesLatest'
<1> DEFINE L == Len(past)
<1>1. /\ past' = past /\ node' = node + 1 /\ child' = 0 /\ status = "READING" /\ child > 0
      /\ ~BusGoesOn /\ slot' = slot /\ message' = message
  BY DEF CloseBus
<1>2. /\ past # <<>> /\ File = past[L] /\ Here = past[L][node] /\ IsNode(Here)
      /\ Here.tag = "A429_Bus" /\ Bus \in Buses /\ node <= Len(File)
      /\ ~Full("A429_Bus") /\ child <= Len(Here.children) + 1 /\ Len(Here.children) \in Nat
      /\ DOMAIN Here.children = 1 .. Len(Here.children)
  BY <1>1, HereIs DEF File, Position, IsNode, IsList
<1>3. ASSUME NEW t \in Tags, NEW k \in 1 .. MaxOf[t], NEW a \in FieldsOf(t)
      PROVE  SlotIsLatest(t, k, a)'
  <2>1. SlotIsLatest(t, k, a)
    BY DEF SlotsLatest
  <2>2. \A p \in NodePlaces : NodeRead(p)' <=> NodeRead(p)
    BY <1>1, NodeReadIs
  <2> QED
    BY <1>1, <2>1, <2>2, SlotKept
<1>4. IsNth(File, "A429_Bus", Bus, node)
  BY <1>1, <1>2, RankIs DEF Tags, Bus
<1>5. ASSUME NEW d \in DOMAIN Here.children, d >= child, NEW m, IsMth(Here, m, d)
      PROVE  m > MaxMessages
  <2>1. child - 1 \in Nat /\ d - 1 \in Nat /\ child - 1 <= d - 1 /\ (d - 1) + 1 = d
    BY <1>1, <1>2, <1>5 DEF TypeOK
  <2>2. Elements(Here, child - 1) <= Elements(Here, d - 1)
    BY <2>1, ElementsIs
  <2>3. Elements(Here, d) = Elements(Here, d - 1) + 1
    BY <1>5, <2>1, ElementsIs DEF IsMth
  <2>4. Elements(Here, child - 1) \in Nat /\ Elements(Here, d - 1) \in Nat
    BY <2>1, ElementsIs
  <2>5. n_messages[Bus] = Elements(Here, child - 1)
    BY <1>1, <1>2 DEF MessagesAreCounted
  <2>6. n_messages[Bus] >= MaxMessages
    <3>1. child <= Len(Here.children) /\ n_messages[Bus] \in 0 .. MaxMessages
      BY <1>2, <1>5 DEF TypeOK
    <3> QED
      BY <1>1, <3>1, CmdAssumption DEF BusGoesOn
  <2>7. m = Elements(Here, d) /\ MaxMessages \in Nat
    BY <1>5, CmdAssumption DEF IsMth
  <2> QED
    BY <2>2, <2>3, <2>4, <2>5, <2>6, <2>7
<1>6. ASSUME NEW k \in Buses, NEW m \in 1 .. MaxMessages, NEW a \in FieldNames
      PROVE  MessageIsLatest(k, m, a)'
  <2>1. MessageIsLatest(k, m, a)
    BY DEF MessagesLatest
  <2>2. ASSUME NEW p \in ChildPlaces, IsMth(NodeAt(p), m, p[3])
        PROVE  ChildRead(p)' <=> ChildRead(p)
    <3>1. ChildRead(p)' <=> ChildRead(p) \/ (p[1] = L /\ p[2] = node)
      BY <1>1, ChildReadIs
    <3>2. CASE p[1] = L /\ p[2] = node
      <4>1. NodeAt(p) = Here /\ p[3] \in DOMAIN Here.children
        BY <1>2, <3>2, PlacesAre DEF NodeAt, PlacesExist
      <4>2. ~(p[3] >= child)
        BY <1>5, <2>2, <4>1, CmdAssumption
      <4>3. p[3] < child
        BY <1>2, <4>1, <4>2 DEF TypeOK
      <4> QED
        BY <3>1, <3>2, <4>3 DEF ChildRead
    <3>3. CASE ~(p[1] = L /\ p[2] = node)
      BY <3>1, <3>3
    <3> QED
      BY <3>2, <3>3
  <2> QED
    BY <1>1, <2>1, <2>2, MessageKept
<1> QED
  BY <1>3, <1>6 DEF SlotsLatest, MessagesLatest

(* A file is opened: all of those before are read, and nothing of this one. *)
LEMMA FileOpened ==
  ASSUME TypeOK, Position, SlotsLatest, MessagesLatest, Open
  PROVE  SlotsLatest' /\ MessagesLatest'
<1> DEFINE L == Len(past)
<1>1. PICK f \in Files : past' = Append(past, f)
  BY DEF Open
<1>2. /\ node' = 1 /\ child' = 0 /\ slot' = slot /\ message' = message /\ status # "READING"
  BY DEF Open
<1>3. /\ L \in Nat /\ DOMAIN past = 1 .. L /\ Len(past') = L + 1 /\ DOMAIN past' = 1 .. (L + 1)
      /\ \A r \in 1 .. L : past'[r] = past[r]
      /\ past'[L + 1] = f
  <2>1. past \in Seq(Files)
    BY DEF TypeOK
  <2> QED
    BY <1>1, <2>1, LenProperties, AppendProperties
<1>4. IsList(f) /\ \A i \in DOMAIN f : IsList(f[i].children)
  BY CmdAssumption DEF IsNode
<1>5. \A p \in NodePlaces : p[1] \in 1 .. L /\ NodeRead(p) /\ NodeAt(p)' = NodeAt(p)
  <2>1. SUFFICES ASSUME NEW p \in NodePlaces
                 PROVE  p[1] \in 1 .. L /\ NodeRead(p) /\ NodeAt(p)' = NodeAt(p)
    OBVIOUS
  <2>2. p[1] \in 1 .. L /\ p[2] \in DOMAIN past[p[1]]
    BY <1>3, PlacesAre DEF PlacesExist
  <2>3. past # <<>> /\ node = Len(File) + 1
    BY <1>2, <1>3, <2>2 DEF Position
  <2>4. DOMAIN File = 1 .. Len(File) /\ Len(File) \in Nat /\ File = past[L]
    BY <2>3, PastIs
  <2>5. NodeRead(p)
    BY <1>3, <2>2, <2>3, <2>4 DEF NodeRead
  <2> QED
    BY <1>3, <2>2, <2>5 DEF NodeAt
<1>6. \A p \in ChildPlaces : /\ p[1] \in 1 .. L /\ ChildRead(p)
                             /\ NodeAt(p)' = NodeAt(p) /\ ChildAt(p)' = ChildAt(p)
  <2>1. SUFFICES ASSUME NEW p \in ChildPlaces
                 PROVE  p[1] \in 1 .. L /\ ChildRead(p) /\ NodeAt(p)' = NodeAt(p)
    BY DEF ChildAt
  <2>2. p[1] \in 1 .. L /\ p[2] \in DOMAIN past[p[1]]
    BY <1>3, PlacesAre DEF PlacesExist
  <2>3. past # <<>> /\ node = Len(File) + 1
    BY <1>2, <1>3, <2>2 DEF Position
  <2>4. DOMAIN File = 1 .. Len(File) /\ Len(File) \in Nat /\ File = past[L]
    BY <2>3, PastIs
  <2>5. ChildRead(p)
    BY <1>3, <2>2, <2>3, <2>4 DEF ChildRead
  <2> QED
    BY <1>3, <2>2, <2>5 DEF NodeAt
<1>7. /\ \A p \in NodePlaces' : p[1] \in 1 .. (L + 1) /\ p[2] \in DOMAIN past'[p[1]] /\ p = <<p[1], p[2]>>
      /\ \A r \in DOMAIN past' : \A i \in DOMAIN past'[r] : <<r, i>> \in NodePlaces'
      /\ \A p \in ChildPlaces' :
           /\ p[1] \in 1 .. (L + 1) /\ p[2] \in DOMAIN past'[p[1]]
           /\ p[3] \in DOMAIN past'[p[1]][p[2]].children /\ p = <<p[1], p[2], p[3]>>
      /\ \A r \in DOMAIN past' : \A i \in DOMAIN past'[r] : \A c \in DOMAIN past'[r][i].children :
           <<r, i, c>> \in ChildPlaces'
  <2>1. PlacesExist'
    BY PlacesAre, PTL
  <2> QED
    BY <1>3, <2>1 DEF PlacesExist
<1>8. \A p : p \in NodePlaces' /\ NodeRead(p)' <=> p \in NodePlaces
  <2>1. ASSUME NEW p \in NodePlaces', NodeRead(p)'
        PROVE  p \in NodePlaces
    <3>1. p[1] \in 1 .. (L + 1) /\ p[2] \in DOMAIN past'[p[1]] /\ p = <<p[1], p[2]>>
      BY <1>7
    <3>2. p[1] # L + 1
      <4>1. p[1] = L + 1 => p[2] \in 1 .. Len(f) /\ Len(f) \in Nat
        BY <1>3, <1>4, <3>1 DEF IsList
      <4> QED
        BY <1>2, <1>3, <2>1, <4>1 DEF NodeRead
    <3>3. p[1] \in DOMAIN past /\ p[2] \in DOMAIN past[p[1]]
      BY <1>3, <3>1, <3>2
    <3> QED
      BY <3>1, <3>3, PlacesAre DEF PlacesExist
  <2>2. ASSUME NEW p \in NodePlaces
        PROVE  p \in NodePlaces' /\ NodeRead(p)'
    <3>1. p[1] \in 1 .. L /\ p[2] \in DOMAIN past[p[1]] /\ p = <<p[1], p[2]>>
      BY <1>3, PlacesAre DEF PlacesExist
    <3>2. p[1] \in DOMAIN past' /\ p[2] \in DOMAIN past'[p[1]] /\ p[1] < L + 1
      BY <1>3, <3>1
    <3> QED
      BY <1>3, <1>7, <3>1, <3>2 DEF NodeRead
  <2> QED
    BY <2>1, <2>2
<1>9. \A p : p \in ChildPlaces' /\ ChildRead(p)' <=> p \in ChildPlaces
  <2>1. ASSUME NEW p \in ChildPlaces', ChildRead(p)'
        PROVE  p \in ChildPlaces
    <3>1. p[1] \in 1 .. (L + 1) /\ p[2] \in DOMAIN past'[p[1]]
          /\ p[3] \in DOMAIN past'[p[1]][p[2]].children /\ p = <<p[1], p[2], p[3]>>
      BY <1>7
    <3>2. p[1] # L + 1
      <4>1. p[1] = L + 1 => p[2] \in 1 .. Len(f) /\ Len(f) \in Nat /\ p[3] \in Nat
        BY <1>3, <1>4, <3>1 DEF IsList
      <4> QED
        BY <1>2, <1>3, <2>1, <4>1 DEF ChildRead
    <3>3. p[1] \in DOMAIN past /\ p[2] \in DOMAIN past[p[1]] /\ p[3] \in DOMAIN past[p[1]][p[2]].children
      BY <1>3, <3>1, <3>2
    <3> QED
      BY <3>1, <3>3, PlacesAre DEF PlacesExist
  <2>2. ASSUME NEW p \in ChildPlaces
        PROVE  p \in ChildPlaces' /\ ChildRead(p)'
    <3>1. p[1] \in 1 .. L /\ p[2] \in DOMAIN past[p[1]]
          /\ p[3] \in DOMAIN past[p[1]][p[2]].children /\ p = <<p[1], p[2], p[3]>>
      BY <1>3, PlacesAre DEF PlacesExist
    <3>2. p[1] \in DOMAIN past' /\ p[2] \in DOMAIN past'[p[1]]
          /\ p[3] \in DOMAIN past'[p[1]][p[2]].children /\ p[1] < L + 1
      BY <1>3, <3>1
    <3> QED
      BY <1>3, <1>7, <3>1, <3>2 DEF ChildRead
  <2> QED
    BY <2>1, <2>2
<1> HIDE DEF L
<1>10. ASSUME NEW t \in Tags, NEW k \in 1 .. MaxOf[t], NEW a \in FieldsOf(t)
       PROVE  SlotIsLatest(t, k, a)'
  <2>1. SlotIsLatest(t, k, a)
    BY DEF SlotsLatest
  <2>2. SlotGivers(t, k, a)' = SlotGivers(t, k, a)
    <3>1. \A p : p \in SlotGivers(t, k, a)' <=>
                   /\ p \in NodePlaces /\ IsNth(past'[p[1]], t, k, p[2])
                   /\ a \in DOMAIN NodeAt(p)'.attributes
      BY <1>8 DEF SlotGivers
    <3>2. \A p : p \in SlotGivers(t, k, a) <=>
                   /\ p \in NodePlaces /\ IsNth(past[p[1]], t, k, p[2])
                   /\ a \in DOMAIN NodeAt(p).attributes
      BY <1>5 DEF SlotGivers
    <3> QED
      BY <1>3, <1>5, <3>1, <3>2
  <2>3. \A p \in SlotGivers(t, k, a) : NodeAt(p)' = NodeAt(p)
    BY <1>5 DEF SlotGivers
  <2> QED
    BY <1>2, <2>1, <2>2, <2>3 DEF SlotIsLatest
<1>11. ASSUME NEW k \in Buses, NEW m \in 1 .. MaxMessages, NEW a \in FieldNames
       PROVE  MessageIsLatest(k, m, a)'
  <2>1. MessageIsLatest(k, m, a)
    BY DEF MessagesLatest
  <2>2. MessageGivers(k, m, a)' = MessageGivers(k, m, a)
    <3>1. \A p : p \in MessageGivers(k, m, a)' <=>
                   /\ p \in ChildPlaces /\ IsNth(past'[p[1]], "A429_Bus", k, p[2])
                   /\ IsMth(NodeAt(p)', m, p[3]) /\ HasField(ChildAt(p)', a)
      BY <1>9 DEF MessageGivers
    <3>2. \A p : p \in MessageGivers(k, m, a) <=>
                   /\ p \in ChildPlaces /\ IsNth(past[p[1]], "A429_Bus", k, p[2])
                   /\ IsMth(NodeAt(p), m, p[3]) /\ HasField(ChildAt(p), a)
      BY <1>6 DEF MessageGivers
    <3> QED
      BY <1>3, <1>6, <3>1, <3>2
  <2>3. \A p \in MessageGivers(k, m, a) : ChildAt(p)' = ChildAt(p)
    BY <1>6 DEF MessageGivers
  <2> QED
    BY <1>2, <2>1, <2>2, <2>3 DEF MessageIsLatest
<1> QED
  BY <1>10, <1>11 DEF SlotsLatest, MessagesLatest

(* Every step keeps what the latest file has given. *)
LEMMA LatestStep ==
  ASSUME CmdInv, [Next]_vars
  PROVE  AllLatest'
<1> USE DEF CmdInv
<1>1. AllLatest <=> SlotsLatest /\ MessagesLatest
  BY DEF AllLatest, SlotsLatest, MessagesLatest, FieldNames
<1>2. AllLatest' <=> SlotsLatest' /\ MessagesLatest'
  BY DEF AllLatest, SlotsLatest, MessagesLatest, FieldNames
<1>3. TypeOK /\ Position /\ CountersAreRight /\ MessagesAreCounted /\ SlotsLatest /\ MessagesLatest
  BY <1>1
<1>4. CASE Open
  BY <1>2, <1>3, <1>4, FileOpened
<1>5. CASE SkipNode \/ TooMany
  <2>1. /\ status = "READING" /\ child = 0 /\ node <= Len(File) /\ past' = past
        /\ Here.tag \notin Tags \/ Full(Here.tag)
        /\ slot' = slot /\ message' = message /\ node' = node + 1 /\ child' = 0
    BY <1>5 DEF SkipNode, TooMany, At
  <2> QED
    BY <1>2, <1>3, <2>1, NodePassed
<1>6. CASE FillNode
  <2>1. /\ status = "READING" /\ child = 0 /\ node <= Len(File) /\ past' = past
        /\ Here.tag \in Tags /\ Here.tag # "A429_Bus" /\ ~Full(Here.tag)
        /\ message' = message /\ node' = node + 1 /\ child' = 0
    BY <1>6 DEF FillNode, At
  <2>2. slot' = [slot EXCEPT ![Here.tag][counter[Here.tag] + 1] =
                   Assign(@, Here.attributes, FieldsOf(Here.tag))]
    BY <1>6 DEF FillNode
  <2>3. SlotsLatest'
    <3>1. PICK tag \in Tags : Here.tag = tag
      BY <2>1
    <3>2. slot' = [slot EXCEPT ![tag][counter[tag] + 1] = Assign(@, Here.attributes, FieldsOf(tag))]
      BY <2>2, <3>1
    <3> QED
      BY <1>3, <2>1, <3>1, <3>2, NodeTaken
  <2>4. MessagesLatest'
    BY <1>3, <2>1, NoMessageYet
  <2> QED
    BY <1>2, <2>3, <2>4
<1>7. CASE OpenBus
  <2>1. /\ status = "READING" /\ child = 0 /\ node <= Len(File) /\ past' = past
        /\ "A429_Bus" \in Tags /\ Here.tag = "A429_Bus" /\ ~Full("A429_Bus")
        /\ message' = message /\ node' = node /\ child' = 1
    BY <1>7 DEF OpenBus, At, Tags
  <2>2. slot' = [slot EXCEPT !["A429_Bus"][counter["A429_Bus"] + 1] =
                   Assign(@, Here.attributes, FieldsOf("A429_Bus"))]
    BY <1>7 DEF OpenBus
  <2>3. SlotsLatest'
    BY <1>3, <2>1, <2>2, NodeTaken
  <2>4. MessagesLatest'
    BY <1>3, <2>1, NoMessageYet
  <2> QED
    BY <1>2, <2>3, <2>4
<1>8. CASE FillChild
  <2>1. /\ past' = past /\ node' = node /\ child > 0 /\ child' > 0 /\ slot' = slot
    BY <1>8 DEF FillChild, TypeOK
  <2>2. MessagesLatest'
    BY <1>3, <1>8, ChildTaken
  <2>3. \A p \in NodePlaces : NodeRead(p)' <=> NodeRead(p)
    BY <1>3, <2>1, NodeReadIs
  <2>4. SlotsLatest'
    <3>1. ASSUME NEW t \in Tags, NEW k \in 1 .. MaxOf[t], NEW a \in FieldsOf(t)
          PROVE  SlotIsLatest(t, k, a)'
      <4>1. SlotIsLatest(t, k, a)
        BY <1>3 DEF SlotsLatest
      <4> QED
        BY <2>1, <2>3, <4>1, SlotKept
    <3> QED
      BY <3>1 DEF SlotsLatest
  <2> QED
    BY <1>2, <2>2, <2>4
<1>9. CASE CloseBus
  BY <1>2, <1>3, <1>9, BusClosed
<1>10. CASE Close \/ ReadFails \/ UNCHANGED vars
  <2>1. past' = past /\ node' = node /\ child' = child /\ slot' = slot /\ message' = message
    BY <1>10 DEF Close, ReadFails, vars
  <2>2. \A p \in NodePlaces : NodeRead(p)' <=> NodeRead(p)
    BY <1>3, <2>1, NodeReadIs
  <2>3. \A p \in ChildPlaces : ChildRead(p)' <=> ChildRead(p)
    BY <1>3, <2>1, ChildReadIs
  <2>4. SlotsLatest'
    <3>1. ASSUME NEW t \in Tags, NEW k \in 1 .. MaxOf[t], NEW a \in FieldsOf(t)
          PROVE  SlotIsLatest(t, k, a)'
      <4>1. SlotIsLatest(t, k, a)
        BY <1>3 DEF SlotsLatest
      <4> QED
        BY <2>1, <2>2, <4>1, SlotKept
    <3> QED
      BY <3>1 DEF SlotsLatest
  <2>5. MessagesLatest'
    BY <1>3, <2>1, <2>3, MessageKept DEF MessagesLatest
  <2> QED
    BY <1>2, <2>4, <2>5
<1> QED
  BY <1>4, <1>5, <1>6, <1>7, <1>8, <1>9, <1>10 DEF Next

-----------------------------------------------------------------------------
(***************************************************************************)
(* The theorems.                                                           *)
(***************************************************************************)

(* Before the first file nothing is stored. *)
LEMMA InitInv == Init => CmdInv
<1> SUFFICES ASSUME Init
             PROVE  CmdInv
  OBVIOUS
<1> USE DEF Init
<1>1. past = <<>> /\ past \in Seq(Files) /\ Len(past) = 0 /\ DOMAIN past = {}
  BY EmptySeq
<1>2. TypeOK
  <2>1. "zero" \in FieldValues
    BY DEF FieldValues
  <2>2. \A S : Zero(S) \in [S -> FieldValues]
    BY <2>1 DEF Zero
  <2>3. slot \in [Tags -> UNION {[1 .. MaxOf[t] -> [FieldsOf(t) -> FieldValues]] : t \in Tags}]
        /\ \A t \in Tags : slot[t] \in [1 .. MaxOf[t] -> [FieldsOf(t) -> FieldValues]]
    BY <2>2
  <2>4. DOMAIN slot = Tags
    OBVIOUS
  <2>5. /\ n_messages \in [Buses -> 0 .. MaxMessages]
        /\ message \in [Buses -> [1 .. MaxMessages -> [MessageFields \cup {"Type"} -> FieldValues]]]
    BY <2>2, CmdAssumption
  <2>6. DOMAIN counter = Tags /\ \A t \in Tags : counter[t] \in 0 .. MaxOf[t]
    BY CmdAssumption
  <2>7. Len(past) <= MaxReads /\ node \in Nat /\ child \in Nat /\ warned \subseteq Tags
        /\ status \in {"NONE", "READING", "CMD_READ_OK"} \cup ReadFailures
    BY <1>1, CmdAssumption
  <2> QED
    BY <1>1, <2>3, <2>4, <2>5, <2>6, <2>7 DEF TypeOK
<1>3. Position
  BY DEF Position, ClearedCounters
<1>4. CountersAreRight /\ MessagesAreCounted
  BY DEF CountersAreRight, MessagesAreCounted
<1>5. AllLatest
  <2>1. NodePlaces = {}
    BY <1>1 DEF NodePlaces
  <2>2. ChildPlaces = {}
    BY <2>1 DEF ChildPlaces
  <2>3. /\ \A tag, k, a : SlotGivers(tag, k, a) = {}
        /\ \A k, m, a : MessageGivers(k, m, a) = {}
    BY <2>1, <2>2 DEF SlotGivers, MessageGivers
  <2>4. \A tag \in Tags : \A k \in 1 .. MaxOf[tag], a \in FieldsOf(tag) : slot[tag][k][a] = "zero"
    BY DEF Zero
  <2>5. \A k \in Buses, m \in 1 .. MaxMessages, a \in MessageFields \cup {"Type"} :
          message[k][m][a] = "zero"
    BY DEF Zero
  <2> QED
    BY <2>3, <2>4, <2>5 DEF AllLatest, SlotIsLatest, MessageIsLatest
<1> QED
  BY <1>2, <1>3, <1>4, <1>5 DEF CmdInv

(* The invariant, of every file and every size of the arrays. *)
THEOREM CmdInvariant == Spec => []CmdInv
<1>1. CmdInv /\ [Next]_vars => CmdInv'
  <2> SUFFICES ASSUME CmdInv, [Next]_vars
               PROVE  CmdInv'
    OBVIOUS
  <2>1. TypeOK /\ Position /\ CountersAreRight /\ MessagesAreCounted
    BY DEF CmdInv
  <2>2. TypeOK' /\ Position'
    BY <2>1, TypeStep, PositionStep
  <2>3. CountersAreRight' /\ MessagesAreCounted'
    BY <2>1, CountersStep, MessagesStep
  <2>4. AllLatest'
    BY LatestStep
  <2> QED
    BY <2>2, <2>3, <2>4 DEF CmdInv
<1> QED
  BY <1>1, InitInv, PTL DEF Spec

(* Every variable stays in its domain; above all, no counter ever exceeds the size of
   its array, so that readData and fillA429 never write behind it. *)
THEOREM TypeCorrect == Spec => []TypeOK
<1>1. CmdInv => TypeOK
  BY DEF CmdInv
<1> QED
  BY <1>1, CmdInvariant, PTL

(* What is true of a file that was read to its end. *)
LEMMA AtTheEnd ==
  ASSUME CmdInv, Done
  PROVE  /\ past # <<>> /\ Len(File) \in Nat /\ IsList(File) /\ File = past[Len(past)]
         /\ Len(past) \in DOMAIN past /\ child = 0
         /\ \A p \in NodePlaces : NodeRead(p)
         /\ \A p \in ChildPlaces : ChildRead(p)
         /\ \A tag \in Tags :
              /\ counter[tag] = IF Nodes(File, tag) <= MaxOf[tag] THEN Nodes(File, tag) ELSE MaxOf[tag]
              /\ tag \in warned <=> Nodes(File, tag) > MaxOf[tag]
              /\ \A k \in 1 .. counter[tag] : \E i \in DOMAIN File : IsNth(File, tag, k, i)
<1> USE DEF CmdInv
<1>1. past # <<>> /\ node = Len(File) + 1 /\ child = 0
  BY DEF Position, Done
<1>2. /\ Len(File) \in Nat /\ IsList(File) /\ DOMAIN File = 1 .. Len(File)
      /\ File = past[Len(past)] /\ Len(past) \in DOMAIN past /\ DOMAIN past = 1 .. Len(past)
      /\ Len(past) \in Nat
  BY <1>1, PastIs
<1>3. \A p : p[1] \in DOMAIN past /\ p[2] \in DOMAIN past[p[1]] => p[1] < Len(past) \/ p[2] < node
  BY <1>1, <1>2
<1>4. /\ \A p \in NodePlaces : NodeRead(p)
      /\ \A p \in ChildPlaces : ChildRead(p)
  BY <1>3, PlacesAre DEF PlacesExist, NodeRead, ChildRead
<1>5. node - 1 = Len(File)
  BY <1>1, <1>2
<1>6. \A tag \in Tags : CounterIsRight(tag)
  BY <1>1 DEF CountersAreRight
<1> QED
  BY <1>1, <1>2, <1>4, <1>5, <1>6 DEF CounterIsRight, Nodes

(* The last of a set of numbers. *)
LEMMA LastIs ==
  ASSUME NEW R \in SUBSET Nat, NEW r \in R, \A q \in R : q <= r
  PROVE  LastOf(R) = r
<1>1. \A s \in R : (\A q \in R : q <= s) => s = r
  OBVIOUS
<1> QED
  BY <1>1 DEF LastOf

(* The static structure is never mixed up: at the end of a file each attribute has the
   value of the latest file whose node at this place gave one, and zero if none did. *)
THEOREM TheLatestFileWins == Spec => []LatestFileWins
<1>1. CmdInv => LatestFileWins
  <2> SUFFICES ASSUME CmdInv, Done
               PROVE  LatestFileWins
    BY DEF LatestFileWins
  <2>1. TypeOK /\ AllLatest
    BY DEF CmdInv
  <2>2. DOMAIN past = 1 .. Len(past) /\ Len(past) \in Nat /\ \A r \in DOMAIN past : IsList(past[r])
    BY <2>1, PastIs
  <2>3. \A p \in NodePlaces : NodeRead(p)
    BY AtTheEnd
  <2>4. \A p \in ChildPlaces : ChildRead(p)
    BY AtTheEnd
  <2>5. ASSUME NEW tag \in Tags, NEW k \in 1 .. MaxOf[tag], NEW a \in FieldsOf(tag)
        PROVE  slot[tag][k][a] = Expected(tag, k, a)
    <3> DEFINE givers == {r \in 1 .. Len(past) : Gives(past[r], tag, k, a)}
    <3>1. SlotIsLatest(tag, k, a)
      BY <2>1 DEF AllLatest
    <3>2. \A r \in givers : \E p \in SlotGivers(tag, k, a) : p[1] = r
      <4>1. SUFFICES ASSUME NEW r \in givers
                     PROVE  \E p \in SlotGivers(tag, k, a) : p[1] = r
        OBVIOUS
      <4>2. r \in DOMAIN past /\ Gives(past[r], tag, k, a)
        BY <2>2
      <4>3. PICK i \in DOMAIN past[r] : IsNth(past[r], tag, k, i) /\ a \in DOMAIN past[r][i].attributes
        BY <4>2 DEF Gives
      <4>4. <<r, i>> \in NodePlaces
        BY <4>2, PlacesAre DEF PlacesExist
      <4> QED
        BY <2>3, <4>3, <4>4 DEF SlotGivers, NodeAt
    <3>3. \A p \in SlotGivers(tag, k, a) :
            p[1] \in givers /\ Nth(past[p[1]], tag, k) = NodeAt(p)
      <4>1. SUFFICES ASSUME NEW p \in SlotGivers(tag, k, a)
                     PROVE  p[1] \in givers /\ Nth(past[p[1]], tag, k) = NodeAt(p)
        OBVIOUS
      <4>2. /\ p[1] \in DOMAIN past /\ p[2] \in DOMAIN past[p[1]]
            /\ IsNth(past[p[1]], tag, k, p[2]) /\ a \in DOMAIN NodeAt(p).attributes
        BY PlacesAre DEF PlacesExist, SlotGivers
      <4>3. Gives(past[p[1]], tag, k, a)
        BY <4>2 DEF Gives, NodeAt
      <4>4. Nth(past[p[1]], tag, k) = NodeAt(p)
        BY <2>2, <4>2, NthIsOne DEF NodeAt
      <4> QED
        BY <2>2, <4>2, <4>3, <4>4
    <3>4. Expected(tag, k, a) = IF givers = {} THEN "zero"
                                ELSE Stored(a, Nth(past[LastOf(givers)], tag, k).attributes[a])
      BY DEF Expected
    <3>5. givers \in SUBSET Nat
      BY <2>2
    <3> HIDE DEF givers
    <3>6. CASE SlotGivers(tag, k, a) = {}
      BY <3>1, <3>2, <3>4, <3>6 DEF SlotIsLatest
    <3>7. CASE SlotGivers(tag, k, a) # {}
      <4>1. PICK p \in SlotGivers(tag, k, a) :
              /\ slot[tag][k][a] = Stored(a, NodeAt(p).attributes[a])
              /\ \A q \in SlotGivers(tag, k, a) : q[1] <= p[1]
        BY <3>1, <3>7 DEF SlotIsLatest
      <4>2. p[1] \in givers /\ \A r \in givers : r <= p[1]
        BY <3>2, <3>3, <4>1
      <4>3. LastOf(givers) = p[1]
        BY <3>5, <4>2, LastIs
      <4> QED
        BY <3>3, <3>4, <4>1, <4>2, <4>3
    <3> QED
      BY <3>6, <3>7
  <2>6. ASSUME NEW k \in Buses, NEW m \in 1 .. MaxMessages, NEW a \in MessageFields \cup {"Type"}
        PROVE  message[k][m][a] = ExpectedInMessage(k, m, a)
    <3> DEFINE holders == {r \in 1 .. Len(past) : HasMessage(past[r], k, m)}
               givers == {r \in holders : a \in DOMAIN MessageAt(past[r], k, m).attributes}
               sources == IF a = "Type" THEN holders ELSE givers
    <3>1. MessageIsLatest(k, m, a)
      BY <2>1 DEF AllLatest
    <3>2. \A p \in ChildPlaces :
            IsNth(past[p[1]], "A429_Bus", k, p[2]) /\ IsMth(NodeAt(p), m, p[3]) =>
              p[1] \in holders /\ MessageAt(past[p[1]], k, m) = ChildAt(p)
      <4>1. SUFFICES ASSUME NEW p \in ChildPlaces, IsNth(past[p[1]], "A429_Bus", k, p[2]),
                            IsMth(NodeAt(p), m, p[3])
                     PROVE  p[1] \in holders /\ MessageAt(past[p[1]], k, m) = ChildAt(p)
        OBVIOUS
      <4>2. /\ p[1] \in DOMAIN past /\ p[2] \in DOMAIN past[p[1]]
            /\ p[3] \in DOMAIN past[p[1]][p[2]].children
        BY PlacesAre DEF PlacesExist
      <4>3. IsList(past[p[1]]) /\ IsList(NodeAt(p).children)
        BY <2>1, <4>2, PastIs DEF NodeAt, IsNode
      <4>4. HasMessage(past[p[1]], k, m)
        BY <4>1, <4>2 DEF HasMessage, NodeAt
      <4>5. Nth(past[p[1]], "A429_Bus", k) = NodeAt(p)
        BY <4>1, <4>3, NthIsOne DEF NodeAt
      <4>6. Mth(NodeAt(p), m) = ChildAt(p)
        BY <4>1, <4>3, MthIsOne DEF ChildAt
      <4> QED
        BY <2>2, <4>2, <4>4, <4>5, <4>6 DEF MessageAt
    <3>3. \A r \in holders : \E p \in ChildPlaces :
            p[1] = r /\ IsNth(past[p[1]], "A429_Bus", k, p[2]) /\ IsMth(NodeAt(p), m, p[3])
      <4>1. SUFFICES ASSUME NEW r \in holders
                     PROVE  \E p \in ChildPlaces : /\ p[1] = r /\ IsNth(past[p[1]], "A429_Bus", k, p[2])
                                                   /\ IsMth(NodeAt(p), m, p[3])
        OBVIOUS
      <4>2. r \in DOMAIN past /\ HasMessage(past[r], k, m)
        BY <2>2
      <4>3. PICK i \in DOMAIN past[r] : /\ IsNth(past[r], "A429_Bus", k, i)
                                        /\ \E c \in DOMAIN past[r][i].children : IsMth(past[r][i], m, c)
        BY <4>2 DEF HasMessage
      <4>4. PICK c \in DOMAIN past[r][i].children : IsMth(past[r][i], m, c)
        BY <4>3
      <4>5. <<r, i, c>> \in ChildPlaces
        BY <4>2, <4>3, <4>4, PlacesAre DEF PlacesExist
      <4> QED
        BY <4>3, <4>4, <4>5 DEF NodeAt
    <3>4. \A p \in MessageGivers(k, m, a) :
            p[1] \in sources /\ MessageAt(past[p[1]], k, m) = ChildAt(p)
      BY <3>2 DEF MessageGivers, HasField
    <3>5. \A r \in sources : \E p \in MessageGivers(k, m, a) : p[1] = r
      BY <2>4, <3>2, <3>3 DEF MessageGivers, HasField
    <3>6. ExpectedInMessage(k, m, a) = IF sources = {} THEN "zero"
                                       ELSE Field(MessageAt(past[LastOf(sources)], k, m), a)
      <4>1. CASE a = "Type"
        BY <4>1 DEF ExpectedInMessage, Field
      <4>2. CASE a # "Type"
        BY <4>2 DEF ExpectedInMessage, Field
      <4> QED
        BY <4>1, <4>2
    <3>7. sources \in SUBSET Nat
      BY <2>2
    <3> HIDE DEF sources
    <3>8. CASE MessageGivers(k, m, a) = {}
      BY <3>1, <3>5, <3>6, <3>8 DEF MessageIsLatest
    <3>9. CASE MessageGivers(k, m, a) # {}
      <4>1. PICK p \in MessageGivers(k, m, a) :
              /\ message[k][m][a] = Field(ChildAt(p), a)
              /\ \A q \in MessageGivers(k, m, a) : q[1] <= p[1]
        BY <3>1, <3>9 DEF MessageIsLatest
      <4>2. p[1] \in sources /\ \A r \in sources : r <= p[1]
        BY <3>4, <3>5, <4>1
      <4>3. LastOf(sources) = p[1]
        BY <3>7, <4>2, LastIs
      <4> QED
        BY <3>4, <3>6, <4>1, <4>2, <4>3
    <3> QED
      BY <3>8, <3>9
  <2> QED
    BY <2>5, <2>6 DEF LatestFileWins
<1> QED
  BY <1>1, CmdInvariant, PTL

(* If the nodes of a tag have names and all fit, looking up a name in the structure, as
   localSignalsFromICD does, finds exactly the nodes of the present file of that name. *)
THEOREM LookupsAreExact == Spec => []LookupIsExact
<1>1. CmdInv => LookupIsExact
  <2> SUFFICES ASSUME CmdInv, Done, NEW tag \in Tags \ warned, Named(File, tag), NEW name
               PROVE  Matches(tag, name) =
                        {k \in 1 .. Nodes(File, tag) : Nth(File, tag, k).attributes["Name"] = name}
    BY DEF LookupIsExact
  <2>1. /\ IsList(File) /\ File = past[Len(past)] /\ Len(past) \in DOMAIN past
        /\ \A p \in NodePlaces : NodeRead(p)
    BY AtTheEnd
  <2>2. counter[tag] = Nodes(File, tag)
        /\ \A k \in 1 .. counter[tag] : \E i \in DOMAIN File : IsNth(File, tag, k, i)
    <3>1. Nodes(File, tag) \in Nat /\ MaxOf[tag] \in Nat
      BY AtTheEnd, CountIs, CmdAssumption DEF Nodes
    <3>2. /\ counter[tag] = IF Nodes(File, tag) <= MaxOf[tag] THEN Nodes(File, tag) ELSE MaxOf[tag]
          /\ ~(Nodes(File, tag) > MaxOf[tag])
          /\ \A k \in 1 .. counter[tag] : \E i \in DOMAIN File : IsNth(File, tag, k, i)
      BY AtTheEnd
    <3> QED
      BY <3>1, <3>2
  <2>3. ASSUME NEW k \in 1 .. counter[tag]
        PROVE  slot[tag][k]["Name"] = Nth(File, tag, k).attributes["Name"]
    <3>1. PICK i \in DOMAIN File : IsNth(File, tag, k, i)
      BY <2>2
    <3>2. "Name" \in DOMAIN File[i].attributes
      BY <3>1 DEF Named, IsNth
    <3>3. <<Len(past), i>> \in SlotGivers(tag, k, "Name")
      <4>1. <<Len(past), i>> \in NodePlaces
        BY <2>1, PlacesAre DEF PlacesExist
      <4> QED
        BY <2>1, <3>1, <3>2, <4>1 DEF SlotGivers, NodeAt
    <3>4. SlotIsLatest(tag, k, "Name")
      <4>1. counter[tag] \in 0 .. MaxOf[tag] /\ MaxOf[tag] \in Nat
        BY CmdAssumption DEF CmdInv, TypeOK
      <4>2. k \in 1 .. MaxOf[tag] /\ "Name" \in FieldsOf(tag)
        BY <4>1 DEF FieldsOf, Tags
      <4> QED
        BY <4>2 DEF CmdInv, AllLatest
    <3>5. PICK p \in SlotGivers(tag, k, "Name") :
            /\ slot[tag][k]["Name"] = Stored("Name", NodeAt(p).attributes["Name"])
            /\ \A q \in SlotGivers(tag, k, "Name") : q[1] <= p[1]
      BY <3>3, <3>4 DEF SlotIsLatest
    <3>6. p[1] \in DOMAIN past /\ IsNth(past[p[1]], tag, k, p[2])
      BY PlacesAre DEF SlotGivers, PlacesExist
    <3>7. p[1] = Len(past)
      <4>1. Len(past) <= p[1]
        BY <3>3, <3>5
      <4>2. p[1] \in 1 .. Len(past) /\ Len(past) \in Nat
        BY <3>6, PastIs DEF CmdInv
      <4> QED
        BY <4>1, <4>2
    <3>8. NodeAt(p) = Nth(File, tag, k)
      BY <2>1, <3>6, <3>7, NthIsOne DEF NodeAt
    <3> QED
      BY <3>5, <3>8 DEF Stored
  <2> QED
    BY <2>2, <2>3 DEF Matches
<1> QED
  BY <1>1, CmdInvariant, PTL

(* The nodes that do not fit are told of, tag by tag: without a message all are there.  Of
   the messages of a bus, which are dropped without one, all are there if there is room. *)
THEOREM OnlyMessagesAreLost == Spec => []OnlyMessagesGetLostInSilence
<1>1. CmdInv => OnlyMessagesGetLostInSilence
  <2> SUFFICES ASSUME CmdInv, Done
               PROVE  OnlyMessagesGetLostInSilence
    BY DEF OnlyMessagesGetLostInSilence
  <2>1. \A tag \in Tags :
          /\ counter[tag] = IF Nodes(File, tag) <= MaxOf[tag] THEN Nodes(File, tag) ELSE MaxOf[tag]
          /\ tag \in warned <=> Nodes(File, tag) > MaxOf[tag]
          /\ \A k \in 1 .. counter[tag] : \E i \in DOMAIN File : IsNth(File, tag, k, i)
    BY AtTheEnd
  <2>2. warned \subseteq Tags /\ MaxOf \in [Tags -> Nat \ {0}]
        /\ \A tag \in Tags : Nodes(File, tag) \in Nat
    BY AtTheEnd, CountIs, CmdAssumption DEF CmdInv, TypeOK, Nodes
  <2>3. /\ \A tag \in Tags \ warned : counter[tag] = Nodes(File, tag)
        /\ \A tag \in warned : counter[tag] = MaxOf[tag] /\ Nodes(File, tag) > MaxOf[tag]
    BY <2>1, <2>2
  <2>4. ASSUME NEW k \in 1 .. counter["A429_Bus"]
        PROVE  IF n_messages[k] < MaxMessages
               THEN n_messages[k] = Messages(Nth(File, "A429_Bus", k))
               ELSE Messages(Nth(File, "A429_Bus", k)) >= MaxMessages
    <3>1. PICK i \in DOMAIN File : IsNth(File, "A429_Bus", k, i)
      BY <2>1 DEF Tags
    <3>2. Nth(File, "A429_Bus", k) = File[i]
      BY <3>1, AtTheEnd, NthIsOne
    <3>3. IF n_messages[k] < MaxMessages THEN n_messages[k] = Messages(File[i])
          ELSE Messages(File[i]) >= MaxMessages
      BY <3>1, AtTheEnd DEF CmdInv, MessagesAreCounted
    <3> QED
      BY <3>2, <3>3
  <2> QED
    BY <2>3, <2>4 DEF OnlyMessagesGetLostInSilence
<1> QED
  BY <1>1, CmdInvariant, PTL
=============================================================================
