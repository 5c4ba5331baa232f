--------------------- MODULE ConfigurationReaderProofs ---------------------
(***************************************************************************)
(* Proofs about reading the configuration: for every file and every size   *)
(* of the arrays, the streams and their lists stay consistent with the     *)
(* array of signals, and nothing that a file asks for is lost in silence.  *)
(***************************************************************************)
EXTENDS ConfigurationReader, SequenceTheorems, FiniteSetTheorems, TLAPS

(***************************************************************************)
(* What the invariant says of one side of the connector, o.                *)
(***************************************************************************)

(* The slots after the last one counted were never written. *)
FreeSlots(o) == \A k \in Slots : k > o.nstreams => o.streams[k] = NoStream

(* The lists and the owners of the slots. *)
ListOf(o)  == [k \in Slots |-> o.streams[k].list]
OwnerOf(o) == [k \in Slots |-> o.streams[k].of]

(* ListsEnumerateSignals and SignalsOfTheirStream, of the lists L of one side, with
   n signals, and of the owners. *)
AllListed(L, n) == \A i \in 1 .. n : \E k \in Slots : \E p \in 1 .. Len(L[k]) : L[k][p] = i

Ordered(L) ==
  \A k, l \in Slots : \A p \in 1 .. Len(L[k]), q \in 1 .. Len(L[l]) :
    k < l \/ (k = l /\ p < q) => L[k][p] < L[l][q]

Within(L, n) == \A k \in Slots : \A p \in 1 .. Len(L[k]) : L[k][p] \in 1 .. n

Owned(L, owner, signals) ==
  \A k \in Slots : \A p \in 1 .. Len(L[k]) : signals[L[k][p]][1] = owner[k]

(* M is L with x appended in slot k, the last one that lists anything. *)
Lists == [Slots -> Seq(Nat)]

Extended(L, M, k, x) ==
  /\ L \in Lists /\ M \in Lists
  /\ M[k] = Append(L[k], x) /\ \A l \in Slots \ {k} : M[l] = L[l]
  /\ \A l \in Slots : l > k => L[l] = <<>>

SideInv(o) ==
  /\ o \in SideRecords /\ Len(o.signals) <= MaxSignals
  /\ FreeSlots(o)
  /\ AllListed(ListOf(o), Len(o.signals)) /\ Ordered(ListOf(o))
  /\ Within(ListOf(o), Len(o.signals)) /\ Owned(ListOf(o), OwnerOf(o), o.signals)

Filled(o) == \A k \in Slots : k <= o.nstreams => o.streams[k].of # 0

(***************************************************************************)
(* What it says of the reader.                                             *)
(***************************************************************************)

Loops == {"SIGNALS", "MESSAGES", "ENTRIES"}

(* Where the reader is, and which slots are current there. *)
Position ==
  /\ step = "START" => stream = 0
  /\ stream <= Len(file) + 1
  /\ step = "STREAMS" => stream >= 1
  /\ step \notin Loops => message = 0 /\ current = NoSlots
  /\ step \in Loops => message >= 1 /\ stream \in 1 .. Len(file)
  /\ step = "SIGNALS" => /\ Info.kind = "ASSISTANT"
                         /\ SideOf(Info.direction) \in Sides
                         /\ current[SideOf(Info.direction)] # 0
  /\ step = "MESSAGES" => Info.kind = "A429"
  /\ step = "ENTRIES" => /\ Info.kind \in {"A664", "A825"}
                         /\ \A s \in Sides : current[s] # 0 <=> Asks(stream, 1, s)

(* The current slot of a side is the one counted last, and is the stream's; and the
   properties CountedStreamsAreFilled and OverflowIsReported, of this side. *)
SlotInv(s) ==
  /\ SideInv(io[s])
  /\ current[s] \in 0 .. MaxStreams
  /\ current[s] # 0 => /\ current[s] = io[s].nstreams
                       /\ io[s].streams[current[s]].of = stream
  /\ ~failed => Filled(io[s])
  /\ ~warned => io[s].nstreams <= MaxStreams

Scalars ==
  /\ file \in Files /\ step \in Steps /\ stream \in Nat /\ message \in Nat
  /\ status \in Statuses /\ warned \in BOOLEAN /\ failed \in BOOLEAN

SidesInv ==
  /\ Scalars /\ Position
  /\ io = [s \in Sides |-> io[s]] /\ current = [s \in Sides |-> current[s]]
  /\ \A s \in Sides : SlotInv(s)

(* What the reader has been through. *)
Before(im) == im[1] < stream \/ (im[1] = stream /\ im[2] < message)

(* The file fits, in the words of RoomIsEnough. *)
Roomy ==
  \A s \in Sides : /\ Cardinality(Needed(s)) < MaxStreams
                   /\ Cardinality(Asked(s)) <= MaxSignals

(* The streams that a side needs, as far as the reader has been; no more are counted. *)
Begun(s) == {i \in Needed(s) : i < stream \/ (i = stream /\ current[s] # 0)}

Taken == \A s \in Sides : io[s].nstreams <= Cardinality(Begun(s))

(* As long as nothing was reported, or if the file fits, what was asked for so far is
   stored, and only once. *)
StoredSoFar ==
  (~warned \/ Roomy) /\ ~failed /\ DimensionsFit =>
    \A s \in Sides : /\ Stored(s) = {im \in Asked(s) : Before(im)}
                     /\ Cardinality(Stored(s)) = Len(io[s].signals)

SuccessIsEnd == Success /\ ~failed => stream > Len(file)

ReaderInv == SidesInv /\ Taken /\ StoredSoFar /\ SuccessIsEnd

-----------------------------------------------------------------------------
(***************************************************************************)
(* What the operators of the reader do with one side.                      *)
(***************************************************************************)

(* What appending an element leaves of a sequence. *)
LEMMA AppendIs ==
  ASSUME NEW S, NEW seq \in Seq(S), NEW x \in S
  PROVE  /\ Len(seq) \in Nat /\ Len(Append(seq, x)) = Len(seq) + 1
         /\ Append(seq, x)[Len(seq) + 1] = x
         /\ \A i \in 1 .. Len(seq) : Append(seq, x)[i] = seq[i]
  BY AppendProperties, LenProperties

(* Counting a stream changes the counter only. *)
LEMMA CountIs ==
  ASSUME NEW o \in SideRecords
  PROVE  /\ Count(o) \in SideRecords
         /\ Count(o).nstreams = o.nstreams + 1
         /\ Count(o).streams = o.streams /\ Count(o).signals = o.signals
  <1>1. o.nstreams + 1 \in Nat
    BY DEF SideRecords
  <1> QED
    BY <1>1 DEF Count, SideRecords

(* Counting a stream and assigning its fields, when there is a place for it. *)
LEMMA FillIs ==
  ASSUME NEW o \in SideRecords, o.nstreams < MaxStreams, stream \in Nat
  PROVE  LET f == Fill(Count(o))
             k == o.nstreams + 1
         IN  /\ k \in Slots
             /\ f \in SideRecords
             /\ f.nstreams = k /\ f.signals = o.signals
             /\ f.streams[k] = [of |-> stream, list |-> <<>>]
             /\ \A l \in Slots \ {k} : f.streams[l] = o.streams[l]
  <1> DEFINE c == Count(o)
             k == o.nstreams + 1
             new == [of |-> stream, list |-> <<>>]
  <1>1. /\ c \in SideRecords /\ c.nstreams = k
        /\ c.streams = o.streams /\ c.signals = o.signals
    BY CountIs
  <1>2. k \in Slots
    BY ConfigurationAssumption DEF Slots, SideRecords
  <1>3. new \in StreamRecords
    BY DEF StreamRecords
  <1>4. Fill(c) = [c EXCEPT !.streams = [c.streams EXCEPT ![k] = new]]
    BY <1>1 DEF Fill, SideRecords
  <1> HIDE DEF c, new
  <1>5. [c.streams EXCEPT ![k] = new] \in [1 .. MaxStreams -> StreamRecords]
    BY <1>1, <1>3 DEF SideRecords
  <1>6. /\ Fill(c) \in SideRecords
        /\ Fill(c).nstreams = k /\ Fill(c).signals = o.signals
        /\ Fill(c).streams = [c.streams EXCEPT ![k] = new]
    BY <1>1, <1>4, <1>5 DEF SideRecords
  <1>7. /\ Fill(c).streams[k] = new
        /\ \A l \in Slots \ {k} : Fill(c).streams[l] = o.streams[l]
    BY <1>1, <1>2, <1>6 DEF SideRecords, Slots
  <1> QED
    BY <1>2, <1>6, <1>7 DEF c, new

(* Storing the current message, when there is room for it: the message is the last
   signal, and the last one that the slot lists. *)
LEMMA StoreIs ==
  ASSUME NEW o \in SideRecords, NEW k \in Slots, Len(o.signals) < MaxSignals,
         stream \in Nat, message \in Nat
  PROVE  LET r == Store(o, k)
         IN  /\ r \in SideRecords
             /\ r.nstreams = o.nstreams
             /\ r.signals = Append(o.signals, <<stream, message>>)
             /\ r.streams[k].of = o.streams[k].of
             /\ r.streams[k].list = Append(o.streams[k].list, Len(o.signals) + 1)
             /\ \A l \in Slots \ {k} : r.streams[l] = o.streams[l]
  <1> DEFINE r == Store(o, k)
             d == o.streams[k]
             e == <<stream, message>>
             n == Len(o.signals) + 1
             new == [d EXCEPT !.list = Append(d.list, n)]
  <1>1. /\ o.signals \in Seq(Nat \X Nat) /\ o.streams \in [Slots -> StreamRecords]
        /\ d \in StreamRecords /\ d.list \in Seq(1 .. MaxSignals)
    BY DEF SideRecords, StreamRecords, Slots
  <1>2. Append(o.signals, e) \in Seq(Nat \X Nat)
    BY <1>1, AppendProperties
  <1>3. n \in 1 .. MaxSignals
    BY <1>1, ConfigurationAssumption, LenProperties
  <1>4. Append(d.list, n) \in Seq(1 .. MaxSignals)
    BY <1>1, <1>3, AppendProperties
  <1>5. new \in StreamRecords /\ new.of = d.of /\ new.list = Append(d.list, n)
    BY <1>1, <1>4 DEF StreamRecords
  <1>6. [o.streams EXCEPT ![k].list = Append(@, n)] = [o.streams EXCEPT ![k] = new]
    OBVIOUS
  <1>7. r = [o EXCEPT !.signals = Append(o.signals, e),
                      !.streams = [o.streams EXCEPT ![k] = new]]
    BY <1>6 DEF Store, SideRecords
  <1> HIDE DEF d, e, n, new, r
  <1>8. [o.streams EXCEPT ![k] = new] \in [1 .. MaxStreams -> StreamRecords]
    BY <1>1, <1>5 DEF Slots
  <1>9. /\ r \in SideRecords /\ r.nstreams = o.nstreams
        /\ r.signals = Append(o.signals, e)
        /\ r.streams = [o.streams EXCEPT ![k] = new]
    BY <1>2, <1>7, <1>8 DEF SideRecords
  <1>10. /\ r.streams[k] = new
         /\ \A l \in Slots \ {k} : r.streams[l] = o.streams[l]
    BY <1>1, <1>9
  <1> QED
    BY <1>5, <1>9, <1>10 DEF d, e, n, r

(* A slot lists a number that is greater than all, and no later slot lists any. *)
LEMMA ListsGrow ==
  ASSUME NEW L, NEW M, NEW n \in Nat, NEW k \in Slots, Extended(L, M, k, n + 1),
         AllListed(L, n), Ordered(L), Within(L, n)
  PROVE  AllListed(M, n + 1) /\ Ordered(M) /\ Within(M, n + 1)
  <1> DEFINE q == Len(L[k])
  <1>1. /\ q \in Nat /\ q = Len(L[k]) /\ Len(M[k]) = q + 1 /\ M[k][q + 1] = n + 1
        /\ \A p \in 1 .. q : M[k][p] = L[k][p]
    <2>1. L[k] \in Seq(Nat) /\ M[k] = Append(L[k], n + 1) /\ n + 1 \in Nat
      BY DEF Extended, Lists
    <2> QED
      BY <2>1, AppendIs
  <1> HIDE DEF q
  <1>2. \A l \in Slots : l # k => M[l] = L[l]
    BY DEF Extended
  <1>3. \A l \in Slots : l > k => Len(M[l]) = 0
    <2> SUFFICES ASSUME NEW l \in Slots, l > k
                 PROVE  Len(M[l]) = 0
      OBVIOUS
    <2>1. l # k
      BY DEF Slots
    <2>2. M[l] = <<>>
      BY <1>2, <2>1 DEF Extended
    <2> QED
      BY <2>2
  <1>4. ASSUME NEW l \in Slots, NEW p \in 1 .. Len(L[l])
        PROVE  p \in 1 .. Len(M[l]) /\ M[l][p] = L[l][p] /\ ~(l = k /\ p = q + 1)
    <2>1. CASE l = k
      BY <1>1, <2>1
    <2>2. CASE l # k
      BY <1>2, <2>2
    <2> QED
      BY <2>1, <2>2
  <1>5. ASSUME NEW l \in Slots, NEW p \in 1 .. Len(M[l]), ~(l = k /\ p = q + 1)
        PROVE  p \in 1 .. Len(L[l]) /\ M[l][p] = L[l][p] /\ L[l][p] \in 1 .. n
    <2>1. p \in 1 .. Len(L[l]) /\ M[l][p] = L[l][p]
      <3>1. CASE l = k
        BY <1>1, <1>5, <3>1
      <3>2. CASE l # k
        BY <1>2, <3>2
      <3> QED
        BY <3>1, <3>2
    <2> QED
      BY <2>1 DEF Within
  <1>6. AllListed(M, n + 1)
    <2> SUFFICES ASSUME NEW i \in 1 .. n + 1
                 PROVE  \E l \in Slots : \E p \in 1 .. Len(M[l]) : M[l][p] = i
      BY DEF AllListed
    <2>1. CASE i = n + 1
      BY <1>1, <2>1
    <2>2. CASE i \in 1 .. n
      <3>1. PICK l \in Slots : \E p \in 1 .. Len(L[l]) : L[l][p] = i
        BY <2>2 DEF AllListed
      <3> QED
        BY <1>4, <3>1
    <2> QED
      BY <2>1, <2>2
  <1>7. Ordered(M)
    <2> SUFFICES ASSUME NEW l1 \in Slots, NEW l2 \in Slots,
                        NEW p1 \in 1 .. Len(M[l1]), NEW p2 \in 1 .. Len(M[l2]),
                        l1 < l2 \/ (l1 = l2 /\ p1 < p2)
                 PROVE  M[l1][p1] < M[l2][p2]
      BY DEF Ordered
    <2>1. ~(l1 = k /\ p1 = q + 1)
      <3> SUFFICES ASSUME l1 = k, p1 = q + 1
                   PROVE  FALSE
        OBVIOUS
      <3>1. CASE l2 = k
        BY <1>1, <3>1 DEF Slots
      <3>2. CASE l2 # k
        <4>1. l2 > k
          BY <3>2 DEF Slots
        <4>2. Len(M[l2]) = 0
          BY <1>3, <4>1
        <4> QED
          BY <4>2
      <3> QED
        BY <3>1, <3>2
    <2>2. p1 \in 1 .. Len(L[l1]) /\ M[l1][p1] = L[l1][p1] /\ L[l1][p1] \in 1 .. n
      BY <1>5, <2>1
    <2>3. CASE l2 = k /\ p2 = q + 1
      BY <1>1, <2>2, <2>3
    <2>4. CASE ~(l2 = k /\ p2 = q + 1)
      <3>1. p2 \in 1 .. Len(L[l2]) /\ M[l2][p2] = L[l2][p2]
        BY <1>5, <2>4
      <3> QED
        BY <2>2, <3>1 DEF Ordered
    <2> QED
      BY <2>3, <2>4
  <1>8. Within(M, n + 1)
    <2> SUFFICES ASSUME NEW l \in Slots, NEW p \in 1 .. Len(M[l])
                 PROVE  M[l][p] \in 1 .. n + 1
      BY DEF Within
    <2>1. CASE l = k /\ p = q + 1
      BY <1>1, <2>1
    <2>2. CASE ~(l = k /\ p = q + 1)
      BY <1>5, <2>2
    <2> QED
      BY <2>1, <2>2
  <1> QED
    BY <1>6, <1>7, <1>8

(* The new number is of a signal of the slot's owner. *)
LEMMA OwnersGrow ==
  ASSUME NEW L, NEW M, NEW owner, NEW k \in Slots,
         NEW signals \in Seq(Nat \X Nat), NEW e \in Nat \X Nat, e[1] = owner[k],
         Extended(L, M, k, Len(signals) + 1),
         Within(L, Len(signals)), Owned(L, owner, signals)
  PROVE  Owned(M, owner, Append(signals, e))
  <1> DEFINE q == Len(L[k])
             n == Len(signals)
             more == Append(signals, e)
  <1>1. /\ n \in Nat /\ more[n + 1] = e
        /\ \A i \in 1 .. n : more[i] = signals[i]
    BY AppendIs
  <1>2. /\ q \in Nat /\ q = Len(L[k]) /\ Len(M[k]) = q + 1 /\ M[k][q + 1] = n + 1
        /\ \A p \in 1 .. q : M[k][p] = L[k][p]
    <2>1. L[k] \in Seq(Nat) /\ M[k] = Append(L[k], n + 1) /\ n + 1 \in Nat
      BY <1>1 DEF Extended, Lists
    <2> QED
      BY <2>1, AppendIs
  <1>3. \A l \in Slots : l # k => M[l] = L[l]
    BY DEF Extended
  <1>4. Within(L, n) /\ Owned(L, owner, signals)
    OBVIOUS
  <1> SUFFICES ASSUME NEW l \in Slots, NEW p \in 1 .. Len(M[l])
               PROVE  more[M[l][p]][1] = owner[l]
    BY DEF Owned
  <1> HIDE DEF q, n, more
  <1>5. CASE l = k /\ p = q + 1
    BY <1>1, <1>2, <1>5
  <1>6. CASE ~(l = k /\ p = q + 1)
    <2>1. p \in 1 .. Len(L[l]) /\ M[l][p] = L[l][p]
      <3>1. CASE l = k
        BY <1>2, <1>6, <3>1
      <3>2. CASE l # k
        BY <1>3, <3>2
      <3> QED
        BY <3>1, <3>2
    <2>2. L[l][p] \in 1 .. n /\ signals[L[l][p]][1] = owner[l]
      BY <1>4, <2>1 DEF Within, Owned
    <2>3. more[L[l][p]] = signals[L[l][p]]
      BY <1>1, <2>2
    <2> QED
      BY <2>1, <2>2, <2>3
  <1> QED
    BY <1>5, <1>6

(* An assistant stream beyond the limit is only counted. *)
LEMMA CountKeepsSide ==
  ASSUME NEW o, SideInv(o)
  PROVE  SideInv(Count(o))
  <1>1. /\ Count(o) \in SideRecords /\ Count(o).nstreams = o.nstreams + 1
        /\ Count(o).streams = o.streams /\ Count(o).signals = o.signals
    BY CountIs DEF SideInv
  <1>2. o.nstreams \in Nat
    BY DEF SideInv, SideRecords
  <1>3. FreeSlots(Count(o))
    BY <1>1, <1>2 DEF SideInv, FreeSlots, Slots
  <1>4. ListOf(Count(o)) = ListOf(o) /\ OwnerOf(Count(o)) = OwnerOf(o)
    BY <1>1 DEF ListOf, OwnerOf
  <1> QED
    BY <1>1, <1>3, <1>4 DEF SideInv

(* A stream that is added lists nothing yet, as the slot that it takes. *)
LEMMA FillKeepsSide ==
  ASSUME NEW o, SideInv(o), o.nstreams < MaxStreams, stream \in Nat
  PROVE  SideInv(Fill(Count(o)))
  <1> DEFINE f == Fill(Count(o))
             k == o.nstreams + 1
  <1>1. /\ k \in Slots /\ f \in SideRecords
        /\ f.nstreams = k /\ f.signals = o.signals
        /\ f.streams[k] = [of |-> stream, list |-> <<>>]
        /\ \A l \in Slots \ {k} : f.streams[l] = o.streams[l]
    BY FillIs DEF SideInv
  <1>2. o.streams[k] = NoStream
    BY <1>1 DEF SideInv, FreeSlots, SideRecords
  <1> HIDE DEF f
  <1>3. FreeSlots(f)
    <2>1. o.nstreams \in Nat
      BY DEF SideInv, SideRecords
    <2>2. \A l \in Slots : l > k => l > o.nstreams /\ l # k
      BY <2>1 DEF Slots
    <2> QED
      BY <1>1, <2>2 DEF SideInv, FreeSlots
  <1> HIDE DEF k
  <1>4. /\ f.streams[k].list = <<>> /\ o.streams[k].list = <<>>
        /\ \A l \in Slots \ {k} : f.streams[l] = o.streams[l]
    BY <1>1, <1>2 DEF NoStream
  <1>5. ListOf(f) = ListOf(o) /\ ListOf(o)[k] = <<>>
    BY <1>1, <1>4 DEF ListOf
  <1>6. \A l \in Slots \ {k} : OwnerOf(f)[l] = OwnerOf(o)[l]
    BY <1>4 DEF OwnerOf
  <1>7. Owned(ListOf(f), OwnerOf(f), f.signals)
    <2> SUFFICES ASSUME NEW l \in Slots, NEW p \in 1 .. Len(ListOf(o)[l])
                 PROVE  o.signals[ListOf(o)[l][p]][1] = OwnerOf(f)[l]
      BY <1>1, <1>5 DEF Owned
    <2>1. l # k
      <3>1. Len(ListOf(o)[k]) = 0
        BY <1>5
      <3> QED
        BY <3>1
    <2> QED
      BY <1>6, <2>1 DEF SideInv, Owned
  <1> QED
    BY <1>1, <1>3, <1>5, <1>7 DEF SideInv, f

(* A signal of the stream counted last comes after all the others, in the array of
   signals and in the lists. *)
LEMMA StoreKeepsSide ==
  ASSUME NEW o, SideInv(o), NEW k \in Slots, k = o.nstreams, o.streams[k].of = stream,
         Len(o.signals) < MaxSignals, stream \in Nat, message \in Nat
  PROVE  SideInv(Store(o, k))
  <1> DEFINE r == Store(o, k)
             n == Len(o.signals)
             e == <<stream, message>>
  <1>1. /\ r \in SideRecords /\ r.nstreams = k
        /\ r.signals = Append(o.signals, e)
        /\ r.streams[k].of = o.streams[k].of
        /\ r.streams[k].list = Append(o.streams[k].list, n + 1)
        /\ \A l \in Slots \ {k} : r.streams[l] = o.streams[l]
    BY StoreIs DEF SideInv
  <1>2. /\ o.signals \in Seq(Nat \X Nat) /\ n \in Nat /\ n < MaxSignals
        /\ e \in Nat \X Nat /\ e[1] = stream
    BY LenProperties DEF SideInv, SideRecords
  <1>3. \A l \in Slots : l > k => o.streams[l] = NoStream /\ l # k
    BY DEF SideInv, FreeSlots, Slots
  <1> HIDE DEF r
  <1>4. FreeSlots(r)
    BY <1>1, <1>3 DEF FreeSlots
  <1>5. ASSUME NEW x \in SideRecords
        PROVE  ListOf(x) \in Lists
    <2>1. \A l \in Slots : x.streams[l] \in StreamRecords
      BY DEF SideRecords, Slots
    <2>2. \A d \in StreamRecords : d.list \in Seq(Nat)
      <3>1. ASSUME NEW seq \in Seq(1 .. MaxSignals)
            PROVE  seq \in Seq(Nat)
        <4>1. 1 .. MaxSignals \subseteq Nat
          OBVIOUS
        <4> QED
          BY <4>1, SeqMonotonic
      <3>2. \A d \in StreamRecords : d.list \in Seq(1 .. MaxSignals)
        BY DEF StreamRecords
      <3> QED
        BY <3>1, <3>2
    <2> QED
      BY <2>1, <2>2 DEF ListOf, Lists
  <1>6. Extended(ListOf(o), ListOf(r), k, n + 1)
    <2>1. o.streams[k].list = ListOf(o)[k] /\ r.streams[k].list = ListOf(r)[k]
      BY DEF ListOf
    <2>2. ListOf(r)[k] = Append(ListOf(o)[k], n + 1)
      BY <1>1, <2>1
    <2>3. \A l \in Slots \ {k} : ListOf(r)[l] = ListOf(o)[l]
      BY <1>1 DEF ListOf
    <2>4. \A l \in Slots : l > k => ListOf(o)[l] = <<>>
      BY <1>3 DEF ListOf, NoStream
    <2> QED
      BY <1>1, <1>5, <2>2, <2>3, <2>4 DEF Extended, SideInv
  <1>7. OwnerOf(r) = OwnerOf(o) /\ OwnerOf(o)[k] = stream
    BY <1>1 DEF OwnerOf
  <1>8. Len(r.signals) = n + 1
    BY <1>1, <1>2, AppendIs
  <1> HIDE DEF n, e
  <1>9. AllListed(ListOf(r), n + 1) /\ Ordered(ListOf(r)) /\ Within(ListOf(r), n + 1)
    <2>1. AllListed(ListOf(o), n) /\ Ordered(ListOf(o)) /\ Within(ListOf(o), n)
      BY DEF SideInv, n
    <2> QED
      BY <1>2, <1>6, <2>1, ListsGrow
  <1>10. Owned(ListOf(r), OwnerOf(r), r.signals)
    <2>1. Within(ListOf(o), Len(o.signals)) /\ Owned(ListOf(o), OwnerOf(o), o.signals)
      BY DEF SideInv
    <2> QED
      BY <1>1, <1>2, <1>6, <1>7, <2>1, OwnersGrow DEF n
  <1>11. n + 1 <= MaxSignals
    BY <1>2, ConfigurationAssumption
  <1> QED
    BY <1>1, <1>4, <1>8, <1>9, <1>10, <1>11 DEF SideInv, r

-----------------------------------------------------------------------------
(***************************************************************************)
(* What one step of the reader does to one side of the connector.          *)
(***************************************************************************)
Stays(s) ==
  /\ io'[s] = io[s]
  /\ current'[s] = 0 \/ (current'[s] = current[s] /\ stream' = stream)

Counts(s) ==
  /\ io'[s] = Count(io[s]) /\ current'[s] = 0
  /\ warned' = TRUE /\ (Full(s) \/ failed' = TRUE)

Fills(s) ==
  /\ io'[s] = Fill(Count(io[s])) /\ ~Full(s)
  /\ current'[s] = 0 \/ (current'[s] = io[s].nstreams + 1 /\ stream' = stream)

Stores(s) ==
  /\ current[s] # 0 /\ Len(io[s].signals) < MaxSignals
  /\ io'[s] = Store(io[s], current[s])
  /\ current'[s] = current[s] /\ stream' = stream

FillsAndStores(s) ==
  /\ ~Full(s) /\ Len(io[s].signals) < MaxSignals
  /\ io'[s] = Store(Fill(Count(io[s])), io[s].nstreams + 1)
  /\ current'[s] = io[s].nstreams + 1 /\ stream' = stream

SideStep(s) == Stays(s) \/ Counts(s) \/ Fills(s) \/ Stores(s) \/ FillsAndStores(s)

(* Every step is such a step on both sides, and keeps both arrays. *)
BothSides ==
  /\ io' = [s \in Sides |-> io'[s]] /\ current' = [s \in Sides |-> current'[s]]
  /\ \A s \in Sides : SideStep(s)

(* The files are sequences of descriptions of streams. *)
LEMMA FileIs ==
  ASSUME file \in Files
  PROVE  /\ Len(file) \in Nat
         /\ \A i \in 1 .. Len(file) : /\ file[i].kind \in Kinds
                                      /\ Len(file[i].messages) \in Nat
  <1>1. file \in Seq(StreamInfos)
    BY ConfigurationAssumption
  <1>2. \A i \in 1 .. Len(file) : file[i] \in StreamInfos
    BY <1>1, ElementOfSeq
  <1>3. \A x \in StreamInfos : x.kind \in Kinds /\ x.messages \in Seq(Messages)
    BY DEF StreamInfos
  <1> QED
    BY <1>1, <1>2, <1>3, LenProperties

(* A direction leads to the side that the reader takes for it, if to any. *)
LEMMA LeadsIsSide == \A d : \A s \in Sides : Leads(d, s) <=> SideOf(d) = s
  BY DEF Leads, SideOf, Sides

(* The reader returns, or goes on to the next stream, and leaves io as it is. *)
LEMMA ReturnStays ==
  ASSUME TypeOK, Position, step \notin Loops, UNCHANGED <<io, current>>
  PROVE  BothSides
  <1>1. \A s \in Sides : current[s] = 0
    BY DEF Position, NoSlots
  <1> QED
    BY <1>1 DEF BothSides, SideStep, Stays, TypeOK

(* The current slots are forgotten. *)
LEMMA NextStreamStays ==
  ASSUME TypeOK, io' = io, current' = NoSlots
  PROVE  BothSides
  BY DEF BothSides, SideStep, Stays, TypeOK, NoSlots

(* localSignalsFromECIC before its loop. *)
LEMMA OpenAssistantSides ==
  ASSUME TypeOK, Position, OpenAssistantStream
  PROVE  BothSides
  <1> DEFINE s == SideOf(Info.direction)
  <1> USE DEF OpenAssistantStream
  <1>1. CASE io' = io /\ current' = NoSlots
    BY <1>1, NextStreamStays
  <1>2. CASE /\ s \in Sides /\ io' = [io EXCEPT ![s] = Count(@)]
             /\ current' = NoSlots
             /\ warned' = TRUE /\ (Full(s) \/ failed' = TRUE)
    <2>1. io' = [t \in Sides |-> io'[t]] /\ current' = [t \in Sides |-> current'[t]]
      BY <1>2 DEF TypeOK, NoSlots
    <2>2. Counts(s)
      BY <1>2 DEF Counts, TypeOK, NoSlots
    <2>3. \A t \in Sides \ {s} : Stays(t)
      BY <1>2 DEF Stays, TypeOK, NoSlots
    <2> QED
      BY <2>1, <2>2, <2>3 DEF BothSides, SideStep
  <1>3. CASE /\ s \in Sides /\ ~Full(s) /\ io' = [io EXCEPT ![s] = Fill(Count(@))]
             /\ \/ current' = NoSlots
                \/ /\ current' = [NoSlots EXCEPT ![s] = io[s].nstreams + 1]
                   /\ stream' = stream
    <2>1. io' = [t \in Sides |-> io'[t]] /\ current' = [t \in Sides |-> current'[t]]
      BY <1>3 DEF TypeOK, NoSlots
    <2>2. Fills(s)
      BY <1>3 DEF Fills, TypeOK, NoSlots
    <2>3. \A t \in Sides \ {s} : Stays(t)
      BY <1>3 DEF Stays, TypeOK, NoSlots
    <2> QED
      BY <2>1, <2>2, <2>3 DEF BothSides, SideStep
  <1> QED
    BY <1>1, <1>2, <1>3 DEF NextStream, EnterLoop, CallFails

(* The loop of localSignalsFromECIC. *)
LEMMA AssistantSignalSides ==
  ASSUME TypeOK, Position, AssistantSignal
  PROVE  BothSides
  <1> DEFINE s == SideOf(Info.direction)
  <1> USE DEF AssistantSignal
  <1>1. CASE io' = io /\ current' = NoSlots
    BY <1>1, NextStreamStays
  <1>2. CASE /\ Len(io[s].signals) < MaxSignals /\ io' = [io EXCEPT ![s] = Store(@, current[s])]
             /\ current' = current /\ stream' = stream
    <2>1. s \in Sides /\ current[s] # 0
      BY DEF Position
    <2>2. io' = [t \in Sides |-> io'[t]] /\ current' = [t \in Sides |-> current'[t]]
      BY <1>2 DEF TypeOK
    <2>3. Stores(s)
      BY <1>2, <2>1 DEF Stores, TypeOK
    <2>4. \A t \in Sides \ {s} : Stays(t)
      BY <1>2 DEF Stays, TypeOK
    <2> QED
      BY <2>2, <2>3, <2>4 DEF BothSides, SideStep
  <1> QED
    BY <1>1, <1>2 DEF NextStream, NextMessage, CallFails

(* One message of an A429 stream. *)
LEMMA A429MessageSides ==
  ASSUME TypeOK, Position, A429Message
  PROVE  BothSides
  <1> DEFINE s == SideOf(Info.messages[message])
             k == A429Slot(s)
             o == IF current[s] = 0 THEN Fill(Count(io[s])) ELSE io[s]
  <1> USE DEF A429Message
  <1>1. CASE io' = io /\ current' = NoSlots
    BY <1>1, NextStreamStays
  <1>2. CASE io' = io /\ current' = current /\ stream' = stream
    BY <1>2 DEF BothSides, SideStep, Stays, TypeOK
  <1>3. CASE /\ s \in Sides /\ ~Full(s)
             /\ io' = [io EXCEPT ![s] = StoreIfRoom(o, k)]
             /\ current' = [current EXCEPT ![s] = k]
             /\ stream' = stream
    <2>1. io' = [t \in Sides |-> io'[t]] /\ current' = [t \in Sides |-> current'[t]]
      BY <1>3 DEF TypeOK
    <2>2. \A t \in Sides \ {s} : Stays(t)
      BY <1>3 DEF Stays, TypeOK
    <2>3. io'[s] = StoreIfRoom(o, k) /\ current'[s] = k
      BY <1>3 DEF TypeOK
    <2>4. SideStep(s)
      <3>1. CASE current[s] # 0
        <4>1. io'[s] = StoreIfRoom(io[s], current[s]) /\ current'[s] = current[s]
          BY <2>3, <3>1 DEF A429Slot
        <4> QED
          BY <1>3, <3>1, <4>1 DEF SideStep, StoreIfRoom, Room, Stores, Stays
      <3>2. CASE current[s] = 0
        <4>1. /\ io'[s] = StoreIfRoom(Fill(Count(io[s])), io[s].nstreams + 1)
              /\ current'[s] = io[s].nstreams + 1
          BY <2>3, <3>2 DEF A429Slot
        <4>2. Fill(Count(io[s])).signals = io[s].signals
          <5>1. io[s] \in SideRecords /\ stream \in Nat
            BY <1>3 DEF TypeOK
          <5>2. io[s].nstreams < MaxStreams
            BY <1>3, <5>1, ConfigurationAssumption DEF Full, SideRecords
          <5> QED
            BY <5>1, <5>2, FillIs
        <4> QED
          BY <1>3, <4>1, <4>2 DEF SideStep, StoreIfRoom, Room, Fills, FillsAndStores
      <3> QED
        BY <3>1, <3>2
    <2> QED
      BY <2>1, <2>2, <2>4 DEF BothSides, SideStep
  <1> QED
    BY <1>1, <1>2, <1>3 DEF NextStream, NextMessage

(* The stream of an A664 bus. *)
LEMMA OpenA664Sides ==
  ASSUME TypeOK, Position, OpenA664Stream
  PROVE  BothSides
  <1> DEFINE s == SideOf(Info.direction)
  <1> USE DEF OpenA664Stream
  <1>1. CASE io' = io /\ current' = NoSlots
    BY <1>1, NextStreamStays
  <1>2. CASE /\ s \in Sides /\ ~Full(s) /\ io' = [io EXCEPT ![s] = Fill(Count(@))]
             /\ current' = [NoSlots EXCEPT ![s] = io[s].nstreams + 1]
             /\ stream' = stream
    <2>1. io' = [t \in Sides |-> io'[t]] /\ current' = [t \in Sides |-> current'[t]]
      BY <1>2 DEF TypeOK, NoSlots
    <2>2. Fills(s)
      BY <1>2 DEF Fills, TypeOK, NoSlots
    <2>3. \A t \in Sides \ {s} : Stays(t)
      BY <1>2 DEF Stays, TypeOK, NoSlots
    <2> QED
      BY <2>1, <2>2, <2>3 DEF BothSides, SideStep
  <1> QED
    BY <1>1, <1>2 DEF NextStream, EnterLoop

(* The two streams of an A825 bus. *)
LEMMA OpenA825Sides ==
  ASSUME TypeOK, Position, OpenA825Stream
  PROVE  BothSides
  <1> USE DEF OpenA825Stream
  <1>1. CASE io' = io /\ current' = NoSlots
    BY <1>1, NextStreamStays
  <1>2. CASE /\ ~Full("inputs") /\ io' = [io EXCEPT !["inputs"] = Fill(Count(@))]
             /\ current' = NoSlots
    <2>1. io' = [t \in Sides |-> io'[t]] /\ current' = [t \in Sides |-> current'[t]]
      BY <1>2 DEF TypeOK, NoSlots
    <2>2. Fills("inputs")
      BY <1>2 DEF Fills, TypeOK, NoSlots, Sides
    <2>3. Stays("outputs")
      BY <1>2 DEF Stays, TypeOK, NoSlots, Sides
    <2> QED
      BY <2>1, <2>2, <2>3 DEF BothSides, SideStep, Sides
  <1>3. CASE /\ ~Full("inputs") /\ ~Full("outputs")
             /\ io' = [s \in Sides |-> Fill(Count(io[s]))]
             /\ current' = [s \in Sides |-> io[s].nstreams + 1]
             /\ stream' = stream
    <2>1. io' = [t \in Sides |-> io'[t]] /\ current' = [t \in Sides |-> current'[t]]
      BY <1>3
    <2>2. \A s \in Sides : ~Full(s)
      BY <1>3 DEF Sides
    <2>3. \A s \in Sides : Fills(s)
      BY <1>3, <2>2 DEF Fills
    <2> QED
      BY <2>1, <2>3 DEF BothSides, SideStep
  <1> QED
    BY <1>1, <1>2, <1>3 DEF NextStream, EnterLoop

(* One entry of the CMD file of an A664 or A825 bus. *)
LEMMA IcdEntrySides ==
  ASSUME TypeOK, Position, IcdEntry
  PROVE  BothSides
  <1> USE DEF IcdEntry
  <1>1. /\ current' = current /\ stream' = stream
        /\ io' = [s \in Sides |-> IF current[s] = 0 THEN io[s]
                                  ELSE StoreIfRoom(io[s], current[s])]
    BY DEF NextMessage
  <1>2. io' = [t \in Sides |-> io'[t]] /\ current' = [t \in Sides |-> current'[t]]
    BY <1>1 DEF TypeOK
  <1>3. ASSUME NEW s \in Sides
        PROVE  SideStep(s)
    <2>1. CASE current[s] = 0
      BY <1>1, <2>1 DEF SideStep, Stays
    <2>2. CASE current[s] # 0
      <3>1. io'[s] = StoreIfRoom(io[s], current[s])
        BY <1>1, <2>2
      <3> QED
        BY <1>1, <2>2, <3>1 DEF SideStep, StoreIfRoom, Room, Stays, Stores
    <2> QED
      BY <2>1, <2>2
  <1> QED
    BY <1>2, <1>3 DEF BothSides

(* The whole reader: no step does anything else to the connector. *)
LEMMA EveryStepOnBothSides ==
  ASSUME TypeOK, Position, Next
  PROVE  BothSides
  <1>1. CASE Open \/ StreamFails \/ Close
    BY <1>1, ReturnStays DEF Open, StreamFails, Close, Return, Loops
  <1>2. CASE SkipStream \/ CmdFails \/ OpenA429Stream \/ EndOfIcd
    BY <1>2, NextStreamStays
       DEF SkipStream, CmdFails, OpenA429Stream, EndOfIcd, NextStream, EnterLoop
  <1> QED
    BY <1>1, <1>2, OpenAssistantSides, AssistantSignalSides, A429MessageSides,
       OpenA664Sides, OpenA825Sides, IcdEntrySides DEF Next

(* A stream that is added has its fields assigned. *)
LEMMA FillFills ==
  ASSUME NEW o \in SideRecords, o.nstreams < MaxStreams, stream \in Nat \ {0}
  PROVE  Filled(o) => Filled(Fill(Count(o)))
  <1> DEFINE f == Fill(Count(o))
             k == o.nstreams + 1
  <1>1. /\ f.nstreams = k /\ f.streams[k] = [of |-> stream, list |-> <<>>]
        /\ \A l \in Slots \ {k} : f.streams[l] = o.streams[l]
    BY FillIs
  <1>2. f.streams[k].of # 0
    BY <1>1
  <1>3. \A l \in Slots : l <= k => l = k \/ l <= o.nstreams
    BY DEF SideRecords, Slots
  <1> HIDE DEF f, k
  <1>4. ASSUME Filled(o), NEW l \in Slots, l <= f.nstreams
        PROVE  f.streams[l].of # 0
    <2>1. CASE l = k
      BY <1>2, <2>1
    <2>2. CASE l # k
      BY <1>1, <1>3, <1>4, <2>2 DEF Filled
    <2> QED
      BY <2>1, <2>2
  <1> QED
    BY <1>4 DEF Filled, f

(* A signal that is stored changes no owner. *)
LEMMA StoreFills ==
  ASSUME NEW o \in SideRecords, NEW k \in Slots, Len(o.signals) < MaxSignals,
         stream \in Nat, message \in Nat
  PROVE  Filled(o) => Filled(Store(o, k))
  <1> DEFINE r == Store(o, k)
  <1>1. /\ r.nstreams = o.nstreams /\ r.streams[k].of = o.streams[k].of
        /\ \A l \in Slots \ {k} : r.streams[l] = o.streams[l]
    BY StoreIs
  <1> HIDE DEF r
  <1>2. \A l \in Slots : r.streams[l].of = o.streams[l].of
    BY <1>1
  <1> QED
    BY <1>1, <1>2 DEF Filled, r

(* A stream that is added becomes current, unless the next one is looked at. *)
LEMMA FilledSide ==
  ASSUME NEW s \in Sides, SlotInv(s), stream \in Nat \ {0}, ~Full(s)
  PROVE  LET f == Fill(Count(io[s]))
             k == io[s].nstreams + 1
         IN  /\ k \in Slots /\ k <= MaxStreams /\ k # 0
             /\ SideInv(f) /\ f \in SideRecords
             /\ f.nstreams = k /\ f.streams[k].of = stream
             /\ f.signals = io[s].signals
             /\ Filled(io[s]) => Filled(f)
  <1>1. io[s] \in SideRecords /\ SideInv(io[s])
    BY DEF SlotInv, SideInv
  <1>2. io[s].nstreams < MaxStreams
    BY <1>1, ConfigurationAssumption DEF Full, SideRecords
  <1>3. /\ SideInv(Fill(Count(io[s])))
        /\ Filled(io[s]) => Filled(Fill(Count(io[s])))
    BY <1>1, <1>2, FillKeepsSide, FillFills
  <1>4. LET f == Fill(Count(io[s]))
            k == io[s].nstreams + 1
        IN  /\ k \in Slots /\ f \in SideRecords /\ f.nstreams = k /\ f.signals = io[s].signals
            /\ f.streams[k].of = stream
    BY <1>1, <1>2, FillIs
  <1>5. io[s].nstreams + 1 <= MaxStreams /\ io[s].nstreams + 1 # 0
    BY <1>4 DEF Slots
  <1> QED
    BY <1>3, <1>4, <1>5

(* Whatever the step does to the side, it keeps what the invariant says of it. *)
LEMMA SideStepKeeps ==
  ASSUME NEW s \in Sides, SlotInv(s), stream \in Nat, message \in Nat,
         stream # 0 \/ Stays(s), SideStep(s),
         ~failed' => ~failed, ~warned' => ~warned
  PROVE  SlotInv(s)'
  <1>1. CASE Stays(s)
    <2>1. io'[s] = io[s] /\ (current'[s] = 0 \/ (current'[s] = current[s] /\ stream' = stream))
      BY <1>1 DEF Stays
    <2>2. current'[s] \in 0 .. MaxStreams
      BY <2>1, ConfigurationAssumption DEF SlotInv
    <2>3. SideInv(io'[s])
      BY <2>1 DEF SlotInv
    <2>4. ~failed' => Filled(io'[s])
      BY <2>1 DEF SlotInv
    <2>5. ~warned' => io'[s].nstreams <= MaxStreams
      BY <2>1 DEF SlotInv
    <2> QED
      BY <2>1, <2>2, <2>3, <2>4, <2>5 DEF SlotInv
  <1>2. CASE Counts(s)
    <2>1. /\ io[s] \in SideRecords /\ SideInv(Count(io[s]))
          /\ Count(io[s]).nstreams = io[s].nstreams + 1
          /\ Count(io[s]).streams = io[s].streams
      BY CountKeepsSide, CountIs DEF SlotInv, SideInv
    <2>2. ASSUME ~failed'
          PROVE  Filled(Count(io[s]))
      <3>1. Full(s) /\ Filled(io[s])
        BY <1>2, <2>2 DEF Counts, SlotInv
      <3>2. \A k \in Slots : k <= io[s].nstreams
        BY <2>1, <3>1, ConfigurationAssumption DEF Full, SideRecords, Slots
      <3> QED
        BY <2>1, <3>1, <3>2 DEF Filled
    <2>3. io'[s] = Count(io[s]) /\ current'[s] = 0 /\ warned'
      BY <1>2 DEF Counts
    <2>4. current'[s] \in 0 .. MaxStreams
      BY <2>3, ConfigurationAssumption
    <2> QED
      BY <2>1, <2>2, <2>3, <2>4 DEF SlotInv
  <1>3. CASE stream # 0 /\ (Fills(s) \/ FillsAndStores(s))
    <2> DEFINE f == Fill(Count(io[s]))
               k == io[s].nstreams + 1
    <2>1. ~Full(s) /\ stream \in Nat \ {0}
      BY <1>3 DEF Fills, FillsAndStores
    <2>2. /\ k \in Slots /\ k <= MaxStreams /\ k # 0
          /\ SideInv(f) /\ f \in SideRecords
          /\ f.nstreams = k /\ f.streams[k].of = stream /\ f.signals = io[s].signals
          /\ Filled(io[s]) => Filled(f)
      BY <2>1, FilledSide
    <2>3. k \in 0 .. MaxStreams /\ 0 \in 0 .. MaxStreams
      BY <2>2, ConfigurationAssumption DEF Slots
    <2>4. ~failed' => Filled(f)
      BY <2>2 DEF SlotInv
    <2>5. ASSUME Fills(s)
          PROVE  SlotInv(s)'
      <3>1. /\ io'[s] = f
            /\ current'[s] = 0 \/ (current'[s] = k /\ stream' = stream)
        BY <2>5 DEF Fills
      <3> HIDE DEF f, k
      <3> QED
        BY <2>2, <2>3, <2>4, <3>1 DEF SlotInv
    <2>6. ASSUME FillsAndStores(s)
          PROVE  SlotInv(s)'
      <3>1. /\ io'[s] = Store(f, k) /\ Len(f.signals) < MaxSignals
            /\ current'[s] = k /\ stream' = stream
        BY <2>2, <2>6 DEF FillsAndStores
      <3> HIDE DEF f, k
      <3>2. SideInv(Store(f, k))
        BY <2>2, <3>1, StoreKeepsSide
      <3>3. Store(f, k).nstreams = k /\ Store(f, k).streams[k].of = stream
        BY <2>2, <3>1, StoreIs
      <3>4. Filled(f) => Filled(Store(f, k))
        BY <2>2, <3>1, StoreFills
      <3> QED
        BY <2>2, <2>3, <2>4, <3>1, <3>2, <3>3, <3>4 DEF SlotInv
    <2> QED
      BY <1>3, <2>5, <2>6
  <1>4. CASE Stores(s)
    <2> DEFINE o == io[s]
               k == current[s]
    <2>1. /\ io'[s] = Store(o, k) /\ current'[s] = k /\ stream' = stream
          /\ k # 0 /\ Len(o.signals) < MaxSignals
      BY <1>4 DEF Stores
    <2>2. /\ SideInv(o) /\ o \in SideRecords
          /\ k = o.nstreams /\ o.streams[k].of = stream
          /\ k \in 0 .. MaxStreams /\ k \in Slots
      BY <2>1 DEF SlotInv, SideInv, Slots
    <2>3. (~failed' => Filled(o)) /\ (~warned' => k <= MaxStreams)
      BY <2>2 DEF SlotInv
    <2> HIDE DEF o, k
    <2>4. SideInv(Store(o, k))
      BY <2>1, <2>2, StoreKeepsSide
    <2>5. Store(o, k).nstreams = k /\ Store(o, k).streams[k].of = stream
      BY <2>1, <2>2, StoreIs
    <2>6. Filled(o) => Filled(Store(o, k))
      BY <2>1, <2>2, StoreFills
    <2> QED
      BY <2>1, <2>2, <2>3, <2>4, <2>5, <2>6 DEF SlotInv
  <1> QED
    BY <1>1, <1>2, <1>3, <1>4 DEF SideStep

-----------------------------------------------------------------------------
(***************************************************************************)
(* Where a step leads the reader.                                          *)
(***************************************************************************)
(* What was reported, or failed, is not forgotten, and the file does not change. *)
Remembers == file' = file /\ (~failed' => ~failed) /\ (~warned' => ~warned)

(* A flag that is only ever raised. *)
LEMMA FlagIs ==
  ASSUME NEW a \in BOOLEAN, NEW b, b = a \/ b = TRUE
  PROVE  b \in BOOLEAN /\ (~b => ~a)
  OBVIOUS

(* Every action leaves these variables in their domains. *)
LEMMA ScalarsStep ==
  ASSUME Scalars, Next
  PROVE  Scalars' /\ Remembers
  <1> USE DEF Scalars, Remembers, Steps, Statuses
  <1>1. CASE Open \/ StreamFails \/ Close
    <2>1. failed' \in BOOLEAN /\ (~failed' => ~failed)
      <3>1. failed' = failed \/ failed' = TRUE
        BY <1>1 DEF Open, StreamFails, Close, CallFails
      <3> QED
        BY <3>1, FlagIs
    <2>2. warned' \in BOOLEAN /\ (~warned' => ~warned)
      <3>1. warned' = warned \/ warned' = TRUE
        BY <1>1 DEF Open, StreamFails, Close
      <3> QED
        BY <3>1, FlagIs
    <2>3. /\ file' = file /\ message' = message /\ stream' \in {stream, 1}
          /\ step' \in {"END", "STREAMS"} /\ status' \in Statuses
      BY <1>1 DEF Open, StreamFails, Close, Return
    <2> QED
      BY <2>1, <2>2, <2>3
  <1>2. ASSUME NEW prints \in BOOLEAN, NextStream(prints), failed' = failed \/ failed' = TRUE
        PROVE  Scalars' /\ Remembers
    <2>1. warned' \in BOOLEAN /\ (~warned' => ~warned)
      BY <1>2 DEF NextStream
    <2>2. failed' \in BOOLEAN /\ (~failed' => ~failed)
      BY <1>2, FlagIs
    <2>3. /\ step' = "STREAMS" /\ stream' = stream + 1 /\ message' = 0
          /\ file' = file /\ status' = status
      BY <1>2 DEF NextStream
    <2> QED
      BY <2>1, <2>2, <2>3
  <1>3. ASSUME NEW prints \in BOOLEAN, NextMessage(prints)
        PROVE  Scalars' /\ Remembers
    <2>1. warned' \in BOOLEAN /\ (~warned' => ~warned)
      BY <1>3 DEF NextMessage
    <2> QED
      BY <1>3, <2>1 DEF NextMessage
  <1>4. ASSUME NEW loop \in Loops, NEW slots, EnterLoop(loop, slots)
        PROVE  Scalars' /\ Remembers
    BY <1>4 DEF EnterLoop, Loops
  <1>5. CASE SkipStream \/ CmdFails \/ EndOfIcd
    <2>1. \E prints \in BOOLEAN : NextStream(prints)
      BY <1>5 DEF SkipStream, CmdFails, EndOfIcd
    <2>2. failed' = failed \/ failed' = TRUE
      BY <1>5 DEF SkipStream, CmdFails, EndOfIcd, CallFails
    <2> QED
      BY <1>2, <2>1, <2>2
  <1>6. CASE OpenAssistantStream \/ OpenA429Stream \/ OpenA664Stream \/ OpenA825Stream
    <2>1. CASE \E loop \in Loops : \E slots : EnterLoop(loop, slots)
      BY <1>4, <2>1
    <2>2. CASE (\E prints \in BOOLEAN : NextStream(prints)) /\ (failed' = failed \/ failed' = TRUE)
      BY <1>2, <2>2
    <2>3. CASE OpenAssistantStream
      BY <2>1, <2>2, <2>3 DEF OpenAssistantStream, CallFails, Loops
    <2>4. CASE OpenA429Stream
      BY <2>1, <2>4 DEF OpenA429Stream, Loops
    <2>5. CASE OpenA664Stream
      <3>1. (SideOf(Info.direction) \in Sides) \in BOOLEAN
        OBVIOUS
      <3>2. \/ NextStream(SideOf(Info.direction) \in Sides) /\ failed' = failed
            \/ \E slots : EnterLoop("ENTRIES", slots)
        BY <2>5 DEF OpenA664Stream
      <3> HIDE DEF Scalars, Remembers
      <3> QED
        BY <2>1, <2>2, <3>1, <3>2 DEF Loops
    <2>6. CASE OpenA825Stream
      BY <2>1, <2>2, <2>6 DEF OpenA825Stream, Loops
    <2> QED
      BY <1>6, <2>3, <2>4, <2>5, <2>6
  <1>7. CASE AssistantSignal
    BY <1>2, <1>3, <1>7 DEF AssistantSignal, CallFails
  <1>8. CASE A429Message
    BY <1>2, <1>3, <1>8 DEF A429Message
  <1>9. CASE IcdEntry
    BY <1>3, <1>9 DEF IcdEntry
  <1> QED
    BY <1>1, <1>5, <1>6, <1>7, <1>8, <1>9 DEF Next

(* The reader returns with no current slot. *)
LEMMA PositionReturns ==
  ASSUME TypeOK, Position, Open \/ StreamFails \/ Close
  PROVE  Position'
  <1>1. Len(file) \in Nat
    BY FileIs DEF TypeOK
  <1>2. \/ step' = "END"
        \/ step' = "STREAMS" /\ stream' = 1
    BY DEF Open, StreamFails, Close, Return
  <1>3. /\ file' = file /\ message' = 0 /\ current' = NoSlots
        /\ stream' <= Len(file) + 1
    BY <1>1 DEF Open, StreamFails, Close, Return, Position, Loops, TypeOK
  <1> QED
    BY <1>2, <1>3 DEF Position, Loops

(* The next stream is at most the one after the last. *)
LEMMA PositionNextStream ==
  ASSUME TypeOK, Position, NEW prints, NextStream(prints), stream \in 1 .. Len(file)
  PROVE  Position'
  <1>1. Len(file) \in Nat
    BY FileIs DEF TypeOK
  <1>2. /\ step' = "STREAMS" /\ file' = file /\ message' = 0 /\ current' = NoSlots
        /\ stream' <= Len(file) + 1 /\ stream' >= 1
    BY <1>1 DEF NextStream
  <1> QED
    BY <1>2 DEF Position, Loops

(* The next message is one of the same stream, whose slots stay the current ones. *)
LEMMA PositionNextMessage ==
  ASSUME TypeOK, Position, NEW prints, NextMessage(prints), step \in Loops,
         \A s \in Sides : current[s] # 0 => current'[s] # 0,
         step = "ENTRIES" => current' = current
  PROVE  Position'
  <1>1. /\ step' = step /\ file' = file /\ stream' = stream /\ message' = message + 1
    BY DEF NextMessage
  <1>2. message' >= 1
    BY <1>1 DEF TypeOK
  <1>3. \A s : Asks(stream, 1, s)' <=> Asks(stream, 1, s)
    BY <1>1 DEF Asks
  <1> QED
    BY <1>1, <1>2, <1>3 DEF Position, Loops, Info

(* A loop is entered with the slots of the streams that were added for it. *)
LEMMA PositionEnters ==
  ASSUME TypeOK, Position, stream \in 1 .. Len(file),
         NEW loop \in Loops, NEW slots, EnterLoop(loop, slots),
         \/ loop = "SIGNALS" /\ Info.kind = "ASSISTANT" /\ SideOf(Info.direction) \in Sides
            /\ slots[SideOf(Info.direction)] # 0
         \/ loop = "MESSAGES" /\ Info.kind = "A429"
         \/ /\ loop = "ENTRIES" /\ Info.kind \in {"A664", "A825"}
            /\ \A s \in Sides : slots[s] # 0 <=> Asks(stream, 1, s)
  PROVE  Position'
  <1>1. /\ step' = loop /\ message' = 1 /\ current' = slots /\ file' = file /\ stream' = stream
    BY DEF EnterLoop
  <1>2. \A s : Asks(stream, 1, s)' <=> Asks(stream, 1, s)
    BY <1>1 DEF Asks
  <1> QED
    BY <1>1, <1>2 DEF Position, Loops, Info

(* The reader only looks at streams of the file. *)
LEMMA PositionStep ==
  ASSUME TypeOK, Position, Next
  PROVE  Position'
  <1>0. Len(file) \in Nat /\ stream \in Nat /\ \A s \in Sides : io[s].nstreams + 1 # 0
    BY FileIs DEF TypeOK, SideRecords
  <1>1. CASE Open \/ StreamFails \/ Close
    BY <1>1, PositionReturns
  <1>2. CASE SkipStream \/ CmdFails \/ EndOfIcd
    <2>1. stream \in 1 .. Len(file)
      <3>1. CASE SkipStream \/ CmdFails
        <4>1. step = "STREAMS" /\ stream <= Len(file)
          BY <3>1 DEF SkipStream, CmdFails, At
        <4> QED
          BY <1>0, <4>1 DEF Position
      <3>2. CASE EndOfIcd
        BY <3>2 DEF EndOfIcd, Position, Loops
      <3> QED
        BY <1>2, <3>1, <3>2
    <2> QED
      BY <1>2, <2>1, PositionNextStream DEF SkipStream, CmdFails, EndOfIcd
  <1>3. CASE OpenAssistantStream
    <2> DEFINE s == SideOf(Info.direction)
    <2>1. stream \in 1 .. Len(file) /\ Info.kind = "ASSISTANT"
      BY <1>0, <1>3 DEF OpenAssistantStream, At, Position
    <2>2. ASSUME s \in Sides, EnterLoop("SIGNALS", [NoSlots EXCEPT ![s] = io[s].nstreams + 1])
          PROVE  Position'
      <3>1. [NoSlots EXCEPT ![s] = io[s].nstreams + 1][s] # 0
        BY <1>0, <2>2 DEF NoSlots
      <3> QED
        BY <2>1, <2>2, <3>1, PositionEnters DEF Loops
    <2> QED
      BY <1>3, <2>1, <2>2, PositionNextStream DEF OpenAssistantStream
  <1>4. CASE OpenA429Stream
    <2>1. stream \in 1 .. Len(file) /\ Info.kind = "A429"
      BY <1>0, <1>4 DEF OpenA429Stream, At, Position
    <2> QED
      BY <1>4, <2>1, PositionEnters DEF OpenA429Stream, Loops
  <1>5. CASE OpenA664Stream
    <2> DEFINE s == SideOf(Info.direction)
    <2>1. stream \in 1 .. Len(file) /\ Info.kind = "A664"
      BY <1>0, <1>5 DEF OpenA664Stream, At, Position
    <2>2. ASSUME s \in Sides, EnterLoop("ENTRIES", [NoSlots EXCEPT ![s] = io[s].nstreams + 1])
          PROVE  Position'
      <3>1. \A t \in Sides : [NoSlots EXCEPT ![s] = io[s].nstreams + 1][t] # 0 <=> t = s
        BY <1>0, <2>2 DEF NoSlots
      <3>2. \A t \in Sides : Asks(stream, 1, t) <=> t = s
        BY <2>1, LeadsIsSide DEF Asks, Info
      <3> QED
        BY <2>1, <2>2, <3>1, <3>2, PositionEnters DEF Loops
    <2> QED
      BY <1>5, <2>1, <2>2, PositionNextStream DEF OpenA664Stream
  <1>6. CASE OpenA825Stream
    <2>1. stream \in 1 .. Len(file) /\ Info.kind = "A825"
      BY <1>0, <1>6 DEF OpenA825Stream, At, Position
    <2>2. ASSUME EnterLoop("ENTRIES", [s \in Sides |-> io[s].nstreams + 1])
          PROVE  Position'
      <3>1. \A t \in Sides : [s \in Sides |-> io[s].nstreams + 1][t] # 0
        BY <1>0
      <3>2. \A t \in Sides : Asks(stream, 1, t)
        BY <2>1 DEF Asks, Info
      <3> QED
        BY <2>1, <2>2, <3>1, <3>2, PositionEnters DEF Loops
    <2> QED
      BY <1>6, <2>1, <2>2, PositionNextStream DEF OpenA825Stream
  <1>7. CASE AssistantSignal
    <2>1. stream \in 1 .. Len(file) /\ step \in Loops
      BY <1>7 DEF AssistantSignal, Position, Loops
    <2>2. \/ NextStream(TRUE) \/ NextStream(FALSE) \/ NextStream(Len(io[SideOf(Info.direction)].signals) = MaxSignals)
          \/ NextMessage(FALSE) /\ current' = current
      BY <1>7 DEF AssistantSignal
    <2> QED
      BY <2>1, <2>2, PositionNextStream, PositionNextMessage
  <1>8. CASE A429Message
    <2> DEFINE s == SideOf(Info.messages[message])
    <2>1. stream \in 1 .. Len(file) /\ step = "MESSAGES" /\ step \in Loops
      BY <1>8 DEF A429Message, Position, Loops
    <2>2. \/ NextStream(TRUE)
          \/ \E prints : NextMessage(prints) /\ current' = current
          \/ \E prints : NextMessage(prints) /\ s \in Sides /\ current' = [current EXCEPT ![s] = A429Slot(s)]
      BY <1>8 DEF A429Message
    <2>3. ASSUME s \in Sides, current' = [current EXCEPT ![s] = A429Slot(s)]
          PROVE  \A t \in Sides : current[t] # 0 => current'[t] # 0
      BY <1>0, <2>3 DEF A429Slot, TypeOK
    <2> QED
      BY <2>1, <2>2, <2>3, PositionNextStream, PositionNextMessage
  <1>9. CASE IcdEntry
    BY <1>9, PositionNextMessage DEF IcdEntry, Loops
  <1> QED
    BY <1>1, <1>2, <1>3, <1>4, <1>5, <1>6, <1>7, <1>8, <1>9 DEF Next

-----------------------------------------------------------------------------
(***************************************************************************)
(* The sides of the connector, in every state.                             *)
(***************************************************************************)

(* What the invariant says of the two sides implies their types. *)
LEMMA SidesTypeOK == SidesInv => TypeOK
  <1> SUFFICES ASSUME SidesInv
               PROVE  TypeOK
    OBVIOUS
  <1>1. \A s \in Sides : /\ io[s] \in SideRecords /\ Len(io[s].signals) <= MaxSignals
                         /\ current[s] \in 0 .. MaxStreams
    BY DEF SidesInv, SlotInv, SideInv
  <1>2. io \in [Sides -> SideRecords] /\ current \in [Sides -> 0 .. MaxStreams]
    BY <1>1 DEF SidesInv
  <1> QED
    BY <1>1, <1>2 DEF TypeOK, SidesInv, Scalars

(* The arrays are empty at first. *)
LEMMA NoSideInv == SideInv(NoSide) /\ Filled(NoSide)
  <1>1. NoStream \in StreamRecords
    <2>1. <<>> \in Seq(1 .. MaxSignals)
      OBVIOUS
    <2> QED
      BY <2>1 DEF NoStream, StreamRecords
  <1>2. <<>> \in Seq(Nat \X Nat) /\ Len(<<>>) = 0
    OBVIOUS
  <1>3. /\ NoSide \in SideRecords /\ NoSide.nstreams = 0 /\ NoSide.signals = <<>>
        /\ \A k \in Slots : NoSide.streams[k] = NoStream
    BY <1>1, <1>2 DEF NoSide, SideRecords, Slots
  <1>4. \A k \in Slots : ListOf(NoSide)[k] = <<>>
    BY <1>3 DEF ListOf, NoStream
  <1>5. \A k \in Slots : Len(ListOf(NoSide)[k]) = 0
    BY <1>4
  <1>6. FreeSlots(NoSide) /\ Filled(NoSide)
    BY <1>3 DEF FreeSlots, Filled, Slots
  <1>7. AllListed(ListOf(NoSide), 0) /\ Ordered(ListOf(NoSide)) /\ Within(ListOf(NoSide), 0)
    BY <1>5 DEF AllListed, Ordered, Within
  <1>8. Owned(ListOf(NoSide), OwnerOf(NoSide), NoSide.signals)
    BY <1>5 DEF Owned
  <1>9. Len(NoSide.signals) = 0 /\ 0 <= MaxSignals
    BY <1>3, ConfigurationAssumption
  <1> QED
    BY <1>3, <1>6, <1>7, <1>8, <1>9 DEF SideInv

(* The reader starts with nothing. *)
LEMMA InitSides == Init => SidesInv
  <1> SUFFICES ASSUME Init
               PROVE  SidesInv
    OBVIOUS
  <1>1. Scalars
    BY DEF Init, Scalars, Steps, Statuses
  <1>2. Position
    <2>1. Len(file) \in Nat
      BY FileIs DEF Init
    <2> QED
      BY <2>1 DEF Init, Position, Loops
  <1>3. /\ io = [s \in Sides |-> io[s]] /\ current = [s \in Sides |-> current[s]]
        /\ \A s \in Sides : io[s] = NoSide /\ current[s] = 0
    BY DEF Init, NoSlots
  <1>4. NoSide.nstreams = 0 /\ 0 <= MaxStreams /\ 0 \in 0 .. MaxStreams
    BY ConfigurationAssumption DEF NoSide
  <1>5. \A s \in Sides : SlotInv(s)
    BY <1>3, <1>4, NoSideInv DEF SlotInv
  <1> QED
    BY <1>1, <1>2, <1>3, <1>5 DEF SidesInv

(* Every step keeps what the invariant says of the two sides. *)
LEMMA SidesStep ==
  ASSUME SidesInv, Next
  PROVE  SidesInv' /\ Remembers
  <1>1. TypeOK /\ Position /\ Scalars
    BY SidesTypeOK DEF SidesInv
  <1>2. BothSides /\ Position' /\ Scalars' /\ Remembers
    BY <1>1, EveryStepOnBothSides, PositionStep, ScalarsStep
  <1>3. stream # 0 \/ \A s \in Sides : Stays(s)
    <2>1. CASE Open
      <3>1. io' = io /\ current' = current /\ \A s \in Sides : current[s] = 0
        BY <1>1, <2>1 DEF Open, Return, Position, Loops, NoSlots
      <3> QED
        BY <3>1 DEF Stays
    <2>2. CASE ~Open
      <3>1. step = "STREAMS" \/ step \in Loops
        BY <2>2 DEF Next, StreamFails, Close, SkipStream, OpenAssistantStream, AssistantSignal,
             CmdFails, OpenA429Stream, A429Message, OpenA664Stream, OpenA825Stream,
             IcdEntry, EndOfIcd, At, Loops
      <3> QED
        BY <1>1, <3>1 DEF Position
    <2> QED
      BY <2>1, <2>2
  <1>4. \A s \in Sides : SlotInv(s)'
    <2> SUFFICES ASSUME NEW s \in Sides
                 PROVE  SlotInv(s)'
      OBVIOUS
    <2>1. SlotInv(s) /\ SideStep(s) /\ (stream # 0 \/ Stays(s))
      BY <1>2, <1>3 DEF SidesInv, BothSides
    <2>2. stream \in Nat /\ message \in Nat /\ (~failed' => ~failed) /\ (~warned' => ~warned)
      BY <1>1, <1>2 DEF Scalars, Remembers
    <2> QED
      BY <2>1, <2>2, SideStepKeeps
  <1> QED
    BY <1>2, <1>4 DEF SidesInv, BothSides

(* In every state. *)
LEMMA SidesAlways == Spec => []SidesInv
  <1>1. SidesInv /\ UNCHANGED vars => SidesInv'
    BY DEF vars, SidesInv, Scalars, Position, SlotInv, Info, Asks
  <1>2. SidesInv /\ [Next]_vars => SidesInv'
    BY <1>1, SidesStep
  <1> QED
    BY <1>2, InitSides, PTL DEF Spec

-----------------------------------------------------------------------------
(* Every variable of the reader stays in its domain: the arrays of streams and of
   signals are never written beyond their sizes, whatever the file asks for. *)
THEOREM TypeCorrect == Spec => []TypeOK
  BY SidesAlways, SidesTypeOK, PTL

(* A stream lists signals of the library stream that it was made for. *)
THEOREM ListedSignalsBelong == Spec => []SignalsOfTheirStream
  <1>1. SidesInv => SignalsOfTheirStream
    <2> SUFFICES ASSUME SidesInv, NEW s \in Sides, NEW k \in Slots,
                        NEW p \in 1 .. Len(Listed(s, k))
                 PROVE  /\ Listed(s, k)[p] \in 1 .. Len(io[s].signals)
                        /\ io[s].signals[Listed(s, k)[p]][1] = io[s].streams[k].of
      BY DEF SignalsOfTheirStream
    <2>1. Listed(s, k) = ListOf(io[s])[k] /\ io[s].streams[k].of = OwnerOf(io[s])[k]
      BY DEF Listed, ListOf, OwnerOf
    <2>2. /\ Within(ListOf(io[s]), Len(io[s].signals))
          /\ Owned(ListOf(io[s]), OwnerOf(io[s]), io[s].signals)
      BY DEF SidesInv, SlotInv, SideInv
    <2> QED
      BY <2>1, <2>2 DEF Within, Owned
  <1> QED
    BY <1>1, SidesAlways, PTL

(* The streams and their lists, walked in order, give every signal of the array once
   and in the order of the array. *)
THEOREM ListsAreTheSignals == Spec => []ListsEnumerateSignals
  <1>1. SidesInv => ListsEnumerateSignals
    <2> SUFFICES ASSUME SidesInv, NEW s \in Sides
                 PROVE  /\ \A n \in 1 .. Len(io[s].signals) :
                             \E k \in Slots : \E p \in 1 .. Len(Listed(s, k)) : Listed(s, k)[p] = n
                        /\ \A k, l \in Slots :
                             \A p \in 1 .. Len(Listed(s, k)), q \in 1 .. Len(Listed(s, l)) :
                               k < l \/ (k = l /\ p < q) => Listed(s, k)[p] < Listed(s, l)[q]
      BY DEF ListsEnumerateSignals
    <2>1. \A k \in Slots : Listed(s, k) = ListOf(io[s])[k]
      BY DEF Listed, ListOf
    <2>2. AllListed(ListOf(io[s]), Len(io[s].signals)) /\ Ordered(ListOf(io[s]))
      BY DEF SidesInv, SlotInv, SideInv
    <2>3. \A n \in 1 .. Len(io[s].signals) :
            \E k \in Slots : \E p \in 1 .. Len(Listed(s, k)) : Listed(s, k)[p] = n
      BY <2>1, <2>2 DEF AllListed
    <2>4. \A k, l \in Slots :
            \A p \in 1 .. Len(Listed(s, k)), q \in 1 .. Len(Listed(s, l)) :
              k < l \/ (k = l /\ p < q) => Listed(s, k)[p] < Listed(s, l)[q]
      BY <2>1, <2>2 DEF Ordered
    <2> QED
      BY <2>3, <2>4
  <1> QED
    BY <1>1, SidesAlways, PTL

(* A stream that is counted, and has a place, has its fields assigned, unless a call of
   the library failed. *)
THEOREM CountedAreFilled == Spec => []CountedStreamsAreFilled
  <1>1. SidesInv => CountedStreamsAreFilled
    BY DEF SidesInv, SlotInv, Filled, CountedStreamsAreFilled
  <1> QED
    BY <1>1, SidesAlways, PTL

(* The counter of a side exceeds its array only after a message was printed. *)
THEOREM OverflowIsSaid == Spec => []OverflowIsReported
  <1>1. SidesInv => OverflowIsReported
    BY DEF SidesInv, SlotInv, OverflowIsReported
  <1> QED
    BY <1>1, SidesAlways, PTL

-----------------------------------------------------------------------------
(***************************************************************************)
(* Room.  A stream is only added to a side that needs it, and once; so a   *)
(* side whose array is larger than the number of streams that it needs     *)
(* never is full.                                                          *)
(***************************************************************************)

(* A step that counts one more stream on side s comes to one that the side needs. *)
Adds(s) == stream \in Needed(s) /\ current[s] = 0 /\ (current'[s] # 0 \/ stream' > stream)

(* The reader goes on, and keeps the slots of the stream that it is at. *)
GoesOn(s) == stream' > stream \/ (stream' = stream /\ (current[s] # 0 => current'[s] # 0))

(* A side needs finitely many streams. *)
LEMMA NeededFinite ==
  ASSUME file \in Files, NEW s
  PROVE  /\ IsFiniteSet(Needed(s)) /\ Cardinality(Needed(s)) \in Nat
         /\ Needed(s) \subseteq Nat
  <1>1. Len(file) \in Nat
    BY FileIs
  <1>2. IsFiniteSet(1 .. Len(file))
    BY <1>1, FS_Interval
  <1>3. Needed(s) \subseteq 1 .. Len(file)
    BY DEF Needed
  <1>4. IsFiniteSet(Needed(s))
    BY <1>2, <1>3, FS_Subset
  <1> QED
    BY <1>1, <1>3, <1>4, FS_CardinalityType

(* What is asked for are finitely many messages. *)
LEMMA AskedFinite ==
  ASSUME file \in Files, NEW s
  PROVE  IsFiniteSet(Asked(s)) /\ Cardinality(Asked(s)) \in Nat
  <1> DEFINE sources == {{i} \X (1 .. Len(file[i].messages)) : i \in 1 .. Len(file)}
             source  == [i \in 1 .. Len(file) |-> {i} \X (1 .. Len(file[i].messages))]
  <1>1. Len(file) \in Nat /\ \A i \in 1 .. Len(file) : Len(file[i].messages) \in Nat
    BY FileIs
  <1>2. IsFiniteSet(sources)
    <2>1. IsFiniteSet(1 .. Len(file))
      BY <1>1, FS_Interval
    <2>2. source \in Surjection(1 .. Len(file), sources)
      BY DEF Surjection
    <2> HIDE DEF source, sources
    <2> QED
      BY <2>1, <2>2, FS_Surjection
  <1>3. \A T \in sources : IsFiniteSet(T)
    <2> SUFFICES ASSUME NEW i \in 1 .. Len(file)
                 PROVE  IsFiniteSet({i} \X (1 .. Len(file[i].messages)))
      OBVIOUS
    <2>1. IsFiniteSet({i})
      BY FS_Singleton
    <2>2. IsFiniteSet(1 .. Len(file[i].messages))
      <3> DEFINE m == Len(file[i].messages)
      <3>1. m \in Nat
        BY <1>1
      <3> HIDE DEF m
      <3>2. IsFiniteSet(1 .. m)
        BY <3>1, FS_Interval
      <3> QED
        BY <3>2 DEF m
    <2> QED
      BY <2>1, <2>2, FS_Product
  <1>4. Asked(s) \subseteq UNION sources
    BY DEF Asked
  <1> HIDE DEF sources
  <1> QED
    BY <1>2, <1>3, <1>4, FS_UNION, FS_Subset, FS_CardinalityType

(* A slot lists no more signals than there are. *)
LEMMA ListsAreShort ==
  ASSUME NEW L, NEW n \in Nat, NEW k \in Slots, L[k] \in Seq(Nat), Ordered(L), Within(L, n)
  PROVE  Len(L[k]) \in Nat /\ Len(L[k]) <= n
  <1> DEFINE m == Len(L[k])
             f == [p \in 1 .. m |-> L[k][p]]
  <1>1. m \in Nat
    BY LenProperties
  <1>2. \A p \in 1 .. m : L[k][p] \in 1 .. n
    BY DEF Within
  <1>3. \A p \in 1 .. m, q \in 1 .. m : p < q => L[k][p] < L[k][q]
    BY DEF Ordered
  <1> HIDE DEF m
  <1>4. f \in Injection(1 .. m, 1 .. n)
    <2>1. f \in [1 .. m -> 1 .. n]
      BY <1>2
    <2>2. ASSUME NEW p \in 1 .. m, NEW q \in 1 .. m, f[p] = f[q]
          PROVE  p = q
      <3>1. L[k][p] = L[k][q] /\ L[k][p] \in Nat
        BY <1>2, <2>2
      <3>2. ~(p < q) /\ ~(q < p)
        BY <1>3, <3>1
      <3> QED
        BY <1>1, <3>2
    <2> HIDE DEF f
    <2> QED
      BY <2>1, <2>2 DEF Injection, IsInjective
  <1>5. /\ IsFiniteSet(1 .. n) /\ Cardinality(1 .. n) = n
        /\ IsFiniteSet(1 .. m) /\ Cardinality(1 .. m) = m
    <2>1. 1 \in Int /\ n \in Int /\ m \in Int
      BY <1>1
    <2>2. /\ IsFiniteSet(1 .. n) /\ Cardinality(1 .. n) = IF 1 > n THEN 0 ELSE n - 1 + 1
          /\ IsFiniteSet(1 .. m) /\ Cardinality(1 .. m) = IF 1 > m THEN 0 ELSE m - 1 + 1
      BY <2>1, FS_Interval
    <2> QED
      BY <1>1, <2>2
  <1> HIDE DEF f
  <1>6. Cardinality(1 .. m) <= Cardinality(1 .. n)
    BY <1>4, <1>5, FS_Injection
  <1> QED
    BY <1>1, <1>5, <1>6 DEF m

(* Storing a signal counts no stream. *)
LEMMA StoreCountsNone ==
  ASSUME NEW o \in SideRecords, NEW k
  PROVE  Store(o, k).nstreams = o.nstreams /\ StoreIfRoom(o, k).nstreams = o.nstreams
  <1>1. Store(o, k).nstreams = o.nstreams
    BY DEF Store, SideRecords
  <1> QED
    BY <1>1 DEF StoreIfRoom

(* One step counts one stream at most. *)
LEMMA CountsOne ==
  ASSUME SidesInv, NEW s \in Sides, SideStep(s)
  PROVE  io'[s].nstreams \in {io[s].nstreams, io[s].nstreams + 1}
  <1>1. io[s] \in SideRecords /\ stream \in Nat
    BY DEF SidesInv, SlotInv, SideInv, Scalars
  <1>2. CASE Stays(s)
    BY <1>2 DEF Stays
  <1>3. CASE Counts(s)
    BY <1>1, <1>3, CountIs DEF Counts
  <1>4. ASSUME ~Full(s)
        PROVE  Fill(Count(io[s])) \in SideRecords /\ Fill(Count(io[s])).nstreams = io[s].nstreams + 1
    <2>1. io[s].nstreams < MaxStreams
      BY <1>1, <1>4, ConfigurationAssumption DEF Full, SideRecords
    <2> QED
      BY <1>1, <2>1, FillIs
  <1>5. CASE Fills(s)
    BY <1>4, <1>5 DEF Fills
  <1>6. CASE Stores(s)
    BY <1>1, <1>6, StoreCountsNone DEF Stores
  <1>7. CASE FillsAndStores(s)
    BY <1>4, <1>7, StoreCountsNone DEF FillsAndStores
  <1> QED
    BY <1>2, <1>3, <1>5, <1>6, <1>7 DEF SideStep

(* A stream of a file, but for those of A429, is needed on the sides that it leads to. *)
LEMMA NeededIs ==
  ASSUME file \in Files, stream \in 1 .. Len(file), NEW s \in Sides
  PROVE  /\ Info.kind \in {"ASSISTANT", "A664"} /\ SideOf(Info.direction) = s
              => stream \in Needed(s)
         /\ Info.kind = "A825" => stream \in Needed(s)
         /\ \A m \in 1 .. Len(Info.messages) :
              Info.kind = "A429" /\ SideOf(Info.messages[m]) = s => stream \in Needed(s)
  <1>1. Leads(Info.direction, s) <=> SideOf(Info.direction) = s
    BY LeadsIsSide
  <1>2. \A m : Leads(Info.messages[m], s) <=> SideOf(Info.messages[m]) = s
    BY LeadsIsSide
  <1> QED
    BY <1>1, <1>2 DEF Needed, Asks, Info

(* A step that counts a stream, by the kinds of streams. *)
LEMMA EveryStepAdds ==
  ASSUME SidesInv, Next, NEW s \in Sides, io'[s].nstreams # io[s].nstreams
  PROVE  Adds(s)
  <1>1. TypeOK /\ Position /\ io \in [Sides -> SideRecords]
    BY SidesTypeOK DEF SidesInv, TypeOK
  <1>2. ASSUME NEW kind, At(kind)
        PROVE  /\ stream \in 1 .. Len(file) /\ Info.kind = kind /\ current = NoSlots
               /\ current[s] = 0
    <2>1. step = "STREAMS" /\ stream <= Len(file) /\ Info.kind = kind
      BY <1>2 DEF At
    <2>2. stream >= 1 /\ current = NoSlots
      BY <1>1, <2>1 DEF Position, Loops
    <2> QED
      BY <1>1, <2>1, <2>2, FileIs DEF TypeOK, NoSlots
  <1>3. ~(io' = io)
    OBVIOUS
  <1>4. CASE OpenAssistantStream
    <2> DEFINE t == SideOf(Info.direction)
    <2>1. stream \in 1 .. Len(file) /\ Info.kind = "ASSISTANT" /\ current[s] = 0
      BY <1>2, <1>4 DEF OpenAssistantStream
    <2>2. t \in Sides /\ \A u \in Sides \ {t} : io'[u] = io[u]
      BY <1>1, <1>3, <1>4 DEF OpenAssistantStream
    <2>3. t = s
      BY <2>2
    <2>4. stream \in Needed(s)
      BY <1>1, <2>1, <2>3, NeededIs DEF TypeOK
    <2>5. \/ stream' = stream + 1
          \/ current' = [NoSlots EXCEPT ![t] = io[t].nstreams + 1]
      BY <1>4 DEF OpenAssistantStream, NextStream, EnterLoop
    <2>6. stream' = stream + 1 \/ current'[s] = io[s].nstreams + 1
      BY <2>3, <2>5 DEF NoSlots
    <2> QED
      BY <1>1, <2>1, <2>4, <2>6 DEF Adds, TypeOK, SideRecords
  <1>5. CASE AssistantSignal
    <2> DEFINE t == SideOf(Info.direction)
    <2>1. io' = [io EXCEPT ![t] = Store(@, current[t])]
      BY <1>3, <1>5 DEF AssistantSignal
    <2>2. io'[s].nstreams = io[s].nstreams
      BY <1>1, <2>1, StoreCountsNone
    <2> QED
      BY <2>2
  <1>6. CASE A429Message
    <2> DEFINE t == SideOf(Info.messages[message])
    <2>1. /\ stream \in 1 .. Len(file) /\ Info.kind = "A429"
          /\ message \in 1 .. Len(Info.messages)
      <3>1. step = "MESSAGES" /\ step \in Loops /\ message <= Len(Info.messages)
        BY <1>6 DEF A429Message, Loops
      <3>2. Info.kind = "A429" /\ stream \in 1 .. Len(file) /\ message >= 1
        BY <1>1, <3>1 DEF Position
      <3> QED
        BY <1>1, <3>1, <3>2, FileIs DEF TypeOK, Info
    <2>2. /\ t \in Sides
          /\ io' = [io EXCEPT ![t] = StoreIfRoom(IF current[t] = 0 THEN Fill(Count(io[t])) ELSE io[t],
                                                 A429Slot(t))]
          /\ current' = [current EXCEPT ![t] = A429Slot(t)]
      BY <1>3, <1>6 DEF A429Message
    <2>3. t = s
      BY <1>1, <2>2
    <2>4. stream \in Needed(s)
      BY <1>1, <2>1, <2>3, NeededIs DEF TypeOK
    <2>5. current[s] = 0
      <3> SUFFICES ASSUME current[s] # 0
                   PROVE  io'[s].nstreams = io[s].nstreams
        OBVIOUS
      <3>1. io'[s] = StoreIfRoom(io[s], A429Slot(s))
        BY <1>1, <2>2, <2>3
      <3> QED
        BY <1>1, <3>1, StoreCountsNone
    <2>6. current'[s] = io[s].nstreams + 1
      BY <1>1, <2>2, <2>3, <2>5 DEF A429Slot, TypeOK
    <2> QED
      BY <1>1, <2>4, <2>5, <2>6 DEF Adds, SideRecords
  <1>7. CASE OpenA664Stream
    <2> DEFINE t == SideOf(Info.direction)
    <2>1. stream \in 1 .. Len(file) /\ Info.kind = "A664" /\ current[s] = 0
      BY <1>2, <1>7 DEF OpenA664Stream
    <2>2. /\ t \in Sides /\ \A u \in Sides \ {t} : io'[u] = io[u]
          /\ current' = [NoSlots EXCEPT ![t] = io[t].nstreams + 1]
      BY <1>1, <1>3, <1>7 DEF OpenA664Stream, EnterLoop
    <2>3. t = s
      BY <2>2
    <2>4. stream \in Needed(s)
      BY <1>1, <2>1, <2>3, NeededIs DEF TypeOK
    <2>5. current'[s] = io[s].nstreams + 1
      BY <2>2, <2>3 DEF NoSlots
    <2> QED
      BY <1>1, <2>1, <2>4, <2>5 DEF Adds, SideRecords
  <1>8. CASE OpenA825Stream
    <2>1. stream \in 1 .. Len(file) /\ Info.kind = "A825" /\ current[s] = 0
      BY <1>2, <1>8 DEF OpenA825Stream
    <2>2. stream \in Needed(s)
      BY <1>1, <2>1, NeededIs DEF TypeOK
    <2>3. stream' = stream + 1 \/ current' = [t \in Sides |-> io[t].nstreams + 1]
      BY <1>8 DEF OpenA825Stream, NextStream, EnterLoop
    <2>4. stream' = stream + 1 \/ current'[s] = io[s].nstreams + 1
      BY <2>3
    <2> QED
      BY <1>1, <2>1, <2>2, <2>4 DEF Adds, TypeOK, SideRecords
  <1>9. CASE IcdEntry
    <2>1. io'[s] = io[s] \/ io'[s] = StoreIfRoom(io[s], current[s])
      BY <1>9 DEF IcdEntry
    <2>2. io'[s].nstreams = io[s].nstreams
      BY <1>1, <2>1, StoreCountsNone
    <2> QED
      BY <2>2
  <1>10. CASE Open \/ StreamFails \/ Close \/ SkipStream \/ CmdFails \/ OpenA429Stream \/ EndOfIcd
    BY <1>3, <1>10 DEF Open, StreamFails, Close, Return, SkipStream, CmdFails, OpenA429Stream, EndOfIcd
  <1> QED
    BY <1>4, <1>5, <1>6, <1>7, <1>8, <1>9, <1>10 DEF Next

(* The reader only leaves a stream for the next one. *)
LEMMA EveryStepGoesOn ==
  ASSUME SidesInv, Next, NEW s \in Sides
  PROVE  GoesOn(s)
  <1>1. TypeOK /\ Position /\ io \in [Sides -> SideRecords]
    BY SidesTypeOK DEF SidesInv, TypeOK
  <1>2. ASSUME NEW prints, NextStream(prints)
        PROVE  stream' > stream
    BY <1>1, <1>2 DEF NextStream, TypeOK
  <1>3. ASSUME step \notin Loops
        PROVE  current[s] = 0
    BY <1>1, <1>3 DEF Position, NoSlots
  <1>4. ASSUME NEW kind, At(kind)
        PROVE  current[s] = 0
    BY <1>3, <1>4 DEF At, Loops
  <1>5. CASE Open \/ StreamFails \/ Close
    <2>1. step \notin Loops /\ (stream' = stream \/ (stream = 0 /\ stream' = 1))
      BY <1>1, <1>5 DEF Open, StreamFails, Close, Return, Loops, Position
    <2> QED
      BY <1>3, <2>1 DEF GoesOn
  <1>6. CASE SkipStream \/ CmdFails \/ EndOfIcd
    BY <1>2, <1>6 DEF SkipStream, CmdFails, EndOfIcd, GoesOn
  <1>7. CASE OpenAssistantStream \/ OpenA429Stream \/ OpenA664Stream \/ OpenA825Stream
    <2>1. current[s] = 0
      BY <1>4, <1>7 DEF OpenAssistantStream, OpenA429Stream, OpenA664Stream, OpenA825Stream
    <2>2. (\E prints : NextStream(prints)) \/ stream' = stream
      BY <1>7 DEF OpenAssistantStream, OpenA429Stream, OpenA664Stream, OpenA825Stream, EnterLoop
    <2> QED
      BY <1>2, <2>1, <2>2 DEF GoesOn
  <1>8. CASE AssistantSignal
    <2>1. (\E prints : NextStream(prints)) \/ (stream' = stream /\ current' = current)
      BY <1>8 DEF AssistantSignal, NextMessage
    <2> QED
      BY <1>2, <2>1 DEF GoesOn
  <1>9. CASE A429Message
    <2> DEFINE t == SideOf(Info.messages[message])
    <2>1. \/ \E prints : NextStream(prints)
          \/ stream' = stream /\ current' = current
          \/ t \in Sides /\ stream' = stream /\ current' = [current EXCEPT ![t] = A429Slot(t)]
      BY <1>9 DEF A429Message, NextMessage
    <2>2. current[s] # 0 => A429Slot(s) = current[s]
      BY DEF A429Slot
    <2> QED
      BY <1>1, <1>2, <2>1, <2>2 DEF GoesOn, TypeOK
  <1>10. CASE IcdEntry
    BY <1>10 DEF IcdEntry, NextMessage, GoesOn
  <1> QED
    BY <1>5, <1>6, <1>7, <1>8, <1>9, <1>10 DEF Next

(* No more streams are counted than were needed. *)
LEMMA TakenStep ==
  ASSUME SidesInv, Taken, Next
  PROVE  Taken'
  <1> SUFFICES ASSUME NEW s \in Sides
               PROVE  io'[s].nstreams <= Cardinality(Begun(s)')
    BY DEF Taken
  <1>1. TypeOK /\ Position /\ io[s] \in SideRecords
    BY SidesTypeOK DEF SidesInv, TypeOK
  <1>2. file' = file /\ SideStep(s)
    BY <1>1, SidesStep, EveryStepOnBothSides DEF Remembers, BothSides
  <1>3. Needed(s)' = Needed(s)
    BY <1>2 DEF Needed, Asks
  <1>4. /\ IsFiniteSet(Needed(s)) /\ Needed(s) \subseteq Nat
        /\ stream \in Nat /\ stream' \in Nat
    <2>1. SidesInv'
      BY SidesStep
    <2> QED
      BY <1>1, <2>1, NeededFinite DEF TypeOK, SidesInv, Scalars
  <1>5. /\ IsFiniteSet(Begun(s)) /\ IsFiniteSet(Begun(s)')
        /\ Cardinality(Begun(s)) \in Nat /\ Cardinality(Begun(s)') \in Nat
    <2>1. Begun(s) \subseteq Needed(s) /\ Begun(s)' \subseteq Needed(s)
      BY <1>3 DEF Begun
    <2> QED
      BY <1>4, <2>1, FS_Subset, FS_CardinalityType
  <1>6. Begun(s) \subseteq Begun(s)'
    BY <1>3, <1>4, EveryStepGoesOn DEF GoesOn, Begun
  <1>7. Cardinality(Begun(s)) <= Cardinality(Begun(s)')
    BY <1>5, <1>6, FS_Subset
  <1>8. io[s].nstreams \in Nat /\ io[s].nstreams <= Cardinality(Begun(s))
    BY <1>1 DEF Taken, SideRecords
  <1>9. CASE io'[s].nstreams = io[s].nstreams
    BY <1>5, <1>7, <1>8, <1>9
  <1>10. CASE io'[s].nstreams # io[s].nstreams
    <2>1. io'[s].nstreams = io[s].nstreams + 1
      BY <1>2, <1>10, CountsOne
    <2>2. Adds(s)
      BY <1>10, EveryStepAdds
    <2>3. stream \notin Begun(s)
      BY <1>4, <2>2 DEF Adds, Begun
    <2>4. stream \in Begun(s)'
      BY <1>3, <1>4, <2>2, EveryStepGoesOn DEF Adds, GoesOn, Begun
    <2>5. Cardinality(Begun(s) \cup {stream}) = Cardinality(Begun(s)) + 1
      BY <1>5, <2>3, FS_AddElement
    <2>6. Begun(s) \cup {stream} \subseteq Begun(s)'
      BY <1>6, <2>4
    <2>7. Cardinality(Begun(s) \cup {stream}) <= Cardinality(Begun(s)')
      BY <1>5, <2>6, FS_Subset
    <2> QED
      BY <1>5, <1>8, <2>1, <2>5, <2>7
  <1> QED
    BY <1>9, <1>10

-----------------------------------------------------------------------------
(***************************************************************************)
(* What is stored, against what the file asks for.  As long as nothing was *)
(* reported, a step either passes no message that is asked for, or passes  *)
(* one and stores it on the sides that it is asked on.                     *)
(***************************************************************************)
NothingPassed(s) ==
  /\ io'[s].signals = io[s].signals
  /\ \A im \in Asked(s) : Before(im)' <=> Before(im)

OnePassed(s) ==
  /\ stream' = stream /\ message' = message + 1
  /\ stream \in 1 .. Len(file) /\ message \in 1 .. Len(file[stream].messages)
  /\ io'[s].signals = IF Asks(stream, message, s)
                      THEN Append(io[s].signals, <<stream, message>>)
                      ELSE io[s].signals

(* The messages that are asked for, told one by one. *)
LEMMA AskedIs ==
  \A s : \A im : im \in Asked(s) <=>
    \E i \in 1 .. Len(file) : \E m \in 1 .. Len(file[i].messages) :
      im = <<i, m>> /\ Asks(i, m, s)
  <1> SUFFICES ASSUME NEW s, NEW im
               PROVE  im \in Asked(s) <=>
                        \E i \in 1 .. Len(file) : \E m \in 1 .. Len(file[i].messages) :
                          im = <<i, m>> /\ Asks(i, m, s)
    OBVIOUS
  <1>1. im \in Asked(s) <=>
          /\ \E i \in 1 .. Len(file) : im \in {i} \X (1 .. Len(file[i].messages))
          /\ Asks(im[1], im[2], s)
    BY DEF Asked
  <1>2. \A i : im \in {i} \X (1 .. Len(file[i].messages)) <=>
                 \E m \in 1 .. Len(file[i].messages) : im = <<i, m>>
    OBVIOUS
  <1>3. \A i, m : im = <<i, m>> => im[1] = i /\ im[2] = m
    OBVIOUS
  <1> QED
    BY <1>1, <1>2, <1>3

ElementsOf(q) == {q[n] : n \in 1 .. Len(q)}

(* What a side has stored when a signal is appended. *)
LEMMA StoredGrows ==
  ASSUME NEW q \in Seq(Nat \X Nat), NEW e \in Nat \X Nat, NEW r, r = Append(q, e)
  PROVE  ElementsOf(r) = ElementsOf(q) \cup {e}
  <1> DEFINE k == Len(q)
  <1>1. /\ k \in Nat /\ Len(r) = k + 1 /\ r[k + 1] = e
        /\ \A i \in 1 .. k : r[i] = q[i]
    BY AppendIs
  <1> HIDE DEF k
  <1>2. \A n : n \in 1 .. Len(r) <=> n \in 1 .. k \/ n = k + 1
    BY <1>1
  <1>3. {r[n] : n \in 1 .. Len(r)} = {q[n] : n \in 1 .. k} \cup {e}
    BY <1>1, <1>2
  <1> QED
    BY <1>3 DEF k, ElementsOf

(* Either way, what is stored is again what was asked for so far. *)
LEMMA PassingKeepsStored ==
  ASSUME TypeOK, TypeOK', file' = file, NEW s \in Sides,
         Stored(s) = {im \in Asked(s) : Before(im)},
         NothingPassed(s) \/ OnePassed(s)
  PROVE  Stored(s)' = {im \in Asked(s)' : Before(im)'}
  <1>1. Asked(s)' = Asked(s)
    BY DEF Asked, Asks
  <1>2. CASE NothingPassed(s)
    <2>1. Stored(s)' = Stored(s)
      BY <1>2 DEF NothingPassed, Stored
    <2> QED
      BY <1>1, <1>2, <2>1 DEF NothingPassed
  <1>3. CASE OnePassed(s)
    <2> DEFINE e == <<stream, message>>
    <2>1. /\ e \in Nat \X Nat /\ io[s].signals \in Seq(Nat \X Nat)
          /\ stream' = stream /\ message' = message + 1
      BY <1>3 DEF TypeOK, SideRecords, OnePassed
    <2>2. e \in Asked(s) <=> Asks(stream, message, s)
      <3>1. Asks(stream, message, s) => e \in Asked(s)
        BY <1>3, AskedIs DEF OnePassed
      <3>2. \A i, m : e = <<i, m>> => i = stream /\ m = message
        OBVIOUS
      <3>3. e \in Asked(s) => Asks(stream, message, s)
        BY <3>2, AskedIs
      <3> QED
        BY <3>1, <3>3
    <2>3. \A im \in Asked(s) : Before(im)' <=> Before(im) \/ im = e
      <3> SUFFICES ASSUME NEW im \in Asked(s)
                   PROVE  Before(im)' <=> Before(im) \/ im = e
        OBVIOUS
      <3>0. PICK i \in 1 .. Len(file) : \E m \in 1 .. Len(file[i].messages) : im = <<i, m>>
        BY AskedIs
      <3>1. PICK m \in 1 .. Len(file[i].messages) : im = <<i, m>>
        BY <3>0
      <3>2. im[1] = i /\ im[2] = m /\ i \in Nat /\ m \in Nat /\ stream \in Nat /\ message \in Nat
        BY <3>1 DEF TypeOK
      <3>3. im = e <=> i = stream /\ m = message
        BY <3>1
      <3>4. Before(im) <=> i < stream \/ (i = stream /\ m < message)
        BY <3>2 DEF Before
      <3>5. Before(im)' <=> i < stream \/ (i = stream /\ m < message + 1)
        BY <2>1, <3>2 DEF Before
      <3> QED
        BY <3>2, <3>3, <3>4, <3>5
    <2>4. ~Before(e)
      BY DEF Before, TypeOK
    <2> HIDE DEF e
    <2>5. CASE Asks(stream, message, s)
      <3>1. Stored(s)' = Stored(s) \cup {e}
        <4>1. io'[s].signals = Append(io[s].signals, e)
          BY <1>3, <2>5 DEF OnePassed, e
        <4> DEFINE q == io[s].signals
                   r == io'[s].signals
        <4>2. Stored(s) = ElementsOf(q) /\ Stored(s)' = ElementsOf(r)
          BY DEF Stored, ElementsOf
        <4>3. q \in Seq(Nat \X Nat) /\ r = Append(q, e)
          BY <2>1, <4>1
        <4> HIDE DEF q, r
        <4>4. ElementsOf(r) = ElementsOf(q) \cup {e}
          BY <2>1, <4>3, StoredGrows
        <4> QED
          BY <4>2, <4>4
      <3> QED
        BY <1>1, <2>2, <2>3, <2>5, <3>1
    <2>6. CASE ~Asks(stream, message, s)
      <3>1. Stored(s)' = Stored(s)
        BY <1>3, <2>6 DEF OnePassed, Stored
      <3> QED
        BY <1>1, <2>2, <2>3, <2>6, <3>1
    <2> QED
      BY <2>5, <2>6
  <1> QED
    BY <1>2, <1>3

(* On to the next stream: nothing that was asked for is left behind. *)
LEMMA SkippingPassesNothing ==
  ASSUME TypeOK, Position, file' = file, stream' = stream + 1, message' = 0,
         NEW s \in Sides, io'[s].signals = io[s].signals,
         \A m \in 1 .. Len(Info.messages) : Asks(stream, m, s) => m < message
  PROVE  NothingPassed(s)
  <1> SUFFICES ASSUME NEW im \in Asked(s)
               PROVE  Before(im)' <=> Before(im)
    BY DEF NothingPassed
  <1>1. PICK i \in 1 .. Len(file) : \E m \in 1 .. Len(file[i].messages) :
                                      im = <<i, m>> /\ Asks(i, m, s)
    BY AskedIs
  <1>2. PICK m \in 1 .. Len(file[i].messages) : im = <<i, m>> /\ Asks(i, m, s)
    BY <1>1
  <1>3. im[1] = i /\ im[2] = m /\ i \in Nat /\ m \in Nat /\ stream \in Nat /\ message \in Nat
    BY <1>2 DEF TypeOK
  <1>4. Before(im) <=> i < stream \/ (i = stream /\ m < message)
    BY <1>3 DEF Before
  <1>5. Before(im)' <=> i < stream + 1 \/ (i = stream + 1 /\ m < 0)
    BY <1>3 DEF Before
  <1>6. i = stream => m < message
    BY <1>2 DEF Info
  <1> QED
    BY <1>3, <1>4, <1>5, <1>6

(* Entering the loop of a stream, or returning, passes nothing. *)
LEMMA EnteringPassesNothing ==
  ASSUME TypeOK, file' = file, message = 0,
         \/ stream' = stream /\ message' \in {0, 1}
         \/ stream = 0 /\ stream' = 1 /\ message' = 0,
         NEW s \in Sides, io'[s].signals = io[s].signals
  PROVE  NothingPassed(s)
  <1> SUFFICES ASSUME NEW im \in Asked(s)
               PROVE  Before(im)' <=> Before(im)
    BY DEF NothingPassed
  <1>1. PICK i \in 1 .. Len(file) : \E m \in 1 .. Len(file[i].messages) : im = <<i, m>>
    BY AskedIs
  <1>2. PICK m \in 1 .. Len(file[i].messages) : im = <<i, m>>
    BY <1>1
  <1>3. im[1] = i /\ im[2] = m /\ i \in Nat \ {0} /\ m \in Nat \ {0} /\ stream \in Nat
    BY <1>2 DEF TypeOK
  <1> QED
    BY <1>3 DEF Before

(* There is a place for the current stream, and for the current message. *)
HasRoom(s) == /\ Len(io[s].signals) < MaxSignals
              /\ \A k \in Slots : Len(io[s].streams[k].list) < MaxSignals

Enough == \A s \in Sides : /\ ~Full(s)
                           /\ <<stream, message>> \in Asked(s) => HasRoom(s)

(* The current message is among those that are asked for. *)
LEMMA CurrentIsAsked ==
  ASSUME stream \in 1 .. Len(file), message \in 1 .. Len(file[stream].messages), NEW s,
         Asks(stream, message, s)
  PROVE  <<stream, message>> \in Asked(s)
  BY AskedIs

(* What a step passes when nothing was reported after it, or when there was room. *)
Passes == \A s \in Sides : NothingPassed(s) \/ OnePassed(s)

(* Nothing is asked for while the reader is between two streams or before them. *)
LEMMA ReturnPasses ==
  ASSUME TypeOK, Position, Open \/ StreamFails \/ Close
  PROVE  Passes
  <1>1. /\ file' = file /\ message = 0 /\ message' = 0 /\ io' = io
        /\ stream' = stream \/ (stream = 0 /\ stream' = 1)
    BY DEF Open, StreamFails, Close, Return, Position, Loops
  <1> QED
    BY <1>1, EnteringPassesNothing DEF Passes

(* The end of a loop over the messages, or of a stream of no known type. *)
LEMMA SkipPasses ==
  ASSUME TypeOK, Position, SkipStream \/ EndOfIcd
  PROVE  Passes
  <1>1. /\ file' = file /\ stream' = stream + 1 /\ message' = 0 /\ io' = io
    BY DEF SkipStream, EndOfIcd, NextStream
  <1>2. \/ Info.kind = "OTHER"
        \/ stream \in 1 .. Len(file) /\ message > Len(Info.messages)
    BY DEF SkipStream, EndOfIcd, At, Position, Loops
  <1>3. ASSUME NEW s \in Sides, NEW m \in 1 .. Len(Info.messages), Asks(stream, m, s)
        PROVE  m < message
    <2>1. Info.kind # "OTHER"
      BY <1>3 DEF Asks, Info
    <2>2. message > Len(Info.messages) /\ Len(Info.messages) \in Nat
      BY <1>2, <2>1, FileIs DEF TypeOK, Info
    <2> QED
      BY <2>2 DEF TypeOK
  <1> QED
    BY <1>1, <1>3, SkippingPassesNothing DEF Passes

(* A stream that is added stores no signal. *)
LEMMA FillStores ==
  ASSUME SidesInv, NEW s \in Sides, ~Full(s)
  PROVE  Fill(Count(io[s])).signals = io[s].signals
  <1>1. io[s] \in SideRecords /\ stream \in Nat
    BY DEF SidesInv, SlotInv, SideInv, Scalars
  <1>2. io[s].nstreams < MaxStreams
    BY <1>1, ConfigurationAssumption DEF Full, SideRecords
  <1> QED
    BY <1>1, <1>2, FillIs

(* A loop is entered: streams were added, and no message passed. *)
LEMMA OpenPasses ==
  ASSUME SidesInv, OpenAssistantStream \/ OpenA429Stream \/ OpenA664Stream \/ OpenA825Stream,
         ~warned' \/ Enough, ~failed'
  PROVE  Passes
  <1>1. TypeOK /\ Position /\ io \in [Sides -> SideRecords]
    BY SidesTypeOK DEF SidesInv, TypeOK
  <1>2. step = "STREAMS" /\ message = 0
    BY <1>1 DEF OpenAssistantStream, OpenA429Stream, OpenA664Stream, OpenA825Stream, At,
         Position, Loops
  <1>3. ASSUME NEW loop, NEW slots, EnterLoop(loop, slots),
               \A s \in Sides : io'[s].signals = io[s].signals
        PROVE  Passes
    <2>1. file' = file /\ message' = 1 /\ stream' = stream
      BY <1>3 DEF EnterLoop
    <2> QED
      BY <1>1, <1>2, <1>3, <2>1, EnteringPassesNothing DEF Passes
  <1>4. ASSUME NEW s \in Sides, ~Full(s), io' = [io EXCEPT ![s] = Fill(Count(@))]
        PROVE  \A t \in Sides : io'[t].signals = io[t].signals
    <2>1. io'[s].signals = io[s].signals
      BY <1>1, <1>4, FillStores
    <2>2. \A t \in Sides \ {s} : io'[t] = io[t]
      BY <1>1, <1>4
    <2> QED
      BY <2>1, <2>2
  <1>5. CASE OpenAssistantStream
    <2> DEFINE s == SideOf(Info.direction)
    <2>1. CASE s \in Sides
      <3>1. /\ ~Full(s) /\ io' = [io EXCEPT ![s] = Fill(Count(@))]
            /\ \E slots : EnterLoop("SIGNALS", slots)
        BY <1>5, <2>1 DEF OpenAssistantStream, NextStream, CallFails, Enough
      <3> QED
        BY <1>3, <1>4, <2>1, <3>1
    <2>2. CASE s \notin Sides
      <3>1. file' = file /\ stream' = stream + 1 /\ message' = 0 /\ io' = io
        BY <1>5, <2>2 DEF OpenAssistantStream, NextStream
      <3>2. \A t \in Sides : \A m : ~Asks(stream, m, t)
        BY <1>5, <2>2, LeadsIsSide DEF Asks, OpenAssistantStream, At, Info
      <3> QED
        BY <1>1, <3>1, <3>2, SkippingPassesNothing DEF Passes
    <2> QED
      BY <2>1, <2>2
  <1>6. CASE OpenA429Stream
    BY <1>3, <1>6 DEF OpenA429Stream
  <1>7. CASE OpenA664Stream
    <2> DEFINE s == SideOf(Info.direction)
    <2>1. CASE s \in Sides
      <3>1. /\ ~Full(s) /\ io' = [io EXCEPT ![s] = Fill(Count(@))]
            /\ \E slots : EnterLoop("ENTRIES", slots)
        BY <1>7, <2>1 DEF OpenA664Stream, NextStream, Enough
      <3> QED
        BY <1>3, <1>4, <2>1, <3>1
    <2>2. CASE s \notin Sides
      <3>1. file' = file /\ stream' = stream + 1 /\ message' = 0 /\ io' = io
        BY <1>7, <2>2 DEF OpenA664Stream, NextStream
      <3>2. \A t \in Sides : \A m : ~Asks(stream, m, t)
        BY <1>7, <2>2, LeadsIsSide DEF Asks, OpenA664Stream, At, Info
      <3> QED
        BY <1>1, <3>1, <3>2, SkippingPassesNothing DEF Passes
    <2> QED
      BY <2>1, <2>2
  <1>8. CASE OpenA825Stream
    <2>1. /\ ~Full("inputs") /\ ~Full("outputs")
          /\ io' = [s \in Sides |-> Fill(Count(io[s]))]
          /\ \E slots : EnterLoop("ENTRIES", slots)
      BY <1>8 DEF OpenA825Stream, NextStream, Enough, Sides
    <2>2. \A s \in Sides : ~Full(s)
      BY <2>1 DEF Sides
    <2>3. \A s \in Sides : io'[s].signals = io[s].signals
      BY <2>1, <2>2, FillStores
    <2> QED
      BY <1>3, <2>1, <2>3
  <1> QED
    BY <1>5, <1>6, <1>7, <1>8

(* A signal that is stored is the current message. *)
LEMMA StoreAppends ==
  ASSUME SidesInv, NEW s \in Sides, NEW o \in {io[s], Fill(Count(io[s]))},
         o = io[s] \/ ~Full(s), NEW k \in Slots, Len(io[s].signals) < MaxSignals
  PROVE  Store(o, k).signals = Append(io[s].signals, <<stream, message>>)
  <1>1. io[s] \in SideRecords /\ stream \in Nat /\ message \in Nat
    BY DEF SidesInv, SlotInv, SideInv, Scalars
  <1>2. o \in SideRecords /\ o.signals = io[s].signals
    <2>1. CASE o = io[s]
      BY <1>1, <2>1
    <2>2. CASE o = Fill(Count(io[s])) /\ ~Full(s)
      <3>1. io[s].nstreams < MaxStreams
        BY <1>1, <2>2, ConfigurationAssumption DEF Full, SideRecords
      <3>2. Fill(Count(io[s])) \in SideRecords /\ Fill(Count(io[s])).signals = io[s].signals
        BY <1>1, <3>1, FillIs
      <3> QED
        BY <2>2, <3>2
    <2> QED
      BY <2>1, <2>2
  <1> QED
    BY <1>1, <1>2, StoreIs

(* The loop of localSignalsFromECIC leaves no signal behind without a word but one
   with too many dimensions. *)
LEMMA AssistantPasses ==
  ASSUME SidesInv, AssistantSignal, ~warned' \/ Enough, ~failed', DimensionsFit
  PROVE  Passes
  <1> DEFINE s == SideOf(Info.direction)
             more == Len(io[s].signals) < MaxSignals /\ message <= Len(Info.messages)
  <1>1. TypeOK /\ Position /\ io \in [Sides -> SideRecords]
    BY SidesTypeOK DEF SidesInv, TypeOK
  <1>2. /\ step = "SIGNALS" /\ s \in Sides /\ current[s] # 0 /\ current[s] \in Slots
        /\ Info.kind = "ASSISTANT" /\ stream \in 1 .. Len(file) /\ message >= 1
        /\ message \in Nat /\ Len(Info.messages) \in Nat /\ Len(io[s].signals) \in Nat
    <2>1. step = "SIGNALS" /\ step \in Loops
      BY DEF AssistantSignal, Loops
    <2>2. /\ s \in Sides /\ current[s] # 0 /\ Info.kind = "ASSISTANT"
          /\ stream \in 1 .. Len(file) /\ message >= 1
      BY <1>1, <2>1 DEF Position
    <2>3. current[s] \in 0 .. MaxStreams
      BY <1>1, <2>2 DEF TypeOK
    <2>4. Len(Info.messages) \in Nat
      BY <1>1, <2>2, FileIs DEF TypeOK, Info
    <2>5. Len(io[s].signals) \in Nat
      BY <1>1, <2>2, LenProperties DEF SideRecords
    <2> QED
      BY <1>1, <2>1, <2>2, <2>3, <2>4, <2>5 DEF TypeOK, Slots
  <1>3. \A t \in Sides : \A m : Asks(stream, m, t) <=> t = s
    BY <1>2, LeadsIsSide DEF Asks, Info
  <1>4. CASE more /\ io' = [io EXCEPT ![s] = Store(@, current[s])] /\ NextMessage(FALSE)
    <2>1. /\ stream' = stream /\ message' = message + 1
          /\ message \in 1 .. Len(file[stream].messages)
      BY <1>2, <1>4 DEF NextMessage, Info
    <2>2. io'[s].signals = Append(io[s].signals, <<stream, message>>)
      <3>1. io'[s] = Store(io[s], current[s])
        BY <1>1, <1>2, <1>4
      <3> QED
        BY <1>2, <1>4, <3>1, StoreAppends
    <2>3. \A t \in Sides \ {s} : io'[t] = io[t]
      BY <1>1, <1>4
    <2> QED
      BY <1>2, <1>3, <2>1, <2>2, <2>3 DEF Passes, OnePassed
  <1>5. CASE ~more /\ NextStream(Len(io[s].signals) = MaxSignals) /\ io' = io
    <2>1. /\ file' = file /\ stream' = stream + 1 /\ message' = 0
          /\ ~warned' => Len(io[s].signals) # MaxSignals
      BY <1>5 DEF NextStream
    <2>2. ASSUME message <= Len(Info.messages)
          PROVE  Len(io[s].signals) < MaxSignals
      <3>1. CASE ~warned'
        BY <1>1, <1>2, <2>1, <3>1, ConfigurationAssumption DEF TypeOK
      <3>2. CASE Enough
        <4>1. message \in 1 .. Len(file[stream].messages) /\ Asks(stream, message, s)
          BY <1>2, <1>3, <2>2 DEF Info
        <4>2. <<stream, message>> \in Asked(s)
          BY <1>2, <4>1, CurrentIsAsked
        <4> QED
          BY <1>2, <3>2, <4>2 DEF Enough, HasRoom
      <3> QED
        BY <3>1, <3>2
    <2>3. message > Len(Info.messages)
      BY <1>2, <1>5, <2>2
    <2>4. \A m \in 1 .. Len(Info.messages) : m < message
      BY <1>2, <2>3
    <2> QED
      BY <1>1, <1>5, <2>1, <2>4, SkippingPassesNothing DEF Passes
  <1>6. ~(more /\ Info.messages[message] = "TOO_MANY_DIMENSIONS")
    BY <1>2 DEF DimensionsFit, Info
  <1> QED
    BY <1>4, <1>5, <1>6 DEF AssistantSignal, CallFails

(* A slot that was just taken has room for a signal if the side has. *)
LEMMA FilledHasRoom ==
  ASSUME SidesInv, NEW s \in Sides, ~Full(s), HasRoom(s)
  PROVE  Room(Fill(Count(io[s])), io[s].nstreams + 1)
  <1>1. io[s] \in SideRecords /\ stream \in Nat
    BY DEF SidesInv, SlotInv, SideInv, Scalars
  <1>2. io[s].nstreams < MaxStreams
    BY <1>1, ConfigurationAssumption DEF Full, SideRecords
  <1>3. /\ Fill(Count(io[s])).signals = io[s].signals
        /\ Fill(Count(io[s])).streams[io[s].nstreams + 1] = [of |-> stream, list |-> <<>>]
    BY <1>1, <1>2, FillIs
  <1>4. Len(<<>>) = 0 /\ 0 < MaxSignals
    BY ConfigurationAssumption
  <1> QED
    BY <1>3, <1>4 DEF HasRoom, Room

(* A message of an A429 bus is stored on the side of its own direction. *)
LEMMA A429Passes ==
  ASSUME SidesInv, A429Message, ~warned' \/ Enough
  PROVE  Passes
  <1> DEFINE s == SideOf(Info.messages[message])
             k == A429Slot(s)
             o == IF current[s] = 0 THEN Fill(Count(io[s])) ELSE io[s]
  <1>1. TypeOK /\ Position /\ io \in [Sides -> SideRecords]
    BY SidesTypeOK DEF SidesInv, TypeOK
  <1>2. /\ Info.kind = "A429" /\ stream \in 1 .. Len(file)
        /\ message \in 1 .. Len(file[stream].messages)
    <2>1. step = "MESSAGES" /\ step \in Loops
      BY DEF A429Message, Loops
    <2>2. Info.kind = "A429" /\ stream \in 1 .. Len(file) /\ message >= 1
      BY <1>1, <2>1 DEF Position
    <2>3. Len(Info.messages) \in Nat /\ message \in Nat
      BY <1>1, <2>2, FileIs DEF TypeOK, Info
    <2> QED
      BY <2>2, <2>3 DEF A429Message, Info
  <1>3. \A t \in Sides : Asks(stream, message, t) <=> t = s
    BY <1>2, LeadsIsSide DEF Asks, Info
  <1>4. CASE s \notin Sides
    <2>1. io' = io /\ stream' = stream /\ message' = message + 1
      BY <1>4 DEF A429Message, NextMessage
    <2> QED
      BY <1>2, <1>3, <1>4, <2>1 DEF Passes, OnePassed
  <1>5. CASE s \in Sides
    <2>1. /\ ~Full(s) /\ stream' = stream /\ message' = message + 1
          /\ io' = [io EXCEPT ![s] = StoreIfRoom(o, k)]
          /\ ~warned' => Room(o, k)
      BY <1>5 DEF A429Message, NextMessage, NextStream, Enough
    <2>10. Room(o, k)
      <3>1. CASE Enough
        <4>1. <<stream, message>> \in Asked(s)
          BY <1>2, <1>3, <1>5, CurrentIsAsked
        <4>2. HasRoom(s)
          BY <1>5, <3>1, <4>1 DEF Enough
        <4>3. CASE current[s] = 0
          BY <1>5, <2>1, <4>2, <4>3, FilledHasRoom DEF A429Slot
        <4>4. CASE current[s] # 0
          <5>1. current[s] \in Slots
            BY <1>1, <1>5, <4>4 DEF TypeOK, Slots
          <5> QED
            BY <4>2, <4>4, <5>1 DEF A429Slot, HasRoom, Room
        <4> QED
          BY <4>3, <4>4
      <3> QED
        BY <2>1, <3>1
    <2>2. io'[s] = Store(o, k)
      BY <1>1, <1>5, <2>1, <2>10 DEF StoreIfRoom
    <2>3. Len(o.signals) < MaxSignals
      BY <2>10 DEF Room
    <2>4. o.signals = io[s].signals
      BY <1>5, <2>1, FillStores
    <2>5. k \in Slots
      <3>1. io[s].nstreams \in Nat /\ io[s].nstreams < MaxStreams
        BY <1>1, <1>5, <2>1, ConfigurationAssumption DEF Full, SideRecords
      <3>2. current[s] \in 0 .. MaxStreams
        BY <1>1, <1>5 DEF TypeOK
      <3> QED
        BY <3>1, <3>2, ConfigurationAssumption DEF A429Slot, Slots
    <2>6. io'[s].signals = Append(io[s].signals, <<stream, message>>)
      BY <1>5, <2>1, <2>2, <2>3, <2>4, <2>5, StoreAppends
    <2>7. \A t \in Sides \ {s} : io'[t] = io[t]
      BY <1>1, <2>1
    <2>8. stream' = stream /\ message' = message + 1
      BY <2>1
    <2> HIDE DEF s
    <2>9. ASSUME NEW t \in Sides
          PROVE  OnePassed(t)
      <3>1. CASE t = s
        BY <1>2, <1>3, <2>6, <2>8, <3>1 DEF OnePassed
      <3>2. CASE t # s
        BY <1>2, <1>3, <2>7, <2>8, <3>2 DEF OnePassed
      <3> QED
        BY <3>1, <3>2
    <2> QED
      BY <2>9 DEF Passes
  <1> QED
    BY <1>4, <1>5

(* An entry of an A664 or A825 bus is stored on every side of the stream. *)
LEMMA EntryPasses ==
  ASSUME SidesInv, IcdEntry, ~warned' \/ Enough
  PROVE  Passes
  <1>1. TypeOK /\ Position
    BY SidesTypeOK DEF SidesInv
  <1>2. step = "ENTRIES" /\ step \in Loops
    BY DEF IcdEntry, Loops
  <1>3. /\ Info.kind \in {"A664", "A825"} /\ stream \in 1 .. Len(file) /\ message >= 1
        /\ \A s \in Sides : current[s] # 0 <=> Asks(stream, 1, s)
    BY <1>1, <1>2 DEF Position
  <1>4. message \in 1 .. Len(file[stream].messages)
    <2>1. Len(Info.messages) \in Nat /\ message \in Nat
      BY <1>1, <1>3, FileIs DEF TypeOK, Info
    <2> QED
      BY <1>3, <2>1 DEF IcdEntry, Info
  <1>5. \A s \in Sides : current[s] # 0 <=> Asks(stream, message, s)
    BY <1>3 DEF Asks, Info
  <1>6. /\ stream' = stream /\ message' = message + 1
        /\ \A s \in Sides : current[s] # 0 => Room(io[s], current[s])
    <2>1. /\ stream' = stream /\ message' = message + 1
          /\ ~warned' => \A s \in Sides : current[s] # 0 => Room(io[s], current[s])
      BY DEF IcdEntry, NextMessage
    <2>2. ASSUME Enough, NEW s \in Sides, current[s] # 0
          PROVE  Room(io[s], current[s])
      <3>1. <<stream, message>> \in Asked(s)
        BY <1>3, <1>4, <1>5, <2>2, CurrentIsAsked
      <3>2. current[s] \in Slots
        BY <1>1, <2>2 DEF TypeOK, Slots
      <3> QED
        BY <2>2, <3>1, <3>2 DEF Enough, HasRoom, Room
    <2> QED
      BY <2>1, <2>2
  <1>7. ASSUME NEW s \in Sides
        PROVE  OnePassed(s)
    <2>1. CASE current[s] = 0
      <3>1. io'[s] = io[s]
        BY <2>1 DEF IcdEntry
      <3> QED
        BY <1>3, <1>4, <1>5, <1>6, <2>1, <3>1 DEF OnePassed
    <2>2. CASE current[s] # 0
      <3>1. io'[s] = Store(io[s], current[s]) /\ Len(io[s].signals) < MaxSignals
        BY <1>6, <2>2 DEF IcdEntry, StoreIfRoom, Room
      <3>2. current[s] \in Slots
        BY <1>1, <2>2 DEF TypeOK, Slots
      <3>3. io'[s].signals = Append(io[s].signals, <<stream, message>>)
        BY <3>1, <3>2, StoreAppends
      <3> QED
        BY <1>3, <1>4, <1>5, <1>6, <2>2, <3>3 DEF OnePassed
    <2> QED
      BY <2>1, <2>2
  <1> QED
    BY <1>7 DEF Passes

(* The reader never forgets in silence. *)
LEMMA StepPasses ==
  ASSUME SidesInv, Next, ~warned' \/ Enough, ~failed', DimensionsFit
  PROVE  Passes
  <1>1. TypeOK /\ Position
    BY SidesTypeOK DEF SidesInv
  <1>2. ~CmdFails
    BY DEF CmdFails, CallFails
  <1> QED
    BY <1>1, <1>2, ReturnPasses, SkipPasses, OpenPasses, AssistantPasses, A429Passes, EntryPasses
       DEF Next

(* A file that fits leaves room for the stream and for the message that are next. *)
LEMMA EnoughRoom ==
  ASSUME SidesInv, Taken, StoredSoFar, Roomy, ~failed, DimensionsFit
  PROVE  Enough
  <1>1. TypeOK /\ file \in Files /\ stream \in Nat /\ message \in Nat
    BY SidesTypeOK DEF SidesInv, Scalars
  <1>2. ASSUME NEW s \in Sides
        PROVE  ~Full(s)
    <2>1. /\ Cardinality(Needed(s)) \in Nat /\ IsFiniteSet(Needed(s))
          /\ Cardinality(Needed(s)) < MaxStreams
      BY <1>1, NeededFinite DEF Roomy
    <2>2. Begun(s) \subseteq Needed(s)
      BY DEF Begun
    <2>3. Cardinality(Begun(s)) \in Nat /\ Cardinality(Begun(s)) <= Cardinality(Needed(s))
      BY <2>1, <2>2, FS_Subset, FS_CardinalityType
    <2>4. io[s].nstreams \in Nat /\ io[s].nstreams <= Cardinality(Begun(s))
      BY <1>1 DEF Taken, TypeOK, SideRecords
    <2> QED
      BY <2>1, <2>3, <2>4, ConfigurationAssumption DEF Full
  <1>3. ASSUME NEW s \in Sides, <<stream, message>> \in Asked(s)
        PROVE  HasRoom(s)
    <2> DEFINE e == <<stream, message>>
               n == Len(io[s].signals)
    <2>1. SideInv(io[s])
      BY DEF SidesInv, SlotInv
    <2>2. n \in Nat
      BY <2>1 DEF SideInv, SideRecords
    <2>3. Stored(s) = {im \in Asked(s) : Before(im)} /\ Cardinality(Stored(s)) = n
      BY DEF StoredSoFar
    <2>4. ~Before(e)
      BY <1>1 DEF Before
    <2> HIDE DEF e
    <2>5. e \notin Stored(s) /\ Stored(s) \cup {e} \subseteq Asked(s)
      BY <1>3, <2>3, <2>4 DEF e
    <2>6. /\ IsFiniteSet(Asked(s)) /\ Cardinality(Asked(s)) \in Nat
          /\ Cardinality(Asked(s)) <= MaxSignals
      BY <1>1, AskedFinite DEF Roomy
    <2>7. IsFiniteSet(Stored(s))
      BY <2>5, <2>6, FS_Subset
    <2>8. Cardinality(Stored(s) \cup {e}) = Cardinality(Stored(s)) + 1
      BY <2>5, <2>7, FS_AddElement
    <2>9. Cardinality(Stored(s) \cup {e}) <= Cardinality(Asked(s))
      BY <2>5, <2>6, FS_Subset
    <2>10. n < MaxSignals
      <3> HIDE DEF n
      <3>1. Cardinality(Stored(s)) = n
        BY <2>3
      <3> QED
        BY <2>2, <2>6, <2>8, <2>9, <3>1, ConfigurationAssumption
    <2>11. ASSUME NEW k \in Slots
           PROVE  Len(io[s].streams[k].list) < MaxSignals
      <3> DEFINE L == ListOf(io[s])
      <3>1. L[k] = io[s].streams[k].list
        BY DEF ListOf
      <3>2. io[s].streams[k] \in StreamRecords
        BY <2>1 DEF SideInv, SideRecords, Slots
      <3>3. io[s].streams[k].list \in Seq(1 .. MaxSignals)
        BY <3>2 DEF StreamRecords
      <3>4. L[k] \in Seq(Nat)
        BY <3>1, <3>3, ConfigurationAssumption
      <3>5. Ordered(L) /\ Within(L, n)
        BY <2>1 DEF SideInv
      <3> HIDE DEF L, n
      <3>6. Len(L[k]) \in Nat /\ Len(L[k]) <= n
        BY <2>2, <3>5, <3>4, ListsAreShort
      <3> QED
        BY <2>2, <2>10, <3>1, <3>6, ConfigurationAssumption
    <2> QED
      BY <2>10, <2>11 DEF HasRoom
  <1> QED
    BY <1>2, <1>3 DEF Enough

(* No message is stored twice: there are as many signals as messages stored. *)
LEMMA PassingKeepsCount ==
  ASSUME TypeOK, NEW s \in Sides, NothingPassed(s) \/ OnePassed(s),
         Stored(s) = {im \in Asked(s) : Before(im)}, Cardinality(Stored(s)) = Len(io[s].signals)
  PROVE  Cardinality(Stored(s)') = Len(io'[s].signals)
  <1> DEFINE q == io[s].signals
             r == io'[s].signals
             e == <<stream, message>>
  <1>1. Stored(s) = ElementsOf(q) /\ Stored(s)' = ElementsOf(r)
    BY DEF Stored, ElementsOf
  <1>2. q \in Seq(Nat \X Nat) /\ e \in Nat \X Nat
    BY DEF TypeOK, SideRecords
  <1>3. r = q \/ r = Append(q, e)
    BY DEF NothingPassed, OnePassed
  <1>4. e \notin Stored(s)
    BY DEF TypeOK, Before
  <1>5. IsFiniteSet(Stored(s))
    <2>1. file \in Files
      BY DEF TypeOK
    <2>2. Stored(s) \subseteq Asked(s)
      OBVIOUS
    <2> QED
      BY <2>1, <2>2, AskedFinite, FS_Subset
  <1>6. Cardinality(Stored(s)) = Len(q)
    OBVIOUS
  <1>7. Stored(s)' = ElementsOf(r) /\ Len(io'[s].signals) = Len(r)
    BY <1>1
  <1> HIDE DEF q, r, e
  <1>8. CASE r = q
    BY <1>1, <1>6, <1>7, <1>8
  <1>9. CASE r = Append(q, e)
    <2>1. ElementsOf(r) = ElementsOf(q) \cup {e}
      BY <1>9, <1>2, StoredGrows
    <2>2. Len(r) = Len(q) + 1
      BY <1>9, <1>2, AppendIs
    <2>3. Cardinality(Stored(s) \cup {e}) = Cardinality(Stored(s)) + 1
      BY <1>4, <1>5, FS_AddElement
    <2> QED
      BY <1>1, <1>6, <1>7, <2>1, <2>2, <2>3
  <1> QED
    BY <1>3, <1>8, <1>9

(* Nothing is stored, nor passed, at first. *)
LEMMA InitReader == Init => ReaderInv
  <1> SUFFICES ASSUME Init
               PROVE  ReaderInv
    OBVIOUS
  <1>1. \A s \in Sides : io[s].signals = <<>> /\ io[s].nstreams = 0
    BY DEF Init, NoSide
  <1>2. \A s \in Sides : Stored(s) = {} /\ Cardinality(Stored(s)) = Len(io[s].signals)
    <2>1. ElementsOf(<<>>) = {} /\ Cardinality({}) = 0 /\ Len(<<>>) = 0
      BY FS_EmptySet DEF ElementsOf
    <2>2. \A s \in Sides : Stored(s) = ElementsOf(<<>>)
      BY <1>1 DEF Stored, ElementsOf
    <2> QED
      BY <1>1, <2>1, <2>2
  <1>3. \A s : \A im \in Asked(s) : ~Before(im)
    <2> SUFFICES ASSUME NEW s, NEW im \in Asked(s)
                 PROVE  ~Before(im)
      OBVIOUS
    <2>1. PICK i \in 1 .. Len(file) : \E m \in 1 .. Len(file[i].messages) : im = <<i, m>>
      BY AskedIs
    <2>2. im[1] = i /\ stream = 0 /\ i \in Nat \ {0}
      BY <2>1 DEF Init
    <2> QED
      BY <2>2 DEF Before
  <1>4. StoredSoFar
    <2>1. ASSUME NEW s \in Sides
          PROVE  Stored(s) = {im \in Asked(s) : Before(im)}
      BY <1>2, <1>3
    <2> QED
      BY <1>2, <2>1 DEF StoredSoFar
  <1>5. SuccessIsEnd
    BY DEF Init, SuccessIsEnd, Success
  <1>6. Taken
    <2> SUFFICES ASSUME NEW s \in Sides
                 PROVE  io[s].nstreams <= Cardinality(Begun(s))
      BY DEF Taken
    <2>1. IsFiniteSet(Needed(s))
      BY InitSides, NeededFinite DEF SidesInv, Scalars
    <2>2. Begun(s) \subseteq Needed(s)
      BY DEF Begun
    <2>3. Cardinality(Begun(s)) \in Nat
      BY <2>1, <2>2, FS_Subset, FS_CardinalityType
    <2> QED
      BY <1>1, <2>3
  <1> QED
    BY <1>4, <1>5, <1>6, InitSides DEF ReaderInv

(* Every step keeps the invariant. *)
LEMMA ReaderStep ==
  ASSUME ReaderInv, Next
  PROVE  ReaderInv'
  <1>1. SidesInv /\ SidesInv' /\ Remembers
    BY SidesStep DEF ReaderInv
  <1>2. TypeOK /\ TypeOK'
    BY <1>1, SidesTypeOK, PTL
  <1>3. StoredSoFar'
    <2> SUFFICES ASSUME ~warned' \/ Roomy', ~failed', DimensionsFit', NEW s \in Sides
                 PROVE  /\ Stored(s)' = {im \in Asked(s)' : Before(im)'}
                        /\ Cardinality(Stored(s)') = Len(io'[s].signals)
      BY DEF StoredSoFar
    <2>1. file' = file /\ (~warned' => ~warned) /\ ~failed /\ DimensionsFit
      BY <1>1 DEF Remembers, DimensionsFit
    <2>2. Roomy' => Roomy
      BY <2>1 DEF Roomy, Needed, Asked, Asks
    <2>3. /\ Stored(s) = {im \in Asked(s) : Before(im)}
          /\ Cardinality(Stored(s)) = Len(io[s].signals)
      BY <2>1, <2>2 DEF ReaderInv, StoredSoFar
    <2>4. ~warned' \/ Enough
      BY <2>1, <2>2, EnoughRoom DEF ReaderInv
    <2>5. NothingPassed(s) \/ OnePassed(s)
      BY <1>1, <2>1, <2>4, StepPasses DEF Passes
    <2>6. Stored(s)' = {im \in Asked(s)' : Before(im)'}
      BY <1>2, <2>1, <2>3, <2>5, PassingKeepsStored
    <2>7. Cardinality(Stored(s)') = Len(io'[s].signals)
      BY <1>2, <2>3, <2>5, PassingKeepsCount
    <2> QED
      BY <2>6, <2>7
  <1>4. SuccessIsEnd'
    <2>1. CASE Open \/ StreamFails \/ Close
      BY <2>1 DEF Open, StreamFails, Close, Return, CallFails, SuccessIsEnd, Success
    <2>2. CASE ~(Open \/ StreamFails \/ Close)
      <3>1. Position'
        BY <1>1 DEF SidesInv
      <3>2. step' # "END"
        BY <2>2 DEF Next, SkipStream, OpenAssistantStream, AssistantSignal, CmdFails,
             OpenA429Stream, A429Message, OpenA664Stream, OpenA825Stream, IcdEntry, EndOfIcd,
             NextStream, EnterLoop, NextMessage
      <3> QED
        BY <3>2 DEF SuccessIsEnd, Success
    <2> QED
      BY <2>1, <2>2
  <1>5. Taken'
    BY TakenStep DEF ReaderInv
  <1> QED
    BY <1>1, <1>3, <1>4, <1>5 DEF ReaderInv

(* The invariant of the whole reader. *)
LEMMA ReaderAlways == Spec => []ReaderInv
  <1>1. ReaderInv /\ UNCHANGED vars => ReaderInv'
    <2> SUFFICES ASSUME ReaderInv, UNCHANGED vars
                 PROVE  ReaderInv'
      OBVIOUS
    <2>1. SidesInv'
      BY DEF ReaderInv, vars, SidesInv, Scalars, Position, SlotInv, Info, Asks
    <2>2. Taken'
      BY DEF ReaderInv, vars, Taken, Begun, Needed, Asks
    <2>3. StoredSoFar'
      <3>1. /\ warned' = warned /\ failed' = failed /\ file' = file /\ io' = io
            /\ stream' = stream /\ message' = message
        BY DEF vars
      <3>2. (Roomy' <=> Roomy) /\ (DimensionsFit' <=> DimensionsFit)
        BY <3>1 DEF Roomy, Needed, Asked, Asks, DimensionsFit
      <3>3. ASSUME NEW s \in Sides
            PROVE  /\ Stored(s)' = Stored(s) /\ Asked(s)' = Asked(s)
                   /\ \A im : Before(im)' <=> Before(im)
        BY <3>1 DEF Stored, Asked, Asks, Before
      <3> SUFFICES ASSUME ~warned' \/ Roomy', ~failed', DimensionsFit', NEW s \in Sides
                   PROVE  /\ Stored(s)' = {im \in Asked(s)' : Before(im)'}
                          /\ Cardinality(Stored(s)') = Len(io'[s].signals)
        BY DEF StoredSoFar
      <3>4. /\ Stored(s) = {im \in Asked(s) : Before(im)}
            /\ Cardinality(Stored(s)) = Len(io[s].signals)
        BY <3>1, <3>2 DEF ReaderInv, StoredSoFar
      <3> QED
        BY <3>1, <3>3, <3>4
    <2>4. SuccessIsEnd'
      BY DEF ReaderInv, vars, SuccessIsEnd, Success
    <2> QED
      BY <2>1, <2>2, <2>3, <2>4 DEF ReaderInv
  <1>2. ReaderInv /\ [Next]_vars => ReaderInv'
    BY <1>1, ReaderStep
  <1> QED
    BY <1>2, InitReader, PTL DEF Spec

(* At the end of a reading that succeeded, every message is behind the reader. *)
LEMMA SuccessStoresAll ==
  ASSUME ReaderInv, Success, ~failed, DimensionsFit, ~warned \/ Roomy, NEW s \in Sides
  PROVE  Stored(s) = Asked(s)
  <1>1. Stored(s) = {im \in Asked(s) : Before(im)}
    BY DEF ReaderInv, StoredSoFar
  <1>2. stream > Len(file) /\ stream \in Nat /\ Len(file) \in Nat
    BY FileIs DEF ReaderInv, SuccessIsEnd, SidesInv, Scalars
  <1>3. \A im \in Asked(s) : Before(im)
    <2> SUFFICES ASSUME NEW im \in Asked(s)
                 PROVE  Before(im)
      OBVIOUS
    <2>1. PICK i \in 1 .. Len(file) : \E m \in 1 .. Len(file[i].messages) : im = <<i, m>>
      BY AskedIs
    <2>2. im[1] = i /\ i < stream
      BY <1>2, <2>1
    <2> QED
      BY <2>2 DEF Before
  <1> QED
    BY <1>1, <1>3

(* Nothing is lost in silence: when reading succeeds, no call failed and nothing was
   printed, every side has the signals that the file asks for, and no others; for
   every file and every size of the arrays. *)
THEOREM NothingLostInSilence == Spec => []LossIsReported
  <1>1. ReaderInv => LossIsReported
    BY SuccessStoresAll DEF LossIsReported
  <1> QED
    BY <1>1, ReaderAlways, PTL

(* How much room is enough: when no side needs more signals than its array holds, and
   every side needs fewer streams than its array holds, a reading that succeeds without
   a failed call has stored all that the file asks for, whatever it printed. *)
THEOREM RoomSuffices == Spec => []RoomIsEnough
  <1>1. ReaderInv => RoomIsEnough
    BY SuccessStoresAll DEF RoomIsEnough, Roomy
  <1> QED
    BY <1>1, ReaderAlways, PTL
=============================================================================
