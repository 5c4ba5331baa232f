------------------------- MODULE TransmissionProofs -------------------------
(***************************************************************************)
(* Proofs about Transmission, for every number of streams, signals and     *)
(* channels, any kinds of streams, any number of sends and any early       *)
(* return of the receive loop: the data of a signal never goes back in     *)
(* time, and while every send is whole every signal has data of its own.   *)
(* Where no call left a stream with data waiting, the signals of a channel *)
(* have data of the same send, and the simulations do what Delivery says.  *)
(***************************************************************************)
EXTENDS Transmission, SequenceTheorems, TLAPS

Queues == Seq(Samples)
Frames == [Streams -> Queues]

(***************************************************************************)
(* The order of samples by the send they come from, in a queue, between    *)
(* two queues, and between a queue and one send.                           *)
(***************************************************************************)
Ordered(q)      == \A k, l \in 1 .. Len(q) : k <= l => q[k].at <= q[l].at
Before(p, q)    == \A k \in 1 .. Len(p), l \in 1 .. Len(q) : p[k].at <= q[l].at
NotBefore(n, q) == \A k \in 1 .. Len(q) : n <= q[k].at
NotAfter(q, n)  == \A k \in 1 .. Len(q) : q[k].at <= n

(* After n sends the samples of stream i are in order on their way to the receiver:
   those in the inbox in, then the frames of lane one after the other, then the
   outbox out. *)
InOrder(i, in, lane, out, n) ==
  /\ Ordered(in) /\ Ordered(out) /\ Before(in, out)
  /\ NotAfter(in, n) /\ NotAfter(out, n)
  /\ \A f \in 1 .. Len(lane) :
       /\ Ordered(lane[f][i]) /\ NotAfter(lane[f][i], n)
       /\ Before(in, lane[f][i]) /\ Before(lane[f][i], out)
       /\ \A g \in 1 .. Len(lane) : f < g => Before(lane[f][i], lane[g][i])

(* Data of send v is not younger than what is still on its way on stream i. *)
OlderThan(v, i, in, lane, out, n) ==
  /\ v <= n /\ NotBefore(v, in) /\ NotBefore(v, out)
  /\ \A f \in 1 .. Len(lane) : NotBefore(v, lane[f][i])

StreamInOrder(i) == InOrder(i, inbox[i], network[ChannelOf[i]], outbox[i], sends)

ValueInOrder(s) ==
  OlderThan(value[s].at, s[1], inbox[s[1]], network[ChannelOf[s[1]]], outbox[s[1]], sends)

(***************************************************************************)
(* The samples of a send that pushes every signal are a batch on each      *)
(* stream; signal s has the Slot(s)-th sample of the batch.                *)
(***************************************************************************)
Batch(i) == IF KindOf[i] = "ASSISTANT" THEN 1 ELSE Size[i]
Slot(s)  == IF KindOf[s[1]] = "ASSISTANT" THEN 1 ELSE s[2]

(* A queue of stream i that consists of whole batches. *)
WholeQueue(i, q) ==
  \E m \in Nat :
    /\ Len(q) = m * Batch(i)
    /\ \A b \in Nat, s \in Signals :
         b < m /\ s[1] = i => s \in q[b * Batch(i) + Slot(s)].for

(* The frame of channel c of the n-th send, if it is whole and nothing waited. *)
WholeFrame(c, n) == Frame(c, [i \in Streams |-> Pushes(i, AllSignals, n)])

AllWhole(c, frames) ==
  /\ frames \in Seq(Frames)
  /\ \A f \in 1 .. Len(frames) : \E n \in 1 .. MaxSends : frames[f] = WholeFrame(c, n)

(* While all sends are whole nothing waits at the sender, every frame is that of one
   send, the receiver has whole batches, and none on the streams that no call left
   with data waiting; every signal has data of its own. *)
OnlyWholeBatches ==
  whole =>
    /\ outbox = NoSamples
    /\ \A c \in Channels : AllWhole(c, network[c])
    /\ \A i \in Streams : WholeQueue(i, inbox[i])
    /\ \A i \in Streams \ skipped : inbox[i] = <<>>
    /\ ReceivedMatchesSent

TransmissionInv ==
  /\ TypeOK
  /\ \A i \in Streams : StreamInOrder(i)
  /\ \A s \in Signals : ValueInOrder(s)
  /\ OnlyWholeBatches
  /\ WholeSendsAreCoherent

-----------------------------------------------------------------------------
(***************************************************************************)
(* Lemmas about queues.                                                    *)
(***************************************************************************)

(* A queue is a sequence with a length and samples. *)
LEMMA QueueIs ==
  ASSUME NEW q \in Queues
  PROVE  /\ Len(q) \in Nat
         /\ \A k \in 1 .. Len(q) : q[k] \in Samples /\ q[k].at \in 1 .. MaxSends
<1>1. Len(q) \in Nat /\ \A k \in 1 .. Len(q) : q[k] \in Samples
  BY LenProperties, ElementOfSeq DEF Queues
<1>2. \A d \in Samples : d.at \in 1 .. MaxSends
  BY DEF Samples
<1> QED
  BY <1>1, <1>2

(* Samples that arrive behind others: the elements of p \o q are those of p and q. *)
LEMMA ConcatIs ==
  ASSUME NEW p \in Queues, NEW q \in Queues
  PROVE  /\ p \o q \in Queues
         /\ Len(p) \in Nat /\ Len(q) \in Nat
         /\ Len(p \o q) = Len(p) + Len(q)
         /\ \A k \in 1 .. Len(p) : (p \o q)[k] = p[k]
         /\ \A k \in Len(p) + 1 .. Len(p) + Len(q) : (p \o q)[k] = q[k - Len(p)]
         /\ \A k \in 1 .. Len(p \o q) :
              \/ k \in 1 .. Len(p) /\ (p \o q)[k] = p[k]
              \/ k - Len(p) \in 1 .. Len(q) /\ (p \o q)[k] = q[k - Len(p)]
<1>1. /\ p \o q \in Queues
      /\ Len(p \o q) = Len(p) + Len(q)
      /\ \A k \in 1 .. Len(p) + Len(q) :
           (p \o q)[k] = IF k <= Len(p) THEN p[k] ELSE q[k - Len(p)]
  BY ConcatProperties DEF Queues
<1>2. Len(p) \in Nat /\ Len(q) \in Nat
  BY QueueIs
<1> QED
  BY <1>1, <1>2

(* The order of a concatenation, and what it has in common with its parts. *)
LEMMA ConcatOrder ==
  ASSUME NEW p \in Queues, NEW q \in Queues
  PROVE  /\ Ordered(p) /\ Ordered(q) /\ Before(p, q) => Ordered(p \o q)
         /\ \A r \in Queues : Before(p, r) /\ Before(q, r) => Before(p \o q, r)
         /\ \A r \in Queues : Before(r, p) /\ Before(r, q) => Before(r, p \o q)
         /\ \A n \in Nat : NotAfter(p, n) /\ NotAfter(q, n) => NotAfter(p \o q, n)
         /\ \A n \in Nat : NotBefore(n, p) /\ NotBefore(n, q) => NotBefore(n, p \o q)
<1> DEFINE c == p \o q
<1>1. /\ c \in Queues /\ Len(p) \in Nat /\ Len(q) \in Nat
      /\ \A k \in 1 .. Len(c) :
           \/ k \in 1 .. Len(p) /\ c[k] = p[k]
           \/ k - Len(p) \in 1 .. Len(q) /\ c[k] = q[k - Len(p)]
  BY ConcatIs
<1>2. Len(c) \in Nat
  BY <1>1, QueueIs
<1> HIDE DEF c
<1>3. ASSUME Ordered(p), Ordered(q), Before(p, q)
      PROVE  Ordered(c)
  <2> SUFFICES ASSUME NEW k \in 1 .. Len(c), NEW l \in 1 .. Len(c), k <= l
               PROVE  c[k].at <= c[l].at
    BY DEF Ordered
  <2>1. CASE k \in 1 .. Len(p) /\ c[k] = p[k] /\ l \in 1 .. Len(p) /\ c[l] = p[l]
    BY <1>3, <2>1 DEF Ordered
  <2>2. CASE /\ k \in 1 .. Len(p) /\ c[k] = p[k]
             /\ l - Len(p) \in 1 .. Len(q) /\ c[l] = q[l - Len(p)]
    BY <1>3, <2>2 DEF Before
  <2>3. CASE /\ k - Len(p) \in 1 .. Len(q) /\ c[k] = q[k - Len(p)]
             /\ l - Len(p) \in 1 .. Len(q) /\ c[l] = q[l - Len(p)]
    <3>1. k - Len(p) <= l - Len(p)
      BY <1>1, <1>2
    <3> QED
      BY <1>3, <2>3, <3>1 DEF Ordered
  <2>4. CASE k - Len(p) \in 1 .. Len(q) /\ l \in 1 .. Len(p)
    BY <1>1, <1>2, <2>4
  <2> QED
    BY <1>1, <2>1, <2>2, <2>3, <2>4
<1>4. \A r \in Queues : Before(p, r) /\ Before(q, r) => Before(c, r)
  BY <1>1 DEF Before
<1>5. \A r \in Queues : Before(r, p) /\ Before(r, q) => Before(r, c)
  BY <1>1 DEF Before
<1>6. \A n \in Nat : NotAfter(p, n) /\ NotAfter(q, n) => NotAfter(c, n)
  BY <1>1 DEF NotAfter
<1>7. \A n \in Nat : NotBefore(n, p) /\ NotBefore(n, q) => NotBefore(n, c)
  BY <1>1 DEF NotBefore
<1> QED
  BY <1>3, <1>4, <1>5, <1>6, <1>7 DEF c

(* What is left of a queue when d samples were popped, and the order of the rest. *)
LEMMA RestIs ==
  ASSUME NEW q \in Queues, NEW d \in 0 .. Len(q)
  PROVE  LET r == SubSeq(q, d + 1, Len(q))
         IN  /\ r \in Queues /\ Len(r) = Len(q) - d
             /\ \A k \in 1 .. Len(r) : r[k] = q[k + d] /\ k + d \in 1 .. Len(q)
             /\ Ordered(q) => Ordered(r)
             /\ \A p \in Queues : Before(q, p) => Before(r, p)
             /\ \A n \in Nat : NotAfter(q, n) => NotAfter(r, n)
             /\ \A n \in Nat : NotBefore(n, q) => NotBefore(n, r)
             /\ Ordered(q) => \A k \in 1 .. d : NotBefore(q[k].at, r)
<1> DEFINE r == SubSeq(q, d + 1, Len(q))
<1>1. Len(q) \in Nat /\ \A k \in 1 .. Len(q) : q[k] \in Samples /\ q[k].at \in 1 .. MaxSends
  BY QueueIs
<1>2. /\ r \in Seq(Samples)
      /\ Len(r) = IF d + 1 <= Len(q) THEN Len(q) - (d + 1) + 1 ELSE 0
      /\ \A k \in 1 .. Len(q) - (d + 1) + 1 : r[k] = q[d + 1 + k - 1]
  BY <1>1, SubSeqProperties
<1> HIDE DEF r
<1>3. r \in Queues /\ Len(r) = Len(q) - d
  BY <1>1, <1>2 DEF Queues
<1>4. \A k \in 1 .. Len(r) : r[k] = q[k + d] /\ k + d \in 1 .. Len(q)
  BY <1>1, <1>2, <1>3
<1>5. ASSUME Ordered(q)
      PROVE  Ordered(r)
  <2> SUFFICES ASSUME NEW k \in 1 .. Len(r), NEW l \in 1 .. Len(r), k <= l
               PROVE  r[k].at <= r[l].at
    BY DEF Ordered
  <2>1. k + d \in 1 .. Len(q) /\ l + d \in 1 .. Len(q) /\ k + d <= l + d
    BY <1>1, <1>3, <1>4
  <2>2. q[k + d].at <= q[l + d].at
    BY <1>5, <2>1 DEF Ordered
  <2> QED
    BY <1>4, <2>2
<1>6. \A p \in Queues : Before(q, p) => Before(r, p)
  BY <1>4 DEF Before
<1>7. \A n \in Nat : NotAfter(q, n) => NotAfter(r, n)
  BY <1>4 DEF NotAfter
<1>8. \A n \in Nat : NotBefore(n, q) => NotBefore(n, r)
  BY <1>4 DEF NotBefore
<1>9. ASSUME Ordered(q), NEW k \in 1 .. d
      PROVE  NotBefore(q[k].at, r)
  <2> SUFFICES ASSUME NEW l \in 1 .. Len(r)
               PROVE  q[k].at <= r[l].at
    BY DEF NotBefore
  <2>1. k \in 1 .. Len(q) /\ l + d \in 1 .. Len(q) /\ k <= l + d
    BY <1>1, <1>3, <1>4
  <2> QED
    BY <1>4, <1>9, <2>1 DEF Ordered
<1> QED
  BY <1>3, <1>4, <1>5, <1>6, <1>7, <1>8, <1>9 DEF r

(* A queue without samples. *)
LEMMA NothingWaits ==
  /\ <<>> \in Queues /\ Len(<<>>) = 0
  /\ Ordered(<<>>)
  /\ \A q : Before(q, <<>>) /\ Before(<<>>, q)
  /\ \A n : NotAfter(<<>>, n) /\ NotBefore(n, <<>>)
<1>1. <<>> \in Queues /\ Len(<<>>) = 0
  BY EmptySeq DEF Queues
<1> QED
  BY <1>1 DEF Ordered, Before, NotAfter, NotBefore

(* The frames of a lane, and what they hold for stream i. *)
LEMMA LaneIs ==
  ASSUME NEW lane \in Seq(Frames)
  PROVE  /\ Len(lane) \in Nat
         /\ \A f \in 1 .. Len(lane) : lane[f] \in Frames
         /\ \A f \in 1 .. Len(lane), i \in Streams : lane[f][i] \in Queues
<1>1. Len(lane) \in Nat /\ \A f \in 1 .. Len(lane) : lane[f] \in Frames
  BY LenProperties, ElementOfSeq
<1> QED
  BY <1>1 DEF Frames

(* A frame put behind the others of a lane. *)
LEMMA AppendIs ==
  ASSUME NEW lane \in Seq(Frames), NEW d \in Frames
  PROVE  /\ Append(lane, d) \in Seq(Frames) /\ Len(Append(lane, d)) = Len(lane) + 1
         /\ Len(lane) \in Nat
         /\ \A f \in 1 .. Len(lane) : Append(lane, d)[f] = lane[f]
         /\ Append(lane, d)[Len(lane) + 1] = d
         /\ \A f \in 1 .. Len(Append(lane, d)) : f \in 1 .. Len(lane) \/ f = Len(lane) + 1
<1>1. /\ Append(lane, d) \in Seq(Frames) /\ Len(Append(lane, d)) = Len(lane) + 1
      /\ Len(lane) \in Nat
      /\ \A f \in 1 .. Len(lane) : Append(lane, d)[f] = lane[f]
      /\ Append(lane, d)[Len(lane) + 1] = d
  BY AppendProperties, LenProperties
<1> QED
  BY <1>1

(* The first frame taken from a lane. *)
LEMMA TailIs ==
  ASSUME NEW lane \in Seq(Frames), lane # <<>>
  PROVE  /\ Tail(lane) \in Seq(Frames) /\ Len(lane) \in Nat /\ Len(Tail(lane)) \in Nat
         /\ 1 \in 1 .. Len(lane) /\ Head(lane) = lane[1] /\ lane[1] \in Frames
         /\ \A f \in 1 .. Len(Tail(lane)) :
              f + 1 \in 2 .. Len(lane) /\ f + 1 \in 1 .. Len(lane) /\ Tail(lane)[f] = lane[f + 1]
<1>1. Len(lane) \in Nat \ {0} /\ Head(lane) = lane[1]
  BY EmptySeq
<1>2. /\ Head(lane) \in Frames /\ Tail(lane) \in Seq(Frames) /\ Len(Tail(lane)) = Len(lane) - 1
      /\ \A f \in 1 .. Len(Tail(lane)) : Tail(lane)[f] = lane[f + 1]
  BY HeadTailProperties
<1> QED
  BY <1>1, <1>2

-----------------------------------------------------------------------------
(***************************************************************************)
(* What happens to a stream keeps its order: samples of a new send in the  *)
(* outbox, which is sent or emptied; a frame that gets lost or arrives;    *)
(* samples that are popped.                                                *)
(***************************************************************************)

(* The types of the parts of a stream's way. *)
WayIs(i, in, lane, out, n) ==
  i \in Streams /\ in \in Queues /\ lane \in Seq(Frames) /\ out \in Queues /\ n \in Nat

(* Samples of a later send are pushed. *)
LEMMA PushKeepsOrder ==
  ASSUME NEW i, NEW in, NEW lane, NEW out, NEW n, WayIs(i, in, lane, out, n),
         InOrder(i, in, lane, out, n),
         NEW q \in Queues, \A k \in 1 .. Len(q) : q[k].at = n + 1
  PROVE  /\ InOrder(i, in, lane, out \o q, n + 1)
         /\ \A v \in Nat : OlderThan(v, i, in, lane, out, n)
                             => OlderThan(v, i, in, lane, out \o q, n + 1)
<1>1. /\ i \in Streams /\ in \in Queues /\ lane \in Seq(Frames) /\ out \in Queues /\ n \in Nat
      /\ \A f \in 1 .. Len(lane) : lane[f][i] \in Queues
      /\ n + 1 \in Nat
  BY LaneIs DEF WayIs
<1>2. Ordered(q) /\ NotAfter(q, n + 1)
  BY <1>1 DEF Ordered, NotAfter
<1>3. \A p \in Queues : NotAfter(p, n) => Before(p, q) /\ NotAfter(p, n + 1)
  <2> SUFFICES ASSUME NEW p \in Queues, NotAfter(p, n)
               PROVE  Before(p, q) /\ NotAfter(p, n + 1)
    OBVIOUS
  <2>1. \A k \in 1 .. Len(p) : p[k].at \in Nat /\ p[k].at <= n /\ p[k].at <= n + 1
    BY <1>1, QueueIs DEF NotAfter
  <2> QED
    BY <2>1 DEF Before, NotAfter
<1>4. \A v \in Nat : v <= n => v <= n + 1 /\ NotBefore(v, q)
  BY <1>1 DEF NotBefore
<1>5. Ordered(out \o q) /\ NotAfter(out \o q, n + 1) /\ Before(in, out \o q)
  <2>1. Ordered(out) /\ NotAfter(out, n) /\ NotAfter(in, n) /\ Before(in, out)
    BY DEF InOrder
  <2> QED
    BY <1>1, <1>2, <1>3, <2>1, ConcatOrder
<1>6. ASSUME NEW f \in 1 .. Len(lane)
      PROVE  NotAfter(lane[f][i], n + 1) /\ Before(lane[f][i], out \o q)
  <2>1. NotAfter(lane[f][i], n) /\ Before(lane[f][i], out)
    BY DEF InOrder
  <2> QED
    BY <1>1, <1>3, <2>1, ConcatOrder
<1>7. InOrder(i, in, lane, out \o q, n + 1)
  BY <1>1, <1>3, <1>5, <1>6 DEF InOrder
<1>8. ASSUME NEW v \in Nat, OlderThan(v, i, in, lane, out, n)
      PROVE  OlderThan(v, i, in, lane, out \o q, n + 1)
  <2>1. NotBefore(v, out \o q)
    BY <1>1, <1>4, <1>8, ConcatOrder DEF OlderThan
  <2> QED
    BY <1>4, <1>8, <2>1 DEF OlderThan
<1> QED
  BY <1>7, <1>8

(* The outbox is emptied; its samples are dropped. *)
LEMMA DropKeepsOrder ==
  ASSUME NEW i, NEW in, NEW lane, NEW out, NEW n, InOrder(i, in, lane, out, n)
  PROVE  /\ InOrder(i, in, lane, <<>>, n)
         /\ \A v \in Nat : OlderThan(v, i, in, lane, out, n) => OlderThan(v, i, in, lane, <<>>, n)
BY NothingWaits DEF InOrder, OlderThan

(* The outbox is emptied; its samples are in a new frame. *)
LEMMA ShipKeepsOrder ==
  ASSUME NEW i, NEW in, NEW lane, NEW out, NEW n, WayIs(i, in, lane, out, n),
         InOrder(i, in, lane, out, n), NEW d \in Frames, d[i] = out
  PROVE  /\ InOrder(i, in, Append(lane, d), <<>>, n)
         /\ \A v \in Nat : OlderThan(v, i, in, lane, out, n)
                             => OlderThan(v, i, in, Append(lane, d), <<>>, n)
<1> DEFINE more == Append(lane, d)
<1>1. /\ Len(lane) \in Nat /\ Len(more) = Len(lane) + 1
      /\ \A f \in 1 .. Len(more) : \/ f \in 1 .. Len(lane) /\ more[f] = lane[f]
                                   \/ f = Len(lane) + 1 /\ more[f] = d
  BY AppendIs DEF WayIs
<1> HIDE DEF more
<1>2. ASSUME NEW f \in 1 .. Len(more)
      PROVE  /\ Ordered(more[f][i]) /\ NotAfter(more[f][i], n) /\ Before(in, more[f][i])
             /\ \A g \in 1 .. Len(more) : f < g => Before(more[f][i], more[g][i])
  <2>1. CASE f \in 1 .. Len(lane) /\ more[f] = lane[f]
    <3>1. /\ Ordered(lane[f][i]) /\ NotAfter(lane[f][i], n) /\ Before(in, lane[f][i])
          /\ Before(lane[f][i], out)
          /\ \A g \in 1 .. Len(lane) : f < g => Before(lane[f][i], lane[g][i])
      BY <2>1 DEF InOrder
    <3> QED
      BY <1>1, <2>1, <3>1
  <2>2. CASE f = Len(lane) + 1 /\ more[f] = d
    <3>1. Ordered(out) /\ NotAfter(out, n) /\ Before(in, out)
      BY DEF InOrder
    <3>2. \A g \in 1 .. Len(more) : ~(f < g)
      BY <1>1, <2>2
    <3> QED
      BY <2>2, <3>1, <3>2
  <2> QED
    BY <1>1, <2>1, <2>2
<1>3. InOrder(i, in, more, <<>>, n)
  BY <1>2, NothingWaits DEF InOrder
<1>4. ASSUME NEW v \in Nat, OlderThan(v, i, in, lane, out, n)
      PROVE  OlderThan(v, i, in, more, <<>>, n)
  <2>1. \A f \in 1 .. Len(more) : NotBefore(v, more[f][i])
    BY <1>1, <1>4 DEF OlderThan
  <2> QED
    BY <1>4, <2>1, NothingWaits DEF OlderThan
<1> QED
  BY <1>3, <1>4 DEF more

(* The oldest frame is lost. *)
LEMMA LossKeepsOrder ==
  ASSUME NEW i, NEW in, NEW lane, NEW out, NEW n, WayIs(i, in, lane, out, n),
         InOrder(i, in, lane, out, n), lane # <<>>
  PROVE  /\ InOrder(i, in, Tail(lane), out, n)
         /\ \A v \in Nat : OlderThan(v, i, in, lane, out, n)
                             => OlderThan(v, i, in, Tail(lane), out, n)
<1> DEFINE rest == Tail(lane)
<1>1. \A f \in 1 .. Len(rest) : f + 1 \in 1 .. Len(lane) /\ rest[f] = lane[f + 1]
  BY TailIs DEF WayIs
<1> HIDE DEF rest
<1>2. ASSUME NEW f \in 1 .. Len(rest)
      PROVE  /\ Ordered(rest[f][i]) /\ NotAfter(rest[f][i], n)
             /\ Before(in, rest[f][i]) /\ Before(rest[f][i], out)
             /\ \A g \in 1 .. Len(rest) : f < g => Before(rest[f][i], rest[g][i])
  <2>1. /\ Ordered(lane[f + 1][i]) /\ NotAfter(lane[f + 1][i], n)
        /\ Before(in, lane[f + 1][i]) /\ Before(lane[f + 1][i], out)
        /\ \A g \in 1 .. Len(lane) : f + 1 < g => Before(lane[f + 1][i], lane[g][i])
    BY <1>1 DEF InOrder
  <2>2. \A g \in 1 .. Len(rest) : f < g => f + 1 < g + 1
    OBVIOUS
  <2> QED
    BY <1>1, <2>1, <2>2
<1>3. InOrder(i, in, rest, out, n)
  BY <1>2 DEF InOrder
<1>4. \A v \in Nat : OlderThan(v, i, in, lane, out, n) => OlderThan(v, i, in, rest, out, n)
  BY <1>1 DEF OlderThan
<1> QED
  BY <1>3, <1>4 DEF rest

(* The oldest frame arrives. *)
LEMMA ArrivalKeepsOrder ==
  ASSUME NEW i, NEW in, NEW lane, NEW out, NEW n, WayIs(i, in, lane, out, n),
         InOrder(i, in, lane, out, n), lane # <<>>
  PROVE  /\ in \o lane[1][i] \in Queues
         /\ InOrder(i, in \o lane[1][i], Tail(lane), out, n)
         /\ \A v \in Nat : OlderThan(v, i, in, lane, out, n)
                             => OlderThan(v, i, in \o lane[1][i], Tail(lane), out, n)
<1> DEFINE rest == Tail(lane)
           q == in \o lane[1][i]
<1>1. /\ i \in Streams /\ in \in Queues /\ out \in Queues /\ n \in Nat
      /\ 1 \in 1 .. Len(lane) /\ lane[1][i] \in Queues
      /\ \A f \in 1 .. Len(rest) : /\ f + 1 \in 1 .. Len(lane) /\ 1 < f + 1
                                   /\ rest[f] = lane[f + 1] /\ rest[f][i] \in Queues
  <2>1. /\ 1 \in 1 .. Len(lane)
        /\ \A f \in 1 .. Len(rest) : f + 1 \in 2 .. Len(lane) /\ f + 1 \in 1 .. Len(lane)
                                     /\ rest[f] = lane[f + 1]
    BY TailIs DEF WayIs
  <2>2. \A f \in 1 .. Len(lane) : lane[f][i] \in Queues
    BY LaneIs DEF WayIs
  <2> QED
    BY <2>1, <2>2 DEF WayIs
<1>2. InOrder(i, in, rest, out, n)
  BY LossKeepsOrder
<1>3. /\ Ordered(lane[1][i]) /\ NotAfter(lane[1][i], n)
      /\ Before(in, lane[1][i]) /\ Before(lane[1][i], out)
      /\ \A f \in 1 .. Len(lane) : 1 < f => Before(lane[1][i], lane[f][i])
  BY <1>1 DEF InOrder
<1>4. q \in Queues
  BY <1>1, ConcatIs
<1>5. Ordered(q) /\ NotAfter(q, n) /\ Before(q, out)
  <2>1. Ordered(in) /\ NotAfter(in, n) /\ Before(in, out)
    BY DEF InOrder
  <2> QED
    BY <1>1, <1>3, <2>1, ConcatOrder
<1> HIDE DEF rest
<1>6. ASSUME NEW f \in 1 .. Len(rest)
      PROVE  Before(q, rest[f][i])
  <2>1. Before(in, rest[f][i])
    BY <1>2 DEF InOrder
  <2>2. Before(lane[1][i], rest[f][i])
    BY <1>1, <1>3
  <2> QED
    BY <1>1, <2>1, <2>2, ConcatOrder
<1>7. ASSUME NEW v \in Nat, OlderThan(v, i, in, lane, out, n)
      PROVE  OlderThan(v, i, q, rest, out, n)
  <2>1. OlderThan(v, i, in, rest, out, n)
    BY <1>7, LossKeepsOrder DEF rest
  <2>2. NotBefore(v, in) /\ NotBefore(v, lane[1][i])
    BY <1>1, <1>7 DEF OlderThan
  <2>3. NotBefore(v, q)
    BY <1>1, <2>2, ConcatOrder
  <2> HIDE DEF q
  <2> QED
    BY <2>1, <2>3 DEF OlderThan
<1> HIDE DEF q
<1>8. InOrder(i, q, rest, out, n)
  BY <1>2, <1>5, <1>6 DEF InOrder
<1> QED
  BY <1>4, <1>7, <1>8 DEF q, rest

(* The first d samples of the inbox are popped: no sample that stays, or comes, is
   older than one of them. *)
LEMMA PopKeepsOrder ==
  ASSUME NEW i, NEW in, NEW lane, NEW out, NEW n, WayIs(i, in, lane, out, n),
         InOrder(i, in, lane, out, n), NEW d \in 0 .. Len(in)
  PROVE  LET rest == SubSeq(in, d + 1, Len(in))
         IN  /\ rest \in Queues
             /\ InOrder(i, rest, lane, out, n)
             /\ \A v \in Nat : OlderThan(v, i, in, lane, out, n) => OlderThan(v, i, rest, lane, out, n)
             /\ \A k \in 1 .. d : OlderThan(in[k].at, i, rest, lane, out, n)
<1> DEFINE rest == SubSeq(in, d + 1, Len(in))
<1>1. /\ in \in Queues /\ out \in Queues /\ n \in Nat
      /\ \A f \in 1 .. Len(lane) : lane[f][i] \in Queues
      /\ Len(in) \in Nat
  BY LaneIs, QueueIs DEF WayIs
<1>2. /\ rest \in Queues
      /\ Ordered(in) => Ordered(rest)
      /\ \A p \in Queues : Before(in, p) => Before(rest, p)
      /\ NotAfter(in, n) => NotAfter(rest, n)
      /\ \A v \in Nat : NotBefore(v, in) => NotBefore(v, rest)
      /\ Ordered(in) => \A k \in 1 .. d : NotBefore(in[k].at, rest)
  BY <1>1, RestIs
<1> HIDE DEF rest
<1>3. InOrder(i, rest, lane, out, n)
  BY <1>1, <1>2 DEF InOrder
<1>4. \A v \in Nat : OlderThan(v, i, in, lane, out, n) => OlderThan(v, i, rest, lane, out, n)
  BY <1>2 DEF OlderThan
<1>5. ASSUME NEW k \in 1 .. d
      PROVE  OlderThan(in[k].at, i, rest, lane, out, n)
  <2>1. k \in 1 .. Len(in)
    BY <1>1
  <2>2. in[k].at <= n /\ NotBefore(in[k].at, out) /\ NotBefore(in[k].at, rest)
    BY <1>2, <2>1 DEF InOrder, NotAfter, Before, NotBefore
  <2>3. \A f \in 1 .. Len(lane) : NotBefore(in[k].at, lane[f][i])
    BY <2>1 DEF InOrder, Before, NotBefore
  <2> QED
    BY <2>2, <2>3 DEF OlderThan
<1> QED
  BY <1>2, <1>3, <1>4, <1>5 DEF rest

-----------------------------------------------------------------------------
(***************************************************************************)
(* Lemmas about the operators of the model.                                *)
(***************************************************************************)

(* A signal is a stream and a position in it. *)
LEMMA SignalIs ==
  /\ \A s \in Signals :
       s[1] \in Streams /\ s[2] \in 1 .. Size[s[1]] /\ s = <<s[1], s[2]>>
  /\ \A i \in Streams : \A j \in 1 .. Size[i] : <<i, j>> \in Signals
  /\ \A i \in Streams : {i} \X (1 .. Size[i]) \subseteq Signals
BY DEF Signals

(* The lists of refreshed signals of a stream are sequences of its positions. *)
LEMMA ChoiceIs ==
  ASSUME NEW ref \in RefreshChoices, NEW i \in Streams
  PROVE  ref[i] \in Seq(1 .. Size[i])
<1>1. Size[i] \in Nat
  BY TransmissionAssumption
<1>2. AllOf(i) \in [1 .. Size[i] -> 1 .. Size[i]]
  BY DEF AllOf
<1> DEFINE lists == UNION {[1 .. n -> 1 .. Size[i]] : n \in 0 .. Size[i]}
<1>3. ref[i] \in lists
  <2>1. ref[i] \in SomeOf(i) \/ ref[i] = AllOf(i)
    BY DEF RefreshChoices, PortChoices
  <2>2. SomeOf(i) \subseteq lists
    BY DEF SomeOf
  <2>3. Size[i] \in 0 .. Size[i]
    BY <1>1
  <2>4. AllOf(i) \in lists
    BY <1>2, <2>3
  <2> QED
    BY <2>1, <2>2, <2>4
<1>4. PICK n \in 0 .. Size[i] : ref[i] \in [1 .. n -> 1 .. Size[i]]
  BY <1>3
<1>5. n \in Nat
  BY <1>1
<1> QED
  BY <1>4, <1>5, SeqDef

(* What one call pushes on a stream: samples for signals of the stream, all of this
   send. *)
LEMMA PushesIs ==
  ASSUME NEW ref \in RefreshChoices, NEW i \in Streams, NEW now \in 1 .. MaxSends
  PROVE  /\ Pushes(i, ref, now) \in Queues
         /\ \A k \in 1 .. Len(Pushes(i, ref, now)) : Pushes(i, ref, now)[k].at = now
<1> DEFINE assistant == [at |-> now, for |-> {i} \X (1 .. Size[i])]
           one(j) == [at |-> now, for |-> {<<i, j>>}]
<1>1. assistant \in Samples /\ assistant.at = now
  BY SignalIs DEF Samples
<1>2. \A j \in 1 .. Size[i] : one(j) \in Samples /\ one(j).at = now
  BY SignalIs DEF Samples
<1> HIDE DEF assistant, one
<1>3. CASE KindOf[i] = "ASSISTANT"
  <2>1. Pushes(i, ref, now) = <<assistant>>
    BY <1>3 DEF Pushes, assistant
  <2>2. <<assistant>> \in Seq(Samples) /\ Len(<<assistant>>) = 1
    BY <1>1
  <2>3. \A k \in 1 .. 1 : <<assistant>>[k].at = now
    BY <1>1
  <2> QED
    BY <2>1, <2>2, <2>3 DEF Queues
<1>4. CASE KindOf[i] # "ASSISTANT"
  <2> DEFINE r == ref[i]
             q == [k \in 1 .. Len(r) |-> one(r[k])]
  <2>1. Pushes(i, ref, now) = q
    BY <1>4 DEF Pushes, one
  <2>2. Len(r) \in Nat /\ \A k \in 1 .. Len(r) : r[k] \in 1 .. Size[i]
    BY ChoiceIs, LenProperties, ElementOfSeq
  <2> HIDE DEF r
  <2>3. \A k \in 1 .. Len(r) : q[k] = one(r[k])
    OBVIOUS
  <2>4. q \in [1 .. Len(r) -> Samples]
    BY <1>2, <2>2
  <2>5. DOMAIN q = 1 .. Len(r)
    OBVIOUS
  <2> HIDE DEF q
  <2>6. q \in Seq(Samples)
    BY <2>2, <2>4, SeqDef
  <2>7. DOMAIN q = 1 .. Len(q) /\ Len(q) \in Nat
    BY <2>6, LenProperties
  <2>8. \A k \in 1 .. Len(q) : q[k].at = now
    BY <1>2, <2>2, <2>3, <2>5, <2>7
  <2> QED
    BY <2>1, <2>6, <2>8 DEF Queues
<1> QED
  BY <1>3, <1>4

(* What waits on the streams after the loop: what waited before, and behind it samples
   of send n. *)
Behind(P, n) ==
  \A i \in Streams : \E q \in Queues : /\ P[i] = outbox[i] \o q
                                       /\ \A k \in 1 .. Len(q) : q[k].at = n

(* The loop over the streams adds samples of this send behind the others, also when it
   is left in the middle. *)
LEMMA PushedIs ==
  ASSUME NEW ref \in RefreshChoices, NEW now \in 1 .. MaxSends,
         NEW stop \in 1 .. (NStreams + 1), NEW done \in TakenBefore(stop, ref, now)
  PROVE  Behind(Pushed(stop, done, ref, now), now)
<1> SUFFICES ASSUME NEW i \in Streams
             PROVE  \E q \in Queues :
                      /\ Pushed(stop, done, ref, now)[i] = outbox[i] \o q
                      /\ \A k \in 1 .. Len(q) : q[k].at = now
  BY DEF Behind
<1> DEFINE p == Pushes(i, ref, now)
<1>1. NStreams \in Nat /\ i \in Nat /\ stop \in Nat
  BY TransmissionAssumption DEF Streams
<1>2. /\ p \in Queues /\ Len(p) \in Nat
      /\ \A k \in 1 .. Len(p) : p[k] \in Samples /\ p[k].at = now
  BY PushesIs, QueueIs
<1> HIDE DEF p
<1> DEFINE sub == SubSeq(p, 1, done)
<1> DEFINE new == CASE i < stop -> p
                    [] i = stop -> sub
                    [] i > stop -> <<>>
<1>3. Pushed(stop, done, ref, now)[i] = outbox[i] \o new
  BY DEF Pushed, p
<1> HIDE DEF sub
<1>4. /\ i < stop => new = p
      /\ i = stop => new = sub
      /\ i > stop => new = <<>>
  BY <1>1
<1> HIDE DEF new
<1> SUFFICES \E q \in Queues : new = q /\ \A k \in 1 .. Len(q) : q[k].at = now
  BY <1>3
<1>5. CASE i < stop
  BY <1>2, <1>5, <1>4
<1>6. CASE i = stop
  <2>1. done \in 0 .. Len(p)
    BY <1>6 DEF TakenBefore, p
  <2>2. new = sub
    BY <1>6, <1>4
  <2>3. /\ sub \in Seq(Samples)
        /\ Len(sub) = IF 1 <= done THEN done - 1 + 1 ELSE 0
        /\ \A k \in 1 .. done - 1 + 1 : sub[k] = p[1 + k - 1]
    BY <1>2, <2>1, SubSeqProperties DEF sub
  <2>4. \A k \in 1 .. Len(sub) : sub[k] = p[k] /\ k \in 1 .. Len(p)
    BY <1>2, <2>1, <2>3
  <2> QED
    BY <1>2, <2>2, <2>3, <2>4 DEF Queues
<1>7. CASE i > stop
  <2>1. new = <<>>
    BY <1>7, <1>4
  <2>2. <<>> \in Queues /\ Len(<<>>) = 0
    BY EmptySeq DEF Queues
  <2> QED
    BY <2>1, <2>2
<1>8. i < stop \/ i = stop \/ i > stop
  BY <1>1
<1> QED
  BY <1>5, <1>6, <1>7, <1>8

(* The receive loop pops no more than there is. *)
LEMMA PoppedIs ==
  ASSUME NEW i \in Streams, NEW q \in Queues
  PROVE  Popped(i, q) \in 0 .. Len(q)
<1>1. Size[i] \in Nat /\ Len(q) \in Nat
  BY TransmissionAssumption, QueueIs
<1> QED
  BY <1>1 DEF Popped

(* What the receive loop copies to a signal is one of the samples popped from its
   stream. *)
LEMMA SampleIs ==
  ASSUME NEW s \in Signals, NEW q \in Queues
  PROVE  SampleFor(s, q) # NoSample =>
           \E k \in 1 .. Popped(s[1], q) : SampleFor(s, q) = q[k]
<1>1. s[1] \in Streams /\ s[2] \in 1 .. Size[s[1]] /\ Size[s[1]] \in Nat
  BY SignalIs, TransmissionAssumption
<1>2. Len(q) \in Nat
  BY QueueIs
<1>3. ASSUME KindOf[s[1]] = "ASSISTANT", SampleFor(s, q) # NoSample
      PROVE  \E k \in 1 .. Popped(s[1], q) : SampleFor(s, q) = q[k]
  <2>1. q # <<>> /\ SampleFor(s, q) = Head(q)
    BY <1>3 DEF SampleFor
  <2>2. Len(q) \in Nat \ {0} /\ Head(q) = q[1]
    BY <2>1, EmptySeq DEF Queues
  <2>3. Popped(s[1], q) = IF 1 < Len(q) THEN 1 ELSE Len(q)
    BY <1>3 DEF Popped
  <2>4. Popped(s[1], q) = 1
    BY <2>2, <2>3
  <2> QED
    BY <2>1, <2>2, <2>4
<1>4. ASSUME KindOf[s[1]] # "ASSISTANT", SampleFor(s, q) # NoSample
      PROVE  \E k \in 1 .. Popped(s[1], q) : SampleFor(s, q) = q[k]
  <2>1. s[2] <= Len(q) /\ SampleFor(s, q) = q[s[2]]
    BY <1>4 DEF SampleFor
  <2>2. s[2] \in 1 .. Popped(s[1], q)
    BY <1>1, <1>2, <1>4, <2>1 DEF Popped
  <2> QED
    BY <2>1, <2>2
<1> QED
  BY <1>3, <1>4

(* The statuses of sendSimulinkToED247 when the loop is left are not SEND_OK. *)
LEMMA FailureIs ==
  \A i \in Streams : /\ FailureStatuses(KindOf[i]) \subseteq UNION {FailureStatuses(k) : k \in Kinds}
                     /\ "SEND_OK" \notin FailureStatuses(KindOf[i])
<1> SUFFICES ASSUME NEW i \in Streams
             PROVE  /\ FailureStatuses(KindOf[i]) \subseteq UNION {FailureStatuses(k) : k \in Kinds}
                    /\ "SEND_OK" \notin FailureStatuses(KindOf[i])
  OBVIOUS
<1>1. KindOf[i] \in Kinds
  BY TransmissionAssumption
<1>2. FailureStatuses(KindOf[i]) \subseteq UNION {FailureStatuses(k) : k \in Kinds}
  BY <1>1
<1>3. "SEND_OK" \notin FailureStatuses(KindOf[i])
  BY DEF FailureStatuses
<1> QED
  BY <1>2, <1>3

(* Refreshing every signal is one of the choices. *)
LEMMA AllSignalsIs == AllSignals \in RefreshChoices
<1>1. \A i \in Streams : AllOf(i) \in SomeOf(i)
  <2> SUFFICES ASSUME NEW i \in Streams
               PROVE  AllOf(i) \in SomeOf(i)
    OBVIOUS
  <2>1. Size[i] \in Nat /\ Size[i] \in 0 .. Size[i]
    BY TransmissionAssumption
  <2>2. AllOf(i) \in [1 .. Size[i] -> 1 .. Size[i]]
    BY DEF AllOf
  <2>3. \A k, l \in DOMAIN AllOf(i) : k < l => AllOf(i)[k] < AllOf(i)[l]
    BY DEF AllOf
  <2>4. AllOf(i) \in UNION {[1 .. n -> 1 .. Size[i]] : n \in 0 .. Size[i]}
    BY <2>1, <2>2
  <2> QED
    BY <2>3, <2>4 DEF SomeOf
<1>2. \A i \in Streams : AllSignals[i] = AllOf(i)
  BY DEF AllSignals
<1>3. AllSignals \in PortChoices
  BY <1>1, <1>2 DEF AllSignals, PortChoices
<1>4. AllSignals = [i \in Streams |-> IF EnableRefresh /\ KindOf[i] # "ASSISTANT"
                                     THEN AllSignals[i] ELSE AllOf(i)]
  BY <1>2 DEF AllSignals
<1> QED
  BY <1>3, <1>4 DEF RefreshChoices

-----------------------------------------------------------------------------
(***************************************************************************)
(* Batches.                                                                *)
(***************************************************************************)

(* The place of the j-th sample of a batch in a queue of m batches of size t. *)
LEMMA PlaceOf ==
  ASSUME NEW t \in Nat \ {0}, NEW m \in Nat
  PROVE  /\ m * t \in Nat /\ (m + 1) * t = m * t + t /\ 0 * t = 0
         /\ \A b \in Nat : b * t \in Nat /\ (b + 1) * t = b * t + t
         /\ \A b \in Nat, j \in 1 .. t : b < m => b * t + j \in 1 .. m * t
         /\ m # 0 => t <= m * t /\ (m - 1) * t = m * t - t
<1>1. \A b \in Nat : b * t \in Nat /\ (b + 1) * t = b * t + t
  OBVIOUS
<1>2. ASSUME NEW b \in Nat, b < m
      PROVE  b * t + t <= m * t
  <2> DEFINE d == m - (b + 1)
  <2>1. d \in Nat /\ m = (b + 1) + d
    BY <1>2
  <2>2. m * t = (b + 1) * t + d * t
    BY <2>1
  <2>3. d * t >= 0
    BY <2>1
  <2> HIDE DEF d
  <2> QED
    BY <1>1, <2>1, <2>2, <2>3
<1>3. ASSUME NEW b \in Nat, NEW j \in 1 .. t, b < m
      PROVE  b * t + j \in 1 .. m * t
  <2> DEFINE x == b * t
             y == m * t
  <2>1. x \in Nat /\ y \in Nat /\ x + t <= y
    BY <1>1, <1>2, <1>3
  <2> HIDE DEF x, y
  <2>2. x + j \in 1 .. y
    BY <2>1
  <2> QED
    BY <2>2 DEF x, y
<1>4. ASSUME m # 0
      PROVE  t <= m * t /\ (m - 1) * t = m * t - t
  <2>1. (m - 1) * t = m * t - t
    OBVIOUS
  <2>2. (m - 1) * t \in Nat
    BY <1>1, <1>4
  <2> DEFINE x == (m - 1) * t
             y == m * t
  <2>3. x \in Nat /\ y \in Nat /\ x = y - t
    BY <1>1, <2>1, <2>2
  <2> HIDE DEF x, y
  <2>4. t <= y
    BY <2>3
  <2> QED
    BY <2>1, <2>4 DEF y
<1>5. m * t \in Nat /\ (m + 1) * t = m * t + t /\ 0 * t = 0
  BY <1>1
<1> QED
  BY <1>1, <1>3, <1>4, <1>5

(* The receive loop in terms of batches. *)
LEMMA BatchIs ==
  ASSUME NEW i \in Streams
  PROVE  /\ Batch(i) \in Nat \ {0}
         /\ \A q \in Queues : Popped(i, q) = IF Batch(i) < Len(q) THEN Batch(i) ELSE Len(q)
         /\ \A s \in Signals : s[1] = i =>
              /\ Slot(s) \in 1 .. Batch(i)
              /\ \A q \in Queues :
                   SampleFor(s, q) = IF Slot(s) <= Len(q) THEN q[Slot(s)] ELSE NoSample
<1>1. Size[i] \in Nat \ {0}
  BY TransmissionAssumption
<1>2. Batch(i) \in Nat \ {0}
  BY <1>1 DEF Batch
<1>3. \A q \in Queues : Popped(i, q) = IF Batch(i) < Len(q) THEN Batch(i) ELSE Len(q)
  BY DEF Popped, Batch
<1>4. ASSUME NEW s \in Signals, s[1] = i
      PROVE  /\ Slot(s) \in 1 .. Batch(i)
             /\ \A q \in Queues :
                  SampleFor(s, q) = IF Slot(s) <= Len(q) THEN q[Slot(s)] ELSE NoSample
  <2>1. s[2] \in 1 .. Size[i]
    BY <1>4, SignalIs
  <2>2. Slot(s) \in 1 .. Batch(i)
    BY <1>1, <1>4, <2>1 DEF Slot, Batch
  <2>3. ASSUME NEW q \in Queues
        PROVE  SampleFor(s, q) = IF Slot(s) <= Len(q) THEN q[Slot(s)] ELSE NoSample
    <3>1. CASE KindOf[i] = "ASSISTANT"
      <4>1. Slot(s) = 1 /\ SampleFor(s, q) = IF q = <<>> THEN NoSample ELSE Head(q)
        BY <1>4, <3>1 DEF Slot, SampleFor
      <4>2. Len(q) \in Nat /\ (q = <<>> <=> Len(q) = 0) /\ Head(q) = q[1]
        BY EmptySeq, LenProperties DEF Queues
      <4> QED
        BY <4>1, <4>2
    <3>2. CASE KindOf[i] # "ASSISTANT"
      BY <1>4, <3>2 DEF Slot, SampleFor
    <3> QED
      BY <3>1, <3>2
  <2> QED
    BY <2>2, <2>3
<1> QED
  BY <1>2, <1>3, <1>4

(* A whole send pushes one batch on each stream. *)
LEMMA WholePushIs ==
  ASSUME NEW i \in Streams, NEW n \in 1 .. MaxSends
  PROVE  LET q == Pushes(i, AllSignals, n)
         IN  /\ q \in Queues /\ Len(q) = Batch(i) /\ q # <<>>
             /\ \A k \in 1 .. Len(q) : q[k].at = n
             /\ \A s \in Signals : s[1] = i => s \in q[Slot(s)].for
<1> DEFINE q == Pushes(i, AllSignals, n)
<1>1. q \in Queues /\ Len(q) \in Nat /\ \A k \in 1 .. Len(q) : q[k].at = n
  BY AllSignalsIs, PushesIs, QueueIs
<1>2. \A s \in Signals :
        s[1] = i => s[2] \in 1 .. Size[i] /\ s = <<i, s[2]>> /\ s \in {i} \X (1 .. Size[i])
  <2>1. \A s \in Signals : s[2] \in 1 .. Size[s[1]] /\ s = <<s[1], s[2]>>
    BY SignalIs
  <2> QED
    BY <2>1
<1>3. CASE KindOf[i] = "ASSISTANT"
  <2> DEFINE d == [at |-> n, for |-> {i} \X (1 .. Size[i])]
  <2>1. q = <<d>> /\ d.for = {i} \X (1 .. Size[i])
    BY <1>3 DEF Pushes
  <2> HIDE DEF d, q
  <2>2. Len(q) = 1 /\ q[1] = d /\ q # <<>>
    BY <2>1
  <2>3. Batch(i) = 1 /\ \A s \in Signals : s[1] = i => Slot(s) = 1
    BY <1>3 DEF Batch, Slot
  <2>4. \A s \in Signals : s[1] = i => s \in q[Slot(s)].for
    BY <1>2, <2>1, <2>2, <2>3
  <2> QED
    BY <1>1, <2>2, <2>3, <2>4 DEF q
<1>4. CASE KindOf[i] # "ASSISTANT"
  <2> DEFINE one(j) == [at |-> n, for |-> {<<i, j>>}]
             r == AllSignals[i]
  <2>1. Size[i] \in Nat \ {0} /\ r = AllOf(i)
    BY TransmissionAssumption DEF AllSignals
  <2>2. AllOf(i) \in Seq(1 .. Size[i])
    BY <2>1, AllSignalsIs, ChoiceIs
  <2>3. DOMAIN AllOf(i) = 1 .. Size[i] /\ \A j \in 1 .. Size[i] : AllOf(i)[j] = j
    BY DEF AllOf
  <2> HIDE DEF r
  <2>4. Len(r) = Size[i] /\ \A j \in 1 .. Size[i] : r[j] = j
    BY <2>1, <2>2, <2>3, LenProperties
  <2>5. q = [k \in 1 .. Len(r) |-> one(r[k])]
    BY <1>4 DEF Pushes, r
  <2>6. \A j : <<i, j>> \in one(j).for
    OBVIOUS
  <2> HIDE DEF q, one
  <2>7. DOMAIN q = 1 .. Size[i] /\ \A j \in 1 .. Size[i] : q[j] = one(j)
    BY <2>4, <2>5
  <2>8. Len(q) = Size[i] /\ q # <<>>
    BY <1>1, <2>1, <2>7, LenProperties, EmptySeq DEF Queues
  <2>9. Batch(i) = Size[i] /\ \A s \in Signals : s[1] = i => Slot(s) = s[2]
    BY <1>4 DEF Batch, Slot
  <2>10. ASSUME NEW s \in Signals, s[1] = i
         PROVE  s \in q[Slot(s)].for
    <3>1. s = <<i, s[2]>> /\ q[Slot(s)] = one(s[2])
      BY <1>2, <2>7, <2>9, <2>10
    <3> QED
      BY <2>6, <3>1
  <2> QED
    BY <1>1, <2>8, <2>9, <2>10 DEF q
<1> QED
  BY <1>3, <1>4

(* Nothing is whole. *)
LEMMA NothingIsWhole == \A i \in Streams : WholeQueue(i, <<>>)
<1>1. \A i \in Streams : 0 * Batch(i) = 0 /\ 0 \in Nat
  BY BatchIs, PlaceOf
<1>2. \A b \in Nat : ~(b < 0)
  OBVIOUS
<1> QED
  BY <1>1, <1>2, NothingWaits DEF WholeQueue

(* A batch that arrives behind others. *)
LEMMA WholeConcat ==
  ASSUME NEW i \in Streams, NEW p \in Queues, WholeQueue(i, p), NEW n \in 1 .. MaxSends
  PROVE  WholeQueue(i, p \o Pushes(i, AllSignals, n))
<1> DEFINE q == Pushes(i, AllSignals, n)
           c == p \o q
           t == Batch(i)
<1>1. PICK m \in Nat : /\ Len(p) = m * t
                       /\ \A b \in Nat, s \in Signals :
                            b < m /\ s[1] = i => s \in p[b * t + Slot(s)].for
  BY DEF WholeQueue
<1>2. q \in Queues /\ Len(q) = t /\ \A s \in Signals : s[1] = i => s \in q[Slot(s)].for
  BY WholePushIs
<1>3. t \in Nat \ {0} /\ \A s \in Signals : s[1] = i => Slot(s) \in 1 .. t
  BY BatchIs
<1> HIDE DEF q, t
<1>4. /\ Len(p) \in Nat /\ Len(c) = Len(p) + t
      /\ \A k \in 1 .. Len(p) : c[k] = p[k]
      /\ \A k \in Len(p) + 1 .. Len(p) + t : c[k] = q[k - Len(p)]
  BY <1>2, ConcatIs
<1> HIDE DEF c
<1>5. m * t \in Nat /\ (m + 1) * t = m * t + t
  BY <1>3, PlaceOf
<1>6. Len(c) = (m + 1) * t /\ m + 1 \in Nat
  BY <1>1, <1>4, <1>5
<1>7. ASSUME NEW b \in Nat, NEW s \in Signals, b < m + 1, s[1] = i
      PROVE  s \in c[b * t + Slot(s)].for
  <2>1. CASE b < m
    <3>1. b * t + Slot(s) \in 1 .. Len(p)
      BY <1>1, <1>3, <1>7, <2>1, PlaceOf
    <3> QED
      BY <1>1, <1>4, <1>7, <2>1, <3>1
  <2>2. CASE b = m
    <3> DEFINE k == Len(p) + Slot(s)
    <3>1. b * t + Slot(s) = k
      BY <1>1, <2>2
    <3>2. k \in Len(p) + 1 .. Len(p) + t /\ k - Len(p) = Slot(s)
      BY <1>3, <1>4, <1>7
    <3> HIDE DEF k
    <3> QED
      BY <1>2, <1>4, <1>7, <3>1, <3>2
  <2> QED
    BY <1>7, <2>1, <2>2
<1> QED
  BY <1>6, <1>7 DEF WholeQueue, c, q, t

(* The receive loop pops a batch, and leaves whole batches. *)
LEMMA WholeRest ==
  ASSUME NEW i \in Streams, NEW q \in Queues, WholeQueue(i, q)
  PROVE  WholeQueue(i, SubSeq(q, Popped(i, q) + 1, Len(q)))
<1> DEFINE r == SubSeq(q, Popped(i, q) + 1, Len(q))
           t == Batch(i)
<1>1. PICK m \in Nat : /\ Len(q) = m * t
                       /\ \A b \in Nat, s \in Signals :
                            b < m /\ s[1] = i => s \in q[b * t + Slot(s)].for
  BY DEF WholeQueue
<1>2. /\ t \in Nat \ {0} /\ \A s \in Signals : s[1] = i => Slot(s) \in 1 .. t
      /\ Popped(i, q) = IF t < Len(q) THEN t ELSE Len(q)
      /\ Popped(i, q) \in 0 .. Len(q)
  BY BatchIs, PoppedIs
<1>3. /\ r \in Queues /\ Len(r) = Len(q) - Popped(i, q) /\ Len(q) \in Nat
      /\ \A k \in 1 .. Len(r) : r[k] = q[k + Popped(i, q)]
  BY <1>2, RestIs, QueueIs
<1> HIDE DEF r, t
<1>4. CASE m = 0
  <2>1. Len(q) = 0
    BY <1>1, <1>2, <1>4, PlaceOf
  <2>2. r = <<>>
    BY <1>2, <1>3, <2>1, EmptySeq DEF Queues
  <2> QED
    BY <2>2, NothingIsWhole DEF r
<1>5. CASE m # 0
  <2>1. t <= m * t /\ (m - 1) * t = m * t - t /\ m - 1 \in Nat
    BY <1>2, <1>5, PlaceOf
  <2>2. Popped(i, q) = t
    BY <1>1, <1>2, <1>3, <2>1
  <2>3. Len(r) = (m - 1) * t
    BY <1>1, <1>3, <2>1, <2>2
  <2>4. ASSUME NEW b \in Nat, NEW s \in Signals, b < m - 1, s[1] = i
        PROVE  s \in r[b * t + Slot(s)].for
    <3>1. b * t + Slot(s) \in 1 .. Len(r)
      BY <1>2, <2>1, <2>3, <2>4, PlaceOf
    <3>2. (b + 1) * t = b * t + t /\ b * t \in Nat /\ b + 1 \in Nat /\ b + 1 < m
      BY <1>2, <2>4, PlaceOf
    <3>3. (b * t + Slot(s)) + t = (b + 1) * t + Slot(s)
      BY <1>2, <2>4, <3>2
    <3>4. r[b * t + Slot(s)] = q[(b + 1) * t + Slot(s)]
      BY <1>3, <2>2, <3>1, <3>3
    <3> QED
      BY <1>1, <2>4, <3>2, <3>4
  <2> QED
    BY <2>1, <2>3, <2>4 DEF WholeQueue, r, t
<1> QED
  BY <1>4, <1>5

(* Out of whole batches every signal gets a sample that is for this signal, or none. *)
LEMMA WholeSample ==
  ASSUME NEW s \in Signals, NEW q \in Queues, WholeQueue(s[1], q), SampleFor(s, q) # NoSample
  PROVE  s \in SampleFor(s, q).for
<1> DEFINE t == Batch(s[1])
<1>1. s[1] \in Streams
  BY SignalIs
<1>2. t \in Nat \ {0} /\ Slot(s) \in 1 .. t /\ Len(q) \in Nat
  BY <1>1, BatchIs, QueueIs
<1>3. Slot(s) <= Len(q) /\ SampleFor(s, q) = q[Slot(s)]
  BY <1>1, BatchIs
<1>4. PICK m \in Nat : /\ Len(q) = m * t
                       /\ \A b \in Nat : b < m => s \in q[b * t + Slot(s)].for
  BY DEF WholeQueue
<1> HIDE DEF t
<1>5. 0 * t = 0 /\ 0 * t + Slot(s) = Slot(s)
  BY <1>2
<1>6. 0 < m
  BY <1>2, <1>3, <1>4, <1>5
<1>7. s \in q[0 * t + Slot(s)].for
  BY <1>4, <1>6
<1> QED
  BY <1>3, <1>5, <1>7

-----------------------------------------------------------------------------
(***************************************************************************)
(* What the two simulations do, as the proofs need it.                     *)
(***************************************************************************)

(* The types that TypeOK gives, with the names used here. *)
LEMMA TypesAre ==
  ASSUME TypeOK
  PROVE  /\ sends \in Nat /\ outbox \in Frames /\ inbox \in Frames
         /\ network \in [Channels -> Seq(Frames)]
         /\ \A s \in Signals : value[s].at \in Nat
         /\ \A i \in Streams :
              /\ ChannelOf[i] \in Channels
              /\ WayIs(i, inbox[i], network[ChannelOf[i]], outbox[i], sends)
<1>1. sends \in Nat /\ outbox \in Frames /\ inbox \in Frames
  BY TransmissionAssumption DEF TypeOK, Frames, Queues
<1>2. network \in [Channels -> Seq(Frames)]
  BY DEF TypeOK, Frames, Queues
<1>3. \A s \in Signals : value[s].at \in Nat
  <2>1. \A d \in Samples \cup {NoSample} : d.at \in Nat
    BY TransmissionAssumption DEF Samples, NoSample
  <2> QED
    BY <2>1 DEF TypeOK
<1>4. \A i \in Streams : ChannelOf[i] \in Channels
  BY DEF Channels
<1>5. \A i \in Streams : WayIs(i, inbox[i], network[ChannelOf[i]], outbox[i], sends)
  BY <1>1, <1>2, <1>4 DEF WayIs, Frames
<1> QED
  BY <1>1, <1>2, <1>3, <1>4, <1>5

(* A frame has the samples of the streams of its channel. *)
LEMMA FrameIs ==
  ASSUME NEW P \in Frames
  PROVE  /\ \A c : Frame(c, P) \in Frames
         /\ \A i \in Streams : Frame(ChannelOf[i], P)[i] = P[i]
BY NothingWaits DEF Frame, Frames

(* P is what waits when the loop over the streams has ended or was left: what waited
   before and, behind it, samples of this send. *)
IsPushed(P) == P \in Frames /\ Behind(P, sends + 1)

(* Of that, the channels in out have a frame each, and those in gone nothing left. *)
Outcome(P, gone, out) ==
  /\ outbox' = [i \in Streams |-> IF ChannelOf[i] \in gone THEN <<>> ELSE P[i]]
  /\ network' = [c \in Channels |-> IF c \in out THEN Append(network[c], Frame(c, P))
                                                ELSE network[c]]

WholeOutcome(P, out) ==
  /\ whole /\ out = Loaded(P)
  /\ P = [i \in Streams |-> outbox[i] \o Pushes(i, AllSignals, sends + 1)]

(* One call of Send::outputs. *)
LEMMA SendIs ==
  ASSUME TypeOK, Send
  PROVE  /\ sends + 1 \in 1 .. MaxSends /\ sends' = sends + 1
         /\ UNCHANGED <<lost, unknown, inbox, value, flag, skipped>>
         /\ status' \in {"SEND_OK", "SEND_PUSHED_SAMPLES_FAILURE"}
                        \cup UNION {FailureStatuses(k) : k \in Kinds}
         /\ whole' \in BOOLEAN
         /\ \E P : /\ IsPushed(P)
                   /\ \E gone \in SUBSET Channels : \E out \in SUBSET gone :
                        Outcome(P, gone, out) /\ (whole' => WholeOutcome(P, out))
<1> DEFINE now == sends + 1
<1>1. /\ now \in 1 .. MaxSends /\ sends' = now
      /\ UNCHANGED <<lost, unknown, inbox, value, flag, skipped>>
  BY TransmissionAssumption DEF Send, TypeOK, received
<1>2. PICK ref \in RefreshChoices, stop \in 1 .. (NStreams + 1) :
        \E done \in TakenBefore(stop, ref, sends') :
          /\ IF stop \in Streams
             THEN Leave(stop, done, ref, sends')
             ELSE SendPushedSamples(ref, sends')
          /\ whole' = (whole /\ ref = AllSignals /\ status' = "SEND_OK")
  BY DEF Send
<1>3. PICK done \in TakenBefore(stop, ref, now) :
        /\ IF stop \in Streams
           THEN Leave(stop, done, ref, now)
           ELSE SendPushedSamples(ref, now)
        /\ whole' = (whole /\ ref = AllSignals /\ status' = "SEND_OK")
  BY <1>1, <1>2
<1> HIDE DEF now
<1> DEFINE P == Pushed(stop, done, ref, now)
<1>4. IsPushed(P)
  <2>1. Behind(P, now)
    <3>1. now \in 1 .. MaxSends
      BY <1>1
    <3> QED
      BY <3>1, PushedIs
  <2> DEFINE part(i) == outbox[i] \o CASE i < stop -> Pushes(i, ref, now)
                                       [] i = stop -> SubSeq(Pushes(i, ref, now), 1, done)
                                       [] i > stop -> <<>>
  <2>2. P = [i \in Streams |-> part(i)]
    BY DEF Pushed
  <2> HIDE DEF P, part
  <2>3. \A i \in Streams : P[i] \in Queues
    <3> SUFFICES ASSUME NEW i \in Streams
                 PROVE  P[i] \in Queues
      OBVIOUS
    <3>1. PICK q \in Queues : P[i] = outbox[i] \o q
      BY <2>1 DEF Behind
    <3>2. outbox[i] \in Queues
      BY TypesAre DEF Frames
    <3> QED
      BY <3>1, <3>2, ConcatIs
  <2>4. P \in Frames
    BY <2>3, <2>2 DEF Frames
  <2> QED
    BY <2>1, <2>4 DEF IsPushed, now
<1>5. whole' \in BOOLEAN /\ (whole' => whole /\ ref = AllSignals /\ status' = "SEND_OK")
  BY <1>3 DEF TypeOK
<1>6. CASE stop \in Streams
  <2>1. status' \in FailureStatuses(KindOf[stop]) /\ outbox' = P /\ network' = network
    BY <1>3, <1>6 DEF Leave
  <2>2. Outcome(P, {}, {})
    <3>1. P \in Frames /\ network \in [Channels -> Seq(Frames)]
      BY <1>4, TypesAre DEF IsPushed
    <3> HIDE DEF P
    <3>2. outbox' = [i \in Streams |-> IF ChannelOf[i] \in {} THEN <<>> ELSE P[i]]
      BY <2>1, <3>1 DEF Frames
    <3>3. network' = [c \in Channels |-> IF c \in {} THEN Append(network[c], Frame(c, P))
                                                     ELSE network[c]]
      BY <2>1, <3>1
    <3> QED
      BY <3>2, <3>3 DEF Outcome
  <2>3. ~whole' /\ status' \in UNION {FailureStatuses(k) : k \in Kinds}
    BY <1>5, <1>6, <2>1, FailureIs
  <2> HIDE DEF P
  <2> QED
    BY <1>1, <1>4, <1>5, <2>2, <2>3 DEF now
<1>7. CASE stop \notin Streams
  <2>1. stop = NStreams + 1 /\ done = 0
    BY <1>7, TransmissionAssumption DEF Streams, TakenBefore
  <2>2. SendPushedSamples(ref, now) /\ P = Pushed(NStreams + 1, 0, ref, now)
    BY <1>3, <1>7, <2>1
  <2> DEFINE all == Pushed(NStreams + 1, 0, ref, now)
  <2>3. PICK gone \in SUBSET Loaded(P) : \E out \in SUBSET gone :
          /\ \/ status' = "SEND_OK" /\ out = Loaded(P)
             \/ status' = "SEND_PUSHED_SAMPLES_FAILURE"
          /\ Outcome(P, gone, out)
    <3>1. \E gone \in SUBSET Loaded(all) : \E out \in SUBSET gone :
            /\ \/ status' = "SEND_OK" /\ out = Loaded(all)
               \/ status' = "SEND_PUSHED_SAMPLES_FAILURE"
            /\ Outcome(all, gone, out)
      BY <2>2 DEF SendPushedSamples, Outcome
    <3> HIDE DEF P, all
    <3>2. P = all
      BY <2>2 DEF all
    <3> QED
      BY <3>1, <3>2
  <2>4. PICK out \in SUBSET gone :
          /\ \/ status' = "SEND_OK" /\ out = Loaded(P)
             \/ status' = "SEND_PUSHED_SAMPLES_FAILURE"
          /\ Outcome(P, gone, out)
    BY <2>3
  <2>5. gone \in SUBSET Channels
    BY DEF Loaded, Channels
  <2>6. whole' => WholeOutcome(P, out)
    <3> SUFFICES ASSUME whole'
                 PROVE  WholeOutcome(P, out)
      OBVIOUS
    <3>1. whole /\ ref = AllSignals /\ out = Loaded(P)
      BY <1>5, <2>4
    <3>2. \A i \in Streams : i \in Nat /\ i < NStreams + 1
      BY TransmissionAssumption DEF Streams
    <3>3. \A i \in Streams : P[i] = outbox[i] \o Pushes(i, ref, now)
      <4> SUFFICES ASSUME NEW i \in Streams
                   PROVE  P[i] = outbox[i] \o Pushes(i, ref, now)
        OBVIOUS
      <4> DEFINE n == NStreams + 1
                 p == Pushes(i, ref, now)
                 sub == SubSeq(p, 1, 0)
      <4>1. P[i] = outbox[i] \o CASE i < n -> p [] i = n -> sub [] i > n -> <<>>
        BY <2>2 DEF Pushed
      <4>2. i \in Nat /\ n \in Nat /\ i < n
        BY <3>2, TransmissionAssumption
      <4> HIDE DEF n, p, sub
      <4>3. p = CASE i < n -> p [] i = n -> sub [] i > n -> <<>>
        BY <4>2
      <4> QED
        BY <4>1, <4>3 DEF p
    <3>4. P = [i \in Streams |-> P[i]]
      BY <2>2 DEF Pushed
    <3> HIDE DEF P
    <3> QED
      BY <3>1, <3>3, <3>4 DEF WholeOutcome, now
  <2>7. status' \in {"SEND_OK", "SEND_PUSHED_SAMPLES_FAILURE"}
    BY <2>4
  <2> HIDE DEF P
  <2> QED
    BY <1>1, <1>4, <1>5, <2>4, <2>5, <2>6, <2>7 DEF now
<1> QED
  BY <1>6, <1>7

(* Sending keeps the order. *)
LEMMA SendKeepsOrder ==
  ASSUME TypeOK, Send,
         \A i \in Streams : StreamInOrder(i), \A s \in Signals : ValueInOrder(s)
  PROVE  /\ outbox' \in Frames /\ network' \in [Channels -> Seq(Frames)]
         /\ \A i \in Streams : StreamInOrder(i)'
         /\ \A s \in Signals : ValueInOrder(s)'
<1>1. sends' = sends + 1 /\ inbox' = inbox /\ value' = value
  BY SendIs
<1>2. PICK P : /\ IsPushed(P)
               /\ \E gone \in SUBSET Channels : \E out \in SUBSET gone : Outcome(P, gone, out)
  BY SendIs
<1>3. PICK gone \in SUBSET Channels : \E out \in SUBSET gone : Outcome(P, gone, out)
  BY <1>2
<1>4. PICK out \in SUBSET gone : Outcome(P, gone, out)
  BY <1>3
<1>5. /\ sends \in Nat /\ network \in [Channels -> Seq(Frames)]
      /\ \A s \in Signals : value[s].at \in Nat
  BY TypesAre
<1>6. P \in Frames /\ \A c : Frame(c, P) \in Frames
  BY <1>2, FrameIs DEF IsPushed
<1>7. outbox' \in Frames
  BY <1>4, <1>6, NothingWaits DEF Outcome, Frames
<1>8. network' \in [Channels -> Seq(Frames)]
  <2>1. \A c \in Channels : Append(network[c], Frame(c, P)) \in Seq(Frames)
    BY <1>5, <1>6, AppendIs
  <2> QED
    BY <1>4, <1>5, <2>1 DEF Outcome
<1>9. ASSUME NEW i \in Streams
      PROVE  /\ StreamInOrder(i)'
             /\ \A s \in Signals : s[1] = i => ValueInOrder(s)'
  <2> DEFINE in == inbox[i]
             lane == network[ChannelOf[i]]
             box == outbox[i]
             d == Frame(ChannelOf[i], P)
  <2>1. PICK q \in Queues : P[i] = box \o q /\ \A k \in 1 .. Len(q) : q[k].at = sends + 1
    BY <1>2 DEF IsPushed, Behind
  <2>2. WayIs(i, in, lane, box, sends) /\ ChannelOf[i] \in Channels
    BY TypesAre
  <2>3. /\ InOrder(i, in, lane, box, sends)
        /\ \A s \in Signals : s[1] = i =>
             value[s].at \in Nat /\ OlderThan(value[s].at, i, in, lane, box, sends)
    BY <1>5 DEF StreamInOrder, ValueInOrder
  <2>4. /\ outbox'[i] = IF ChannelOf[i] \in gone THEN <<>> ELSE P[i]
        /\ network'[ChannelOf[i]] = IF ChannelOf[i] \in out THEN Append(lane, d) ELSE lane
    BY <1>4, <2>2 DEF Outcome
  <2>5. /\ d \in Frames /\ d[i] = P[i]
        /\ WayIs(i, in, lane, P[i], sends + 1)
    BY <1>5, <1>6, <2>2, FrameIs DEF WayIs, Frames
  <2> HIDE DEF in, lane, box, d
  <2>6. /\ InOrder(i, in, lane, P[i], sends + 1)
        /\ \A v \in Nat : OlderThan(v, i, in, lane, box, sends)
                            => OlderThan(v, i, in, lane, P[i], sends + 1)
    BY <2>1, <2>2, <2>3, PushKeepsOrder
  <2>7. /\ InOrder(i, in, lane, <<>>, sends + 1)
        /\ \A v \in Nat : OlderThan(v, i, in, lane, P[i], sends + 1)
                            => OlderThan(v, i, in, lane, <<>>, sends + 1)
    BY <2>6, DropKeepsOrder
  <2>8. /\ InOrder(i, in, Append(lane, d), <<>>, sends + 1)
        /\ \A v \in Nat : OlderThan(v, i, in, lane, P[i], sends + 1)
                            => OlderThan(v, i, in, Append(lane, d), <<>>, sends + 1)
    BY <2>5, <2>6, ShipKeepsOrder
  <2>9. /\ InOrder(i, in, network'[ChannelOf[i]], outbox'[i], sends + 1)
        /\ \A v \in Nat : OlderThan(v, i, in, lane, box, sends)
                 => OlderThan(v, i, in, network'[ChannelOf[i]], outbox'[i], sends + 1)
    BY <2>4, <2>6, <2>7, <2>8
  <2>10. StreamInOrder(i)'
    BY <1>1, <2>9 DEF StreamInOrder, in
  <2>11. \A s \in Signals : s[1] = i => ValueInOrder(s)'
    BY <1>1, <2>3, <2>9 DEF ValueInOrder, in
  <2> QED
    BY <2>10, <2>11
<1> QED
  BY <1>7, <1>8, <1>9, SignalIs

(* A whole send puts one frame on every channel, and leaves nothing behind. *)
LEMMA WholeSendIs ==
  ASSUME TypeOK, OnlyWholeBatches, Send, whole'
  PROVE  /\ whole /\ outbox' = NoSamples
         /\ sends + 1 \in 1 .. MaxSends
         /\ \A c \in Channels : WholeFrame(c, sends + 1) \in Frames
         /\ network' = [c \in Channels |-> Append(network[c], WholeFrame(c, sends + 1))]
<1> DEFINE now == sends + 1
<1>1. now \in 1 .. MaxSends
  BY SendIs
<1>2. PICK P : /\ IsPushed(P)
               /\ \E gone \in SUBSET Channels : \E out \in SUBSET gone :
                    Outcome(P, gone, out) /\ WholeOutcome(P, out)
  BY SendIs
<1>3. PICK gone \in SUBSET Channels :
        \E out \in SUBSET gone : Outcome(P, gone, out) /\ WholeOutcome(P, out)
  BY <1>2
<1>4. PICK out \in SUBSET gone : Outcome(P, gone, out) /\ WholeOutcome(P, out)
  BY <1>3
<1>5. whole /\ \A i \in Streams : outbox[i] = <<>>
  BY <1>4 DEF OnlyWholeBatches, WholeOutcome, NoSamples
<1> HIDE DEF now
<1>6. P = [i \in Streams |-> Pushes(i, AllSignals, now)]
  <2>1. \A i \in Streams : outbox[i] \o Pushes(i, AllSignals, now) = Pushes(i, AllSignals, now)
    <3> SUFFICES ASSUME NEW i \in Streams
                 PROVE  outbox[i] \o Pushes(i, AllSignals, now) = Pushes(i, AllSignals, now)
      OBVIOUS
    <3>1. Pushes(i, AllSignals, now) \in Seq(Samples)
      BY <1>1, WholePushIs DEF Queues
    <3> QED
      BY <1>5, <3>1, ConcatEmptySeq
  <2> QED
    BY <1>4, <2>1 DEF WholeOutcome, now
<1>7. \A i \in Streams : P[i] # <<>>
  BY <1>1, <1>6, WholePushIs
<1>8. out = Channels /\ gone = Channels
  <2>1. Loaded(P) = Channels
    BY <1>7 DEF Loaded, Channels
  <2> QED
    BY <1>4, <2>1 DEF WholeOutcome
<1>9. outbox' = NoSamples
  <2>1. \A i \in Streams : ChannelOf[i] \in gone
    BY <1>8 DEF Channels
  <2> QED
    BY <1>4, <2>1 DEF Outcome, NoSamples
<1>10. \A c : Frame(c, P) = WholeFrame(c, now) /\ WholeFrame(c, now) \in Frames
  <2>1. P \in Frames
    BY <1>2 DEF IsPushed
  <2> QED
    BY <1>6, <2>1, FrameIs DEF WholeFrame
<1>11. network' = [c \in Channels |-> Append(network[c], WholeFrame(c, now))]
  BY <1>4, <1>8, <1>10 DEF Outcome
<1> QED
  BY <1>1, <1>5, <1>9, <1>10, <1>11 DEF now

(* So a whole send keeps OnlyWholeBatches; any other one ends whole. *)
LEMMA SendKeepsWhole ==
  ASSUME TypeOK, OnlyWholeBatches, Send
  PROVE  OnlyWholeBatches'
<1> SUFFICES ASSUME whole'
             PROVE  OnlyWholeBatches'
  BY DEF OnlyWholeBatches
<1> DEFINE now == sends + 1
<1>1. inbox' = inbox /\ value' = value /\ skipped' = skipped
  BY SendIs
<1>2. /\ whole /\ outbox' = NoSamples /\ now \in 1 .. MaxSends
      /\ \A c \in Channels : WholeFrame(c, now) \in Frames
      /\ \A c \in Channels : network'[c] = Append(network[c], WholeFrame(c, now))
  BY WholeSendIs
<1>3. /\ \A c \in Channels : AllWhole(c, network[c])
      /\ \A i \in Streams : WholeQueue(i, inbox[i])
      /\ \A i \in Streams \ skipped : inbox[i] = <<>>
      /\ ReceivedMatchesSent
  BY <1>2 DEF OnlyWholeBatches
<1> HIDE DEF now
<1>4. ASSUME NEW c \in Channels
      PROVE  AllWhole(c, network'[c])
  <2>1. /\ network[c] \in Seq(Frames)
        /\ \A f \in 1 .. Len(network[c]) :
             \E n \in 1 .. MaxSends : network[c][f] = WholeFrame(c, n)
    BY <1>3 DEF AllWhole
  <2> DEFINE more == Append(network[c], WholeFrame(c, now))
  <2>2. /\ more \in Seq(Frames) /\ more[Len(network[c]) + 1] = WholeFrame(c, now)
        /\ \A f \in 1 .. Len(network[c]) : more[f] = network[c][f]
        /\ \A f \in 1 .. Len(more) : f \in 1 .. Len(network[c]) \/ f = Len(network[c]) + 1
    BY <1>2, <2>1, AppendIs
  <2>3. network'[c] = more
    BY <1>2
  <2> HIDE DEF more
  <2>4. \A f \in 1 .. Len(more) : \E n \in 1 .. MaxSends : more[f] = WholeFrame(c, n)
    BY <1>2, <2>1, <2>2
  <2> QED
    BY <2>2, <2>3, <2>4 DEF AllWhole
<1>5. ReceivedMatchesSent'
  BY <1>1, <1>3 DEF ReceivedMatchesSent
<1> QED
  BY <1>1, <1>2, <1>3, <1>4, <1>5 DEF OnlyWholeBatches


(* The lane of channel c after frames came in on the channels in came. *)
LaneAfter(came, c) == IF c \in came THEN Tail(network[c]) ELSE network[c]

(* Frames can come in on the channels in came. *)
MayCome(came) == came \in SUBSET Channels /\ \A c \in came : network[c] # <<>>

Rest(i, q) == SubSeq(q, Popped(i, q) + 1, Len(q))

Got(came, s) == SampleFor(s, QueueWith(came, s[1]))

(* What a reception does to stream i, and what to signal s, when frames came in on the
   channels in came and the loop returned at stream stop, n signals into it. *)
StreamStep(i, came, stop) ==
  /\ inbox'[i] = IF PopsFrom(i, stop) THEN Rest(i, QueueWith(came, i)) ELSE QueueWith(came, i)
  /\ i \notin skipped' => i \notin skipped /\ (i < stop \/ QueueWith(came, i) = <<>>)

SignalStep(s, came, stop, n) ==
  /\ value'[s] = IF Reaches(s, stop, n) /\ Got(came, s) # NoSample
                 THEN Got(came, s) ELSE value[s]
  /\ flag'[s] = IF Reaches(s, stop, n) THEN FlagFor(s, Got(came, s)) ELSE flag[s]
  /\ Reaches(s, stop, n) => PopsFrom(s[1], stop)
  /\ s[1] < stop => Reaches(s, stop, n)

Reception(came, stop, n) ==
  /\ MayCome(came)
  /\ network' = [c \in Channels |-> LaneAfter(came, c)]
  /\ \A i \in Streams : StreamStep(i, came, stop)
  /\ \A s \in Signals : SignalStep(s, came, stop, n)

(* What waits on a stream once the frames are in, and after it was popped. *)
LEMMA QueueWithIs ==
  ASSUME TypeOK, NEW came, MayCome(came), NEW i \in Streams
  PROVE  LET lane == network[ChannelOf[i]]
         IN  /\ QueueWith(came, i) = IF ChannelOf[i] \in came THEN inbox[i] \o lane[1][i]
                                                              ELSE inbox[i]
             /\ QueueWith(came, i) \in Queues
             /\ Rest(i, QueueWith(came, i)) \in Queues
             /\ ChannelOf[i] \in came => lane # <<>>
             /\ LaneAfter(came, ChannelOf[i]) \in Seq(Frames)
<1> DEFINE lane == network[ChannelOf[i]]
           q == QueueWith(came, i)
<1>1. /\ inbox[i] \in Queues /\ lane \in Seq(Frames) /\ ChannelOf[i] \in Channels
      /\ ChannelOf[i] \in came => lane # <<>>
  BY TypesAre DEF WayIs, MayCome
<1>2. ASSUME ChannelOf[i] \in came
      PROVE  Head(lane) = lane[1] /\ lane[1][i] \in Queues /\ Tail(lane) \in Seq(Frames)
  <2>1. lane[1] \in Frames /\ Head(lane) = lane[1] /\ Tail(lane) \in Seq(Frames)
    BY <1>1, <1>2, TailIs
  <2> QED
    BY <2>1 DEF Frames
<1>3. /\ q = IF ChannelOf[i] \in came THEN inbox[i] \o lane[1][i] ELSE inbox[i]
      /\ LaneAfter(came, ChannelOf[i]) \in Seq(Frames)
  BY <1>1, <1>2 DEF QueueWith, LaneAfter
<1> HIDE DEF lane, q
<1>4. q \in Queues
  <2>1. CASE ChannelOf[i] \in came
    BY <1>1, <1>2, <1>3, <2>1, ConcatIs
  <2>2. CASE ChannelOf[i] \notin came
    BY <1>1, <1>3, <2>2
  <2> QED
    BY <2>1, <2>2
<1>5. Rest(i, q) \in Queues
  <2>1. Popped(i, q) \in 0 .. Len(q)
    BY <1>4, PoppedIs
  <2> QED
    BY <1>4, <2>1, RestIs DEF Rest
<1> QED
  BY <1>1, <1>3, <1>4, <1>5 DEF lane, q

(* One call of receiveED247ToSimulink that got a frame. *)
LEMMA ReceiveIs ==
  ASSUME TypeOK, Receive
  PROVE  /\ UNCHANGED <<sends, outbox, status, whole, lost, unknown>>
         /\ network' \in [Channels -> Seq(Frames)]
         /\ inbox' \in Frames
         /\ value' \in [Signals -> Samples \cup {NoSample}]
         /\ flag' \in [Signals -> {0, 1}]
         /\ skipped' \subseteq Streams /\ skipped \subseteq skipped'
         /\ \E came : \E stop, n \in Nat : came # {} /\ Reception(came, stop, n)
<1>1. UNCHANGED <<sends, outbox, status, whole, lost, unknown>>
  BY DEF Receive
<1>2. PICK came \in (SUBSET {c \in Channels : network[c] # <<>>}) \ {{}} :
        /\ network' = [c \in Channels |-> IF c \in came THEN Tail(network[c]) ELSE network[c]]
        /\ \E stop \in 1 .. (NStreams + 1) :
           \E n \in 0 .. (IF stop \in Streams THEN Size[stop] - 1 ELSE 0) :
             StreamLoop(stop, n, [i \in Streams |-> QueueWith(came, i)])
  BY DEF Receive
<1>3. PICK stop \in 1 .. (NStreams + 1) :
        \E n \in 0 .. (IF stop \in Streams THEN Size[stop] - 1 ELSE 0) :
          StreamLoop(stop, n, [i \in Streams |-> QueueWith(came, i)])
  BY <1>2
<1>4. PICK n \in 0 .. (IF stop \in Streams THEN Size[stop] - 1 ELSE 0) :
        StreamLoop(stop, n, [i \in Streams |-> QueueWith(came, i)])
  BY <1>3
<1>5. stop \in Nat /\ n \in Nat
  BY <1>4, TransmissionAssumption
<1>6. MayCome(came) /\ came # {}
  BY <1>2 DEF MayCome
<1>7. \A i \in Streams : QueueWith(came, i) \in Queues /\ Rest(i, QueueWith(came, i)) \in Queues
  BY <1>6, QueueWithIs
<1> DEFINE queue == [i \in Streams |-> QueueWith(came, i)]
<1>8. \A i \in Streams : queue[i] = QueueWith(came, i)
  OBVIOUS
<1>9. \A s \in Signals : s[1] \in Streams /\ s[2] \in Nat \ {0}
  BY SignalIs, TransmissionAssumption
<1> DEFINE got == [s \in Signals |-> SampleFor(s, queue[s[1]])]
<1>10. /\ ReturnsAt(stop, n, queue)
       /\ inbox' = [i \in Streams |->
                      IF PopsFrom(i, stop)
                      THEN SubSeq(queue[i], Popped(i, queue[i]) + 1, Len(queue[i]))
                      ELSE queue[i]]
       /\ value' = [s \in Signals |->
                      IF Reaches(s, stop, n) /\ got[s] # NoSample THEN got[s] ELSE value[s]]
       /\ flag' = [s \in Signals |->
                      IF Reaches(s, stop, n) THEN FlagFor(s, got[s]) ELSE flag[s]]
       /\ skipped' = skipped \cup {i \in Streams : stop <= i /\ queue[i] # <<>>}
  BY <1>4 DEF StreamLoop
<1> HIDE DEF queue
<1>11. \A s \in Signals : got[s] = Got(came, s)
  BY <1>8, <1>9 DEF Got
<1> HIDE DEF got
<1>12. \A s \in Signals : Got(came, s) # NoSample => Got(came, s) \in Samples
  <2> SUFFICES ASSUME NEW s \in Signals, Got(came, s) # NoSample
               PROVE  Got(came, s) \in Samples
    OBVIOUS
  <2> DEFINE q == QueueWith(came, s[1])
  <2>1. q \in Queues /\ Popped(s[1], q) \in 0 .. Len(q) /\ Len(q) \in Nat
    BY <1>7, <1>9, PoppedIs, QueueIs
  <2>2. PICK k \in 1 .. Popped(s[1], q) : Got(came, s) = q[k]
    BY <2>1, SampleIs DEF Got
  <2> HIDE DEF q
  <2>3. k \in 1 .. Len(q)
    BY <2>1
  <2> QED
    BY <2>1, <2>2, <2>3, QueueIs
<1>13. ASSUME NEW i \in Streams
       PROVE  inbox'[i] \in Queues /\ StreamStep(i, came, stop)
  <2>1. i \notin skipped' => i \notin skipped /\ (i < stop \/ QueueWith(came, i) = <<>>)
    <3>1. i \in Nat
      BY TransmissionAssumption DEF Streams
    <3> QED
      BY <1>5, <1>8, <1>10, <3>1
  <2>2. inbox'[i] = IF PopsFrom(i, stop) THEN Rest(i, QueueWith(came, i)) ELSE QueueWith(came, i)
    BY <1>8, <1>10 DEF Rest
  <2> QED
    BY <1>7, <2>1, <2>2 DEF StreamStep
<1>14. inbox' \in Frames
  BY <1>10, <1>13 DEF Frames
<1>15. ASSUME NEW s \in Signals
       PROVE  /\ value'[s] \in Samples \cup {NoSample} /\ flag'[s] \in {0, 1}
              /\ SignalStep(s, came, stop, n)
  <2>1. value'[s] = IF Reaches(s, stop, n) /\ Got(came, s) # NoSample
                    THEN Got(came, s) ELSE value[s]
    BY <1>10, <1>11
  <2>2. flag'[s] = IF Reaches(s, stop, n) THEN FlagFor(s, Got(came, s)) ELSE flag[s]
    BY <1>10, <1>11
  <2>3. Reaches(s, stop, n) => PopsFrom(s[1], stop)
    <3>1. stop \in unknown => n = 0
      BY <1>10 DEF ReturnsAt
    <3> QED
      BY <1>5, <1>9, <3>1 DEF Reaches, PopsFrom
  <2>4. s[1] < stop => Reaches(s, stop, n)
    BY DEF Reaches
  <2>5. value[s] \in Samples \cup {NoSample} /\ flag[s] \in {0, 1}
    BY DEF TypeOK
  <2>6. flag'[s] \in {0, 1}
    BY <2>2, <2>5 DEF FlagFor
  <2>7. value'[s] \in Samples \cup {NoSample}
    BY <1>12, <2>1, <2>5
  <2> QED
    BY <2>1, <2>2, <2>3, <2>4, <2>6, <2>7 DEF SignalStep
<1>16. value' \in [Signals -> Samples \cup {NoSample}] /\ flag' \in [Signals -> {0, 1}]
  BY <1>10, <1>15
<1>17. network' = [c \in Channels |-> LaneAfter(came, c)]
  BY <1>2 DEF LaneAfter
<1>18. network' \in [Channels -> Seq(Frames)]
  <2>1. \A c \in Channels : LaneAfter(came, c) \in Seq(Frames)
    BY <1>6, TypesAre, TailIs DEF LaneAfter, MayCome
  <2> QED
    BY <1>17, <2>1
<1>19. skipped' \subseteq Streams /\ skipped \subseteq skipped'
  BY <1>10 DEF TypeOK
<1>20. Reception(came, stop, n)
  BY <1>6, <1>13, <1>15, <1>17 DEF Reception
<1> QED
  BY <1>1, <1>5, <1>6, <1>14, <1>16, <1>18, <1>19, <1>20

(* A stream is in order once the frames are in. *)
LEMMA ArrivedInOrder ==
  ASSUME TypeOK, NEW came, MayCome(came), NEW i \in Streams, StreamInOrder(i)
  PROVE  LET q    == QueueWith(came, i)
             rest == LaneAfter(came, ChannelOf[i])
         IN  /\ WayIs(i, q, rest, outbox[i], sends)
             /\ InOrder(i, q, rest, outbox[i], sends)
             /\ \A s \in Signals : s[1] = i /\ ValueInOrder(s)
                  => OlderThan(value[s].at, i, q, rest, outbox[i], sends)
<1> DEFINE lane == network[ChannelOf[i]]
           q == QueueWith(came, i)
           rest == LaneAfter(came, ChannelOf[i])
<1>1. WayIs(i, inbox[i], lane, outbox[i], sends) /\ \A s \in Signals : value[s].at \in Nat
  BY TypesAre
<1>2. /\ InOrder(i, inbox[i], lane, outbox[i], sends)
      /\ \A s \in Signals : s[1] = i /\ ValueInOrder(s)
           => OlderThan(value[s].at, i, inbox[i], lane, outbox[i], sends)
  BY DEF StreamInOrder, ValueInOrder
<1>3. /\ q = IF ChannelOf[i] \in came THEN inbox[i] \o lane[1][i] ELSE inbox[i]
      /\ q \in Queues /\ rest \in Seq(Frames)
      /\ ChannelOf[i] \in came => lane # <<>>
  BY QueueWithIs
<1>4. rest = IF ChannelOf[i] \in came THEN Tail(lane) ELSE lane
  BY DEF LaneAfter
<1> HIDE DEF lane, q, rest
<1>5. WayIs(i, q, rest, outbox[i], sends)
  BY <1>1, <1>3 DEF WayIs
<1>6. CASE ChannelOf[i] \in came
  <2>1. /\ InOrder(i, inbox[i] \o lane[1][i], Tail(lane), outbox[i], sends)
        /\ \A v \in Nat : OlderThan(v, i, inbox[i], lane, outbox[i], sends)
             => OlderThan(v, i, inbox[i] \o lane[1][i], Tail(lane), outbox[i], sends)
    BY <1>1, <1>2, <1>3, <1>6, ArrivalKeepsOrder
  <2>2. q = inbox[i] \o lane[1][i] /\ rest = Tail(lane)
    BY <1>3, <1>4, <1>6
  <2> QED
    BY <1>1, <1>2, <1>5, <2>1, <2>2 DEF q, rest
<1>7. CASE ChannelOf[i] \notin came
  <2>1. q = inbox[i] /\ rest = lane
    BY <1>3, <1>4, <1>7
  <2> QED
    BY <1>2, <1>5, <2>1 DEF q, rest
<1> QED
  BY <1>6, <1>7

(* Receiving keeps the order, and no signal gets older data than it has. *)
LEMMA ReceiveKeepsOrder ==
  ASSUME TypeOK, Receive,
         \A i \in Streams : StreamInOrder(i), \A s \in Signals : ValueInOrder(s)
  PROVE  /\ \A i \in Streams : StreamInOrder(i)'
         /\ \A s \in Signals : ValueInOrder(s)' /\ value'[s].at >= value[s].at
<1>1. sends' = sends /\ outbox' = outbox
  BY ReceiveIs
<1>2. PICK came : \E stop, n \in Nat : Reception(came, stop, n)
  BY ReceiveIs
<1>3. PICK stop \in Nat, n \in Nat : Reception(came, stop, n)
  BY <1>2
<1>4. ASSUME NEW i \in Streams
      PROVE  /\ StreamInOrder(i)'
             /\ \A s \in Signals : s[1] = i => ValueInOrder(s)' /\ value'[s].at >= value[s].at
  <2> DEFINE q == QueueWith(came, i)
             lane == LaneAfter(came, ChannelOf[i])
             out == outbox[i]
  <2>1. /\ WayIs(i, q, lane, out, sends)
        /\ InOrder(i, q, lane, out, sends)
        /\ \A s \in Signals : s[1] = i => OlderThan(value[s].at, i, q, lane, out, sends)
    BY <1>3, ArrivedInOrder DEF Reception
  <2>2. network'[ChannelOf[i]] = lane
    BY <1>3 DEF Reception, Channels
  <2>3. inbox'[i] = IF PopsFrom(i, stop) THEN Rest(i, q) ELSE q
    BY <1>3 DEF Reception, StreamStep
  <2>4. \A s \in Signals : s[1] = i =>
          /\ value'[s] = IF Reaches(s, stop, n) /\ SampleFor(s, q) # NoSample
                         THEN SampleFor(s, q) ELSE value[s]
          /\ Reaches(s, stop, n) => PopsFrom(i, stop)
    BY <1>3 DEF Reception, SignalStep, Got
  <2> HIDE DEF q, lane, out
  <2>5. q \in Queues /\ Popped(i, q) \in 0 .. Len(q)
    BY <2>1, PoppedIs DEF WayIs
  <2>6. /\ InOrder(i, Rest(i, q), lane, out, sends)
        /\ \A v \in Nat : OlderThan(v, i, q, lane, out, sends)
                            => OlderThan(v, i, Rest(i, q), lane, out, sends)
        /\ \A k \in 1 .. Popped(i, q) : OlderThan(q[k].at, i, Rest(i, q), lane, out, sends)
    BY <2>1, <2>5, PopKeepsOrder DEF Rest
  <2>7. StreamInOrder(i)'
    BY <1>1, <2>1, <2>2, <2>3, <2>6 DEF StreamInOrder, out
  <2>8. ASSUME NEW s \in Signals, s[1] = i
        PROVE  /\ OlderThan(value'[s].at, i, inbox'[i], lane, out, sends)
               /\ value'[s].at >= value[s].at
    <3>1. /\ value[s].at \in Nat
          /\ OlderThan(value[s].at, i, q, lane, out, sends)
          /\ OlderThan(value[s].at, i, inbox'[i], lane, out, sends)
      <4>1. value[s].at \in Nat
        BY TypesAre
      <4> QED
        BY <2>1, <2>3, <2>6, <2>8, <4>1
    <3>2. CASE ~(Reaches(s, stop, n) /\ SampleFor(s, q) # NoSample)
      <4>1. value'[s] = value[s]
        BY <2>4, <2>8, <3>2
      <4> QED
        BY <3>1, <4>1
    <3>3. CASE Reaches(s, stop, n) /\ SampleFor(s, q) # NoSample
      <4>1. PICK k \in 1 .. Popped(i, q) : SampleFor(s, q) = q[k]
        BY <2>5, <2>8, <3>3, SampleIs
      <4>2. value'[s] = q[k] /\ inbox'[i] = Rest(i, q)
        BY <2>3, <2>4, <2>8, <3>3, <4>1
      <4>3. Len(q) \in Nat /\ \A l \in 1 .. Len(q) : q[l].at \in Nat
        BY <2>5, QueueIs
      <4>4. k \in 1 .. Len(q)
        BY <2>5, <4>3
      <4>5. value[s].at <= q[k].at
        BY <3>1, <4>4 DEF OlderThan, NotBefore
      <4> QED
        BY <2>6, <3>1, <4>2, <4>3, <4>4, <4>5
    <3> QED
      BY <3>2, <3>3
  <2>9. ASSUME NEW s \in Signals, s[1] = i
        PROVE  ValueInOrder(s)'
    BY <1>1, <2>2, <2>8, <2>9 DEF ValueInOrder, out
  <2> QED
    BY <2>7, <2>8, <2>9
<1> QED
  BY <1>4, SignalIs

(* So does the loss of a frame. *)
LEMMA LoseKeepsOrder ==
  ASSUME TypeOK, NEW c \in Channels, Lose(c),
         \A i \in Streams : StreamInOrder(i), \A s \in Signals : ValueInOrder(s)
  PROVE  /\ network' \in [Channels -> Seq(Frames)]
         /\ \A i \in Streams : StreamInOrder(i)'
         /\ \A s \in Signals : ValueInOrder(s)'
<1>1. /\ network[c] # <<>> /\ network' = [network EXCEPT ![c] = Tail(@)]
      /\ UNCHANGED <<sends, outbox, inbox, value>>
  BY DEF Lose, received
<1>2. network \in [Channels -> Seq(Frames)] /\ \A s \in Signals : value[s].at \in Nat
  BY TypesAre
<1>3. network' \in [Channels -> Seq(Frames)]
  <2>1. Tail(network[c]) \in Seq(Frames)
    BY <1>1, <1>2, TailIs
  <2> QED
    BY <1>1, <1>2, <2>1
<1>4. ASSUME NEW i \in Streams
      PROVE  /\ StreamInOrder(i)'
             /\ \A s \in Signals : s[1] = i => ValueInOrder(s)'
  <2> DEFINE lane == network[ChannelOf[i]]
  <2>1. WayIs(i, inbox[i], lane, outbox[i], sends) /\ ChannelOf[i] \in Channels
    BY TypesAre
  <2>2. /\ InOrder(i, inbox[i], lane, outbox[i], sends)
        /\ \A s \in Signals : s[1] = i
             => OlderThan(value[s].at, i, inbox[i], lane, outbox[i], sends)
    BY DEF StreamInOrder, ValueInOrder
  <2>3. network'[ChannelOf[i]] = lane \/ (lane # <<>> /\ network'[ChannelOf[i]] = Tail(lane))
    BY <1>1, <1>2, <2>1
  <2> HIDE DEF lane
  <2>4. lane # <<>> =>
          /\ InOrder(i, inbox[i], Tail(lane), outbox[i], sends)
          /\ \A v \in Nat : OlderThan(v, i, inbox[i], lane, outbox[i], sends)
                              => OlderThan(v, i, inbox[i], Tail(lane), outbox[i], sends)
    BY <2>1, <2>2, LossKeepsOrder
  <2>5. StreamInOrder(i)'
    BY <1>1, <2>2, <2>3, <2>4 DEF StreamInOrder
  <2>6. ASSUME NEW s \in Signals, s[1] = i
        PROVE  ValueInOrder(s)'
    BY <1>1, <1>2, <2>2, <2>3, <2>4, <2>6 DEF ValueInOrder
  <2> QED
    BY <2>5, <2>6
<1> QED
  BY <1>3, <1>4, SignalIs

-----------------------------------------------------------------------------
(***************************************************************************)
(* Whole frames that arrive.                                               *)
(***************************************************************************)

(* A lane of whole frames keeps being one when its first frame is taken. *)
LEMMA WholeLane ==
  ASSUME NEW c \in Channels, NEW lane, AllWhole(c, lane), lane # <<>>
  PROVE  /\ AllWhole(c, Tail(lane))
         /\ \E m \in 1 .. MaxSends : lane[1] = WholeFrame(c, m)
<1>1. lane \in Seq(Frames)
  BY DEF AllWhole
<1>2. /\ Tail(lane) \in Seq(Frames) /\ 1 \in 1 .. Len(lane)
      /\ \A f \in 1 .. Len(Tail(lane)) : f + 1 \in 1 .. Len(lane) /\ Tail(lane)[f] = lane[f + 1]
  BY <1>1, TailIs
<1> QED
  BY <1>2 DEF AllWhole

(* The signals of stream i show the m-th send, or keep what they show. *)
ShowsSend(i, m) ==
  \A s \in Signals : s[1] = i => value'[s].at = m /\ s \in value'[s].for /\ flag'[s] = 1

KeepsData(i) ==
  \A s \in Signals : s[1] = i => value'[s] = value[s] /\ flag'[s] \in {0, flag[s]}

(* A stream with which the loop got through, or for which nothing waits. *)
LEMMA UnskippedStream ==
  ASSUME TypeOK, OnlyWholeBatches, whole,
         NEW came, NEW stop \in Nat, NEW n \in Nat, Reception(came, stop, n),
         NEW i \in Streams, i \notin skipped'
  PROVE  /\ inbox'[i] = <<>>
         /\ ChannelOf[i] \in came =>
              \A m \in 1 .. MaxSends :
                network[ChannelOf[i]][1] = WholeFrame(ChannelOf[i], m) => ShowsSend(i, m)
         /\ ChannelOf[i] \notin came => KeepsData(i)
<1> DEFINE c == ChannelOf[i]
           q == QueueWith(came, i)
<1>1. MayCome(came) /\ c \in Channels
  BY DEF Reception, Channels
<1>2. /\ q = IF c \in came THEN inbox[i] \o network[c][1][i] ELSE inbox[i]
      /\ q \in Queues /\ Rest(i, q) \in Queues
      /\ c \in came => network[c] # <<>>
  BY <1>1, QueueWithIs
<1>3. /\ i \notin skipped /\ (i < stop \/ q = <<>>)
      /\ inbox'[i] = IF PopsFrom(i, stop) THEN Rest(i, q) ELSE q
  BY DEF Reception, StreamStep
<1>4. inbox[i] = <<>> /\ AllWhole(c, network[c])
  BY <1>1, <1>3 DEF OnlyWholeBatches
<1>5. \A s \in Signals : s[1] = i =>
        /\ value'[s] = IF Reaches(s, stop, n) /\ SampleFor(s, q) # NoSample
                       THEN SampleFor(s, q) ELSE value[s]
        /\ flag'[s] = IF Reaches(s, stop, n) THEN FlagFor(s, SampleFor(s, q)) ELSE flag[s]
        /\ i < stop => Reaches(s, stop, n)
  BY DEF Reception, SignalStep, Got
<1> HIDE DEF q
<1>6. ASSUME Len(q) <= Batch(i)
      PROVE  Rest(i, q) = <<>>
  <2>1. Batch(i) \in Nat /\ Len(q) \in Nat
    BY <1>2, BatchIs, QueueIs
  <2>2. Popped(i, q) = Len(q)
    <3>1. Popped(i, q) = IF Batch(i) < Len(q) THEN Batch(i) ELSE Len(q)
      BY <1>2, BatchIs
    <3> QED
      BY <1>6, <2>1, <3>1
  <2>3. Rest(i, q) = SubSeq(q, Len(q) + 1, Len(q))
    BY <2>2 DEF Rest
  <2>4. Len(q) < Len(q) + 1 /\ Len(q) + 1 \in Int /\ Len(q) \in Int
    BY <2>1
  <2> QED
    BY <2>3, <2>4, SubSeqEmpty
<1>7. CASE c \in came
  <2> SUFFICES ASSUME NEW m \in 1 .. MaxSends, network[c][1] = WholeFrame(c, m)
               PROVE  inbox'[i] = <<>> /\ ShowsSend(i, m)
    BY <1>1, <1>2, <1>4, <1>7, WholeLane
  <2> DEFINE p == Pushes(i, AllSignals, m)
  <2>1. /\ p \in Queues /\ Len(p) = Batch(i) /\ p # <<>>
        /\ \A k \in 1 .. Len(p) : p[k].at = m
        /\ \A s \in Signals : s[1] = i => s \in p[Slot(s)].for
    BY WholePushIs
  <2>2. network[c][1][i] = p
    BY DEF WholeFrame, Frame
  <2> HIDE DEF p
  <2>3. q = p
    <3>1. p \in Seq(Samples)
      BY <2>1 DEF Queues
    <3> QED
      BY <1>2, <1>4, <1>7, <2>2, <3>1, ConcatEmptySeq
  <2>4. Batch(i) \in Nat /\ Len(q) = Batch(i) /\ i < stop
    BY <1>3, <2>1, <2>3, BatchIs
  <2>5. inbox'[i] = <<>>
    BY <1>3, <1>6, <2>4 DEF PopsFrom
  <2>6. ASSUME NEW s \in Signals, s[1] = i
        PROVE  value'[s].at = m /\ s \in value'[s].for /\ flag'[s] = 1
    <3> DEFINE d == SampleFor(s, q)
    <3>1. Slot(s) \in 1 .. Batch(i) /\ d = IF Slot(s) <= Len(q) THEN q[Slot(s)] ELSE NoSample
      BY <1>2, <2>6, BatchIs
    <3>2. /\ value'[s] = IF Reaches(s, stop, n) /\ d # NoSample THEN d ELSE value[s]
          /\ flag'[s] = IF Reaches(s, stop, n) THEN FlagFor(s, d) ELSE flag[s]
          /\ Reaches(s, stop, n)
      BY <1>5, <2>4, <2>6
    <3> HIDE DEF d
    <3>3. d = q[Slot(s)] /\ Slot(s) \in 1 .. Len(q)
      BY <2>4, <3>1
    <3>4. d.at = m /\ s \in d.for
      BY <2>1, <2>3, <2>6, <3>3
    <3>5. d # NoSample
      BY <3>4 DEF NoSample
    <3> QED
      BY <3>2, <3>4, <3>5 DEF FlagFor
  <2> QED
    BY <2>5, <2>6 DEF ShowsSend
<1>8. CASE c \notin came
  <2>1. q = <<>> /\ Len(q) = 0
    BY <1>2, <1>4, <1>8, NothingWaits
  <2>2. Batch(i) \in Nat /\ Len(q) <= Batch(i)
    BY <2>1, BatchIs
  <2>3. inbox'[i] = <<>>
    BY <1>3, <1>6, <2>1, <2>2
  <2>4. ASSUME NEW s \in Signals, s[1] = i
        PROVE  value'[s] = value[s] /\ flag'[s] \in {0, flag[s]}
    <3>1. SampleFor(s, q) = NoSample
      <4>1. Slot(s) \in 1 .. Batch(i) /\ Batch(i) \in Nat
        BY <2>4, BatchIs
      <4>2. SampleFor(s, q) = IF Slot(s) <= Len(q) THEN q[Slot(s)] ELSE NoSample
        BY <1>2, <2>4, BatchIs
      <4> QED
        BY <2>1, <4>1, <4>2
    <3>2. FlagFor(s, NoSample) \in {0, flag[s]}
      BY DEF FlagFor
    <3> QED
      BY <1>5, <2>4, <3>1, <3>2
  <2> QED
    BY <1>8, <2>3, <2>4 DEF KeepsData
<1> QED
  BY <1>7, <1>8

(* Receiving keeps batches whole, and each signal gets its own data. *)
LEMMA ReceiveKeepsWhole ==
  ASSUME TypeOK, OnlyWholeBatches, Receive
  PROVE  OnlyWholeBatches'
<1>1. whole' = whole /\ outbox' = outbox
  BY ReceiveIs
<1> SUFFICES ASSUME whole
             PROVE  OnlyWholeBatches'
  BY <1>1 DEF OnlyWholeBatches
<1>2. PICK came : \E stop, n \in Nat : Reception(came, stop, n)
  BY ReceiveIs
<1>3. PICK stop \in Nat, n \in Nat : Reception(came, stop, n)
  BY <1>2
<1>4. /\ outbox = NoSamples
      /\ \A c \in Channels : AllWhole(c, network[c])
      /\ \A i \in Streams : WholeQueue(i, inbox[i])
      /\ ReceivedMatchesSent
  BY DEF OnlyWholeBatches
<1>5. MayCome(came)
  BY <1>3 DEF Reception
<1>6. ASSUME NEW c \in Channels
      PROVE  AllWhole(c, network'[c])
  <2>1. network'[c] = LaneAfter(came, c)
    BY <1>3 DEF Reception
  <2>2. c \in came => network[c] # <<>>
    BY <1>5 DEF MayCome
  <2> QED
    BY <1>4, <2>1, <2>2, WholeLane DEF LaneAfter
<1>7. ASSUME NEW i \in Streams
      PROVE  QueueWith(came, i) \in Queues /\ WholeQueue(i, QueueWith(came, i))
  <2> DEFINE c == ChannelOf[i]
             q == QueueWith(came, i)
  <2>1. /\ q = IF c \in came THEN inbox[i] \o network[c][1][i] ELSE inbox[i]
        /\ q \in Queues
        /\ c \in came => network[c] # <<>>
    BY <1>5, QueueWithIs
  <2>2. c \in Channels /\ inbox[i] \in Queues /\ WholeQueue(i, inbox[i])
    BY <1>4, TypesAre DEF WayIs
  <2> HIDE DEF q
  <2>3. CASE c \in came
    <3>1. PICK m \in 1 .. MaxSends : network[c][1] = WholeFrame(c, m)
      BY <1>4, <2>1, <2>2, <2>3, WholeLane
    <3>2. network[c][1][i] = Pushes(i, AllSignals, m)
      BY <3>1 DEF WholeFrame, Frame
    <3>3. q = inbox[i] \o Pushes(i, AllSignals, m)
      BY <2>1, <2>3, <3>2
    <3> HIDE DEF c
    <3>4. WholeQueue(i, q)
      BY <2>2, <3>3, WholeConcat
    <3> QED
      BY <2>1, <3>4 DEF q
  <2>4. CASE c \notin came
    BY <2>1, <2>2, <2>4 DEF q
  <2> QED
    BY <2>3, <2>4
<1>8. ASSUME NEW i \in Streams
      PROVE  WholeQueue(i, inbox'[i]) /\ (i \notin skipped' => inbox'[i] = <<>>)
  <2>1. inbox'[i] = IF PopsFrom(i, stop) THEN Rest(i, QueueWith(came, i)) ELSE QueueWith(came, i)
    BY <1>3 DEF Reception, StreamStep
  <2>2. WholeQueue(i, Rest(i, QueueWith(came, i)))
    BY <1>7, WholeRest DEF Rest
  <2>3. i \notin skipped' => inbox'[i] = <<>>
    BY <1>3, UnskippedStream
  <2> QED
    BY <1>7, <2>1, <2>2, <2>3
<1>9. ReceivedMatchesSent'
  <2> SUFFICES ASSUME NEW s \in Signals, value'[s] # NoSample
               PROVE  s \in value'[s].for
    BY DEF ReceivedMatchesSent
  <2> DEFINE q == QueueWith(came, s[1])
  <2>1. value'[s] = IF Reaches(s, stop, n) /\ SampleFor(s, q) # NoSample
                    THEN SampleFor(s, q) ELSE value[s]
    BY <1>3 DEF Reception, SignalStep, Got
  <2>2. q \in Queues /\ WholeQueue(s[1], q)
    BY <1>7, SignalIs
  <2> HIDE DEF q
  <2>3. SampleFor(s, q) # NoSample => s \in SampleFor(s, q).for
    BY <2>2, WholeSample
  <2> QED
    BY <1>4, <2>1, <2>3 DEF ReceivedMatchesSent
<1> QED
  BY <1>1, <1>4, <1>6, <1>8, <1>9 DEF OnlyWholeBatches

(* It also keeps the signals of a channel at the data of one send, but for streams
   that it left with data waiting. *)
LEMMA ReceiveKeepsCoherent ==
  ASSUME TypeOK, OnlyWholeBatches, WholeSendsAreCoherent, Receive
  PROVE  WholeSendsAreCoherent'
<1>1. whole' = whole /\ skipped \subseteq skipped'
  BY ReceiveIs
<1>2. PICK came : \E stop, n \in Nat : Reception(came, stop, n)
  BY ReceiveIs
<1>3. PICK stop \in Nat, n \in Nat : Reception(came, stop, n)
  BY <1>2
<1> SUFFICES ASSUME whole, NEW s \in Signals, NEW t \in Signals,
                    s[1] \notin skipped', t[1] \notin skipped',
                    ChannelOf[s[1]] = ChannelOf[t[1]]
             PROVE  value'[s].at = value'[t].at
  BY <1>1 DEF WholeSendsAreCoherent
<1> DEFINE c == ChannelOf[s[1]]
<1>4. s[1] \in Streams /\ t[1] \in Streams
  BY SignalIs
<1>5. CASE c \in came
  <2>1. c \in Channels /\ network[c] # <<>> /\ AllWhole(c, network[c])
    BY <1>3, <1>5 DEF Reception, MayCome, OnlyWholeBatches
  <2>2. PICK m \in 1 .. MaxSends : network[c][1] = WholeFrame(c, m)
    BY <2>1, WholeLane
  <2>3. ASSUME NEW i \in Streams, i \notin skipped', ChannelOf[i] = c
        PROVE  ShowsSend(i, m)
    <3>1. ChannelOf[i] \in came /\ network[ChannelOf[i]][1] = WholeFrame(ChannelOf[i], m)
      BY <1>5, <2>2, <2>3
    <3> QED
      BY <1>3, <2>3, <3>1, UnskippedStream
  <2> QED
    BY <1>4, <2>3 DEF ShowsSend
<1>6. CASE c \notin came
  <2>1. value'[s] = value[s] /\ value'[t] = value[t]
    <3>1. KeepsData(s[1]) /\ KeepsData(t[1])
      BY <1>3, <1>4, <1>6, UnskippedStream
    <3> QED
      BY <3>1 DEF KeepsData
  <2>2. s[1] \notin skipped /\ t[1] \notin skipped
    BY <1>1
  <2> QED
    BY <2>1, <2>2 DEF WholeSendsAreCoherent
<1> QED
  BY <1>5, <1>6

-----------------------------------------------------------------------------
(***************************************************************************)
(* The invariant.                                                          *)
(***************************************************************************)

(* It holds before the first step of either simulation. *)
LEMMA InitInv == Init => TransmissionInv
<1> SUFFICES ASSUME Init
             PROVE  TransmissionInv
  OBVIOUS
<1>1. /\ sends = 0 /\ outbox = NoSamples /\ inbox = NoSamples /\ skipped = {}
      /\ \A c \in Channels : network[c] = <<>>
      /\ \A s \in Signals : value[s] = NoSample /\ value[s].at = 0
      /\ MaxSends \in Nat
  BY TransmissionAssumption DEF Init, NoSample
<1>2. <<>> \in Seq(Frames) /\ Len(<<>>) = 0 /\ 1 .. Len(<<>>) = {} /\ NoSamples \in Frames
  <2>1. <<>> \in Seq(Frames) /\ Len(<<>>) = 0
    BY EmptySeq
  <2>2. NoSamples \in Frames
    BY NothingWaits DEF NoSamples, Frames
  <2> QED
    BY <2>1, <2>2
<1>3. TypeOK
  <2>1. sends \in 0 .. MaxSends
    BY <1>1
  <2>2. outbox \in [Streams -> Seq(Samples)] /\ inbox \in [Streams -> Seq(Samples)]
    BY <1>1, <1>2 DEF Frames, Queues
  <2>3. network \in [Channels -> Seq([Streams -> Seq(Samples)])]
    BY <1>2 DEF Init, Frames, Queues
  <2>4. value \in [Signals -> Samples \cup {NoSample}] /\ flag \in [Signals -> {0, 1}]
    BY DEF Init
  <2>5. /\ status = "NONE" /\ whole \in BOOLEAN /\ lost \in BOOLEAN
        /\ unknown \subseteq MayBeUnknown /\ skipped \subseteq Streams
    BY DEF Init
  <2> QED
    BY <2>1, <2>2, <2>3, <2>4, <2>5 DEF TypeOK
<1>4. ASSUME NEW i \in Streams
      PROVE  network[ChannelOf[i]] = <<>> /\ inbox[i] = <<>> /\ outbox[i] = <<>>
  BY <1>1 DEF Channels, NoSamples
<1>5. \A i \in Streams : StreamInOrder(i)
  BY <1>2, <1>4, NothingWaits DEF StreamInOrder, InOrder
<1>6. \A s \in Signals : ValueInOrder(s)
  <2> SUFFICES ASSUME NEW s \in Signals
               PROVE  ValueInOrder(s)
    OBVIOUS
  <2>1. /\ network[ChannelOf[s[1]]] = <<>> /\ inbox[s[1]] = <<>> /\ outbox[s[1]] = <<>>
        /\ value[s].at <= sends
    BY <1>1, <1>4, SignalIs
  <2> QED
    BY <1>2, <2>1, NothingWaits DEF ValueInOrder, OlderThan
<1>7. OnlyWholeBatches
  <2>1. \A c \in Channels : AllWhole(c, network[c])
    BY <1>1, <1>2 DEF AllWhole
  <2>2. \A i \in Streams : WholeQueue(i, inbox[i])
    BY <1>4, NothingIsWhole
  <2>3. ReceivedMatchesSent
    BY <1>1 DEF ReceivedMatchesSent
  <2> QED
    BY <1>1, <1>4, <2>1, <2>2, <2>3 DEF OnlyWholeBatches
<1>8. WholeSendsAreCoherent
  BY <1>1 DEF WholeSendsAreCoherent
<1> QED
  BY <1>3, <1>5, <1>6, <1>7, <1>8 DEF TransmissionInv

(* Every step of the sender, the network and the receiver keeps it. *)
LEMMA StepInv == TransmissionInv /\ [Next]_vars => TransmissionInv'
<1> SUFFICES ASSUME TransmissionInv, [Next]_vars
             PROVE  TransmissionInv'
  OBVIOUS
<1>1. /\ TypeOK /\ OnlyWholeBatches /\ WholeSendsAreCoherent
      /\ \A i \in Streams : StreamInOrder(i)
      /\ \A s \in Signals : ValueInOrder(s)
  BY DEF TransmissionInv
<1>2. CASE Send
  <2>1. /\ sends + 1 \in 1 .. MaxSends /\ sends' = sends + 1
        /\ UNCHANGED <<lost, unknown, inbox, value, flag, skipped>>
        /\ status' \in {"SEND_OK", "SEND_PUSHED_SAMPLES_FAILURE"}
                       \cup UNION {FailureStatuses(k) : k \in Kinds}
        /\ whole' \in BOOLEAN
    BY <1>1, <1>2, SendIs
  <2>2. /\ outbox' \in Frames /\ network' \in [Channels -> Seq(Frames)]
        /\ \A i \in Streams : StreamInOrder(i)'
        /\ \A s \in Signals : ValueInOrder(s)'
    BY <1>1, <1>2, SendKeepsOrder
  <2>3. sends' \in 0 .. MaxSends
    BY <2>1, TransmissionAssumption
  <2>4. TypeOK'
    BY <1>1, <2>1, <2>2, <2>3 DEF TypeOK, Frames, Queues
  <2>5. OnlyWholeBatches'
    BY <1>1, <1>2, SendKeepsWhole
  <2>6. WholeSendsAreCoherent'
    <3>1. whole' => whole
      BY <1>1, <1>2, WholeSendIs
    <3> QED
      BY <1>1, <2>1, <3>1 DEF WholeSendsAreCoherent
  <2> QED
    BY <2>2, <2>4, <2>5, <2>6 DEF TransmissionInv
<1>3. CASE \E c \in Channels : Lose(c)
  <2>1. PICK c \in Channels : Lose(c)
    BY <1>3
  <2>2. /\ network[c] # <<>> /\ network' = [network EXCEPT ![c] = Tail(@)] /\ lost' = TRUE
        /\ UNCHANGED <<sends, outbox, status, whole, unknown, inbox, value, flag, skipped>>
    BY <2>1 DEF Lose, received
  <2>3. /\ network' \in [Channels -> Seq(Frames)]
        /\ \A i \in Streams : StreamInOrder(i)'
        /\ \A s \in Signals : ValueInOrder(s)'
    BY <1>1, <2>1, LoseKeepsOrder
  <2>4. TypeOK'
    BY <1>1, <2>2, <2>3 DEF TypeOK, Frames, Queues
  <2>5. OnlyWholeBatches'
    <3> SUFFICES ASSUME whole
                 PROVE  \A k \in Channels : AllWhole(k, network'[k])
      BY <1>1, <2>2 DEF OnlyWholeBatches, ReceivedMatchesSent
    <3>1. \A k \in Channels : AllWhole(k, network[k])
      BY <1>1 DEF OnlyWholeBatches
    <3>2. AllWhole(c, Tail(network[c]))
      BY <2>2, <3>1, WholeLane
    <3>3. \A k \in Channels : network'[k] = IF k = c THEN Tail(network[c]) ELSE network[k]
      BY <1>1, <2>2, TypesAre
    <3> QED
      BY <3>1, <3>2, <3>3
  <2>6. WholeSendsAreCoherent'
    BY <1>1, <2>2 DEF WholeSendsAreCoherent
  <2> QED
    BY <2>3, <2>4, <2>5, <2>6 DEF TransmissionInv
<1>4. CASE Receive
  <2>1. /\ UNCHANGED <<sends, outbox, status, whole, lost, unknown>>
        /\ network' \in [Channels -> Seq(Frames)]
        /\ inbox' \in Frames
        /\ value' \in [Signals -> Samples \cup {NoSample}]
        /\ flag' \in [Signals -> {0, 1}]
        /\ skipped' \subseteq Streams
    BY <1>1, <1>4, ReceiveIs
  <2>2. TypeOK'
    BY <1>1, <2>1 DEF TypeOK, Frames, Queues
  <2>3. /\ \A i \in Streams : StreamInOrder(i)'
        /\ \A s \in Signals : ValueInOrder(s)'
    BY <1>1, <1>4, ReceiveKeepsOrder
  <2>4. OnlyWholeBatches' /\ WholeSendsAreCoherent'
    BY <1>1, <1>4, ReceiveKeepsWhole, ReceiveKeepsCoherent
  <2> QED
    BY <2>2, <2>3, <2>4 DEF TransmissionInv
<1>5. CASE ReceiveNothing \/ UNCHANGED vars
  <2>1. UNCHANGED <<sends, outbox, network, inbox, value, status, whole, lost, unknown, skipped>>
    BY <1>5 DEF ReceiveNothing, vars, received
  <2>2. flag' \in [Signals -> {0, 1}]
    BY <1>1, <1>5 DEF ReceiveNothing, vars, received, TypeOK
  <2>3. TypeOK'
    BY <1>1, <2>1, <2>2 DEF TypeOK
  <2>4. /\ \A i \in Streams : StreamInOrder(i)'
        /\ \A s \in Signals : ValueInOrder(s)'
    BY <1>1, <2>1 DEF StreamInOrder, ValueInOrder
  <2>5. OnlyWholeBatches'
    BY <1>1, <2>1 DEF OnlyWholeBatches, ReceivedMatchesSent
  <2>6. WholeSendsAreCoherent'
    BY <1>1, <2>1 DEF WholeSendsAreCoherent
  <2> QED
    BY <2>3, <2>4, <2>5, <2>6 DEF TransmissionInv
<1> QED
  BY <1>2, <1>3, <1>4, <1>5 DEF Next

(* The invariant holds in every state of the two simulations. *)
LEMMA InvHolds == Spec => []TransmissionInv
<1> QED
  BY InitInv, StepInv, PTL DEF Spec

-----------------------------------------------------------------------------
(***************************************************************************)
(* The theorems.                                                           *)
(***************************************************************************)

(* Every variable stays in its domain: in particular no sample is ever for a signal
   that its stream does not have, and the flags are 0 or 1. *)
THEOREM TypeCorrect == Spec => []TypeOK
<1>1. TransmissionInv => TypeOK
  BY DEF TransmissionInv
<1> QED
  BY <1>1, InvHolds, PTL

(* While every call of Send::outputs pushed all the signals and was completed, the
   receive loop, which goes by the position of a sample only, gives each signal data
   that was sent for it, wherever the loop returned. *)
THEOREM PositionsAreEnough == Spec => []WholeSendsMatch
<1>1. TransmissionInv => WholeSendsMatch
  BY DEF TransmissionInv, OnlyWholeBatches, WholeSendsMatch
<1> QED
  BY <1>1, InvHolds, PTL

(* Then the signals of a channel show the data of one same step of the sender, although
   each stream has its own samples.  Excepted are the streams that a call which returned
   early left with data waiting: they have not caught up by then, or never. *)
THEOREM StepsAreNotMixed == Spec => []WholeSendsAreCoherent
<1>1. TransmissionInv => WholeSendsAreCoherent
  BY DEF TransmissionInv
<1> QED
  BY <1>1, InvHolds, PTL

(* Whatever is refused, lost, or left behind by a call that returned early, no signal
   of the receiver is ever overwritten with older data. *)
THEOREM DataOnlyGetsNewer == Spec => NeverGoesBack
<1>1. TransmissionInv /\ [Next]_vars
        => [\A s \in Signals : value'[s].at >= value[s].at]_vars
  <2> SUFFICES ASSUME TransmissionInv, Next, NEW s \in Signals
               PROVE  value'[s].at >= value[s].at
    BY DEF vars
  <2>1. /\ TypeOK
        /\ \A i \in Streams : StreamInOrder(i)
        /\ \A t \in Signals : ValueInOrder(t)
    BY DEF TransmissionInv
  <2>2. value[s].at \in Nat
    BY <2>1, TypesAre
  <2>3. CASE Receive
    BY <2>1, <2>3, ReceiveKeepsOrder
  <2>4. CASE ~Receive
    <3>1. value' = value
      BY <2>4 DEF Next, Send, Lose, ReceiveNothing, received
    <3> QED
      BY <2>2, <3>1
  <2> QED
    BY <2>3, <2>4
<1> QED
  BY <1>1, InvHolds, PTL DEF Spec, NeverGoesBack

-----------------------------------------------------------------------------
(***************************************************************************)
(* The refinement of Delivery.                                             *)
(***************************************************************************)

(* The steps that the frames of a lane are of, oldest first: this is the line that
   waits in Delivery. *)
Line(lane) == [f \in DOMAIN lane |-> StepOf(lane[f])]

(* The step of a whole frame. *)
LEMMA StepOfWhole ==
  ASSUME NEW c \in Channels, NEW n \in 1 .. MaxSends
  PROVE  StepOf(WholeFrame(c, n)) = n
<1> DEFINE frame == WholeFrame(c, n)
           first == CHOOSE i \in Streams : frame[i] # <<>>
<1>1. PICK k \in Streams : ChannelOf[k] = c
  BY DEF Channels
<1>2. \A i \in Streams :
        frame[i] = IF ChannelOf[i] = c THEN Pushes(i, AllSignals, n) ELSE <<>>
  BY DEF WholeFrame, Frame
<1> HIDE DEF frame
<1>3. \E i \in Streams : frame[i] # <<>>
  BY <1>1, <1>2, WholePushIs
<1>4. first \in Streams /\ frame[first] # <<>>
  BY <1>3
<1> HIDE DEF first
<1>5. frame[first] = Pushes(first, AllSignals, n)
  BY <1>2, <1>4
<1>6. frame[first][1].at = n
  <2> DEFINE q == Pushes(first, AllSignals, n)
  <2>1. Len(q) = Batch(first) /\ \A l \in 1 .. Len(q) : q[l].at = n
    BY <1>4, WholePushIs
  <2>2. Batch(first) \in Nat \ {0}
    BY <1>4, BatchIs
  <2> HIDE DEF q
  <2>3. 1 \in 1 .. Len(q)
    BY <2>1, <2>2
  <2> QED
    BY <1>5, <2>1, <2>3 DEF q
<1> QED
  BY <1>6 DEF StepOf, frame, first

(* The line is a sequence of numbers, one for each frame. *)
LEMMA LineIs ==
  ASSUME NEW c \in Channels, NEW lane, AllWhole(c, lane)
  PROVE  /\ Line(lane) \in Seq(Nat) /\ Len(Line(lane)) = Len(lane) /\ Len(lane) \in Nat
         /\ \A f \in 1 .. Len(lane) : Line(lane)[f] = StepOf(lane[f])
<1>1. DOMAIN lane = 1 .. Len(lane) /\ Len(lane) \in Nat
  BY LenProperties DEF AllWhole
<1>2. \A f \in 1 .. Len(lane) : StepOf(lane[f]) \in Nat
  BY StepOfWhole DEF AllWhole
<1>3. /\ Line(lane) \in [1 .. Len(lane) -> Nat]
      /\ \A f \in 1 .. Len(lane) : Line(lane)[f] = StepOf(lane[f])
  BY <1>1, <1>2 DEF Line
<1>4. Line(lane) \in Seq(Nat)
  BY <1>1, <1>3, SeqDef
<1>5. Len(Line(lane)) = Len(lane)
  BY <1>1, <1>3, <1>4, LenProperties
<1> QED
  BY <1>1, <1>3, <1>4, <1>5

(* A frame that is sent is a step appended to the line. *)
LEMMA LineGrows ==
  ASSUME NEW c \in Channels, NEW lane, AllWhole(c, lane),
         NEW n \in 1 .. MaxSends, WholeFrame(c, n) \in Frames,
         AllWhole(c, Append(lane, WholeFrame(c, n)))
  PROVE  Line(Append(lane, WholeFrame(c, n))) = Append(Line(lane), n)
<1> DEFINE P == WholeFrame(c, n)
           more == Append(lane, P)
           p == Line(lane)
           q == Line(more)
<1>1. /\ Len(more) = Len(lane) + 1 /\ more[Len(lane) + 1] = P
      /\ \A f \in 1 .. Len(lane) : more[f] = lane[f]
  BY AppendIs DEF AllWhole
<1>2. /\ p \in Seq(Nat) /\ Len(p) = Len(lane) /\ Len(lane) \in Nat
      /\ \A f \in 1 .. Len(lane) : p[f] = StepOf(lane[f])
  BY LineIs
<1>3. /\ q \in Seq(Nat) /\ Len(q) = Len(more)
      /\ \A f \in 1 .. Len(more) : q[f] = StepOf(more[f])
  BY LineIs
<1>4. StepOf(P) = n /\ n \in Nat
  BY StepOfWhole
<1> HIDE DEF P, more, p, q
<1>5. /\ Append(p, n) \in Seq(Nat) /\ Len(Append(p, n)) = Len(p) + 1
      /\ \A f \in 1 .. Len(p) : Append(p, n)[f] = p[f]
      /\ Append(p, n)[Len(p) + 1] = n
  BY <1>2, <1>4, AppendProperties
<1>6. \A f \in 1 .. Len(more) : f \in 1 .. Len(lane) \/ f = Len(lane) + 1
  BY <1>1, <1>2
<1>7. \A f \in 1 .. Len(lane) : f \in 1 .. Len(more)
  BY <1>1, <1>2
<1>8. Len(lane) + 1 \in 1 .. Len(more)
  BY <1>1, <1>2
<1>9. \A f \in 1 .. Len(q) : q[f] = Append(p, n)[f]
  BY <1>1, <1>2, <1>3, <1>4, <1>5, <1>6, <1>7, <1>8
<1>10. q = Append(p, n)
  BY <1>1, <1>2, <1>3, <1>5, <1>9, SeqEqual
<1> QED
  BY <1>10 DEF q, p, more, P

(* A frame that is lost or received is the oldest step of the line. *)
LEMMA LineShrinks ==
  ASSUME NEW c \in Channels, NEW lane, AllWhole(c, lane), lane # <<>>
  PROVE  /\ Line(lane) # <<>> /\ Head(Line(lane)) = StepOf(lane[1])
         /\ Line(Tail(lane)) = Tail(Line(lane))
<1> DEFINE rest == Tail(lane)
           p == Line(lane)
           q == Line(rest)
<1>1. /\ 1 \in 1 .. Len(lane) /\ Len(rest) = Len(lane) - 1
      /\ \A f \in 1 .. Len(rest) : rest[f] = lane[f + 1]
  BY EmptySeq, HeadTailProperties DEF AllWhole
<1>2. /\ p \in Seq(Nat) /\ Len(p) = Len(lane) /\ Len(lane) \in Nat
      /\ \A f \in 1 .. Len(lane) : p[f] = StepOf(lane[f])
  BY LineIs
<1>3. /\ q \in Seq(Nat) /\ Len(q) = Len(rest)
      /\ \A f \in 1 .. Len(rest) : q[f] = StepOf(rest[f])
  BY WholeLane, LineIs
<1> HIDE DEF rest, p, q
<1>4. p # <<>> /\ Head(p) = p[1]
  BY <1>1, <1>2, EmptySeq
<1>5. /\ Tail(p) \in Seq(Nat) /\ Len(Tail(p)) = Len(p) - 1
      /\ \A f \in 1 .. Len(Tail(p)) : Tail(p)[f] = p[f + 1]
  BY <1>2, <1>4, HeadTailProperties
<1>6. \A f \in 1 .. Len(rest) : f + 1 \in 1 .. Len(lane)
  BY <1>1, <1>2
<1>7. \A f \in 1 .. Len(q) : q[f] = Tail(p)[f]
  BY <1>1, <1>2, <1>3, <1>5, <1>6
<1>8. q = Tail(p)
  BY <1>1, <1>2, <1>3, <1>5, <1>7, SeqEqual
<1> QED
  BY <1>1, <1>2, <1>4, <1>8 DEF p, q, rest

(* The lines of all channels, and the steps that all signals show. *)
Lanes == [c \in Channels |-> Line(network[c])]
Shown == [s \in Signals |-> StepShown(s)]

(* What the invariant says of the frames on their way. *)
LEMMA LanesAreWhole ==
  ASSUME TransmissionInv, whole, NEW c \in Channels
  PROVE  AllWhole(c, network[c])
BY DEF TransmissionInv, OnlyWholeBatches

(* A whole send is a step of the abstract sender. *)
LEMMA SendIsStep ==
  ASSUME TransmissionInv, TransmissionInv', Send, whole'
  PROVE  Promise!SendStep
<1> DEFINE n == sends + 1
<1>1. TypeOK /\ OnlyWholeBatches
  BY DEF TransmissionInv
<1>2. /\ whole /\ n \in 1 .. MaxSends
      /\ \A c \in Channels : WholeFrame(c, n) \in Frames
      /\ network' = [c \in Channels |-> Append(network[c], WholeFrame(c, n))]
  BY <1>1, WholeSendIs
<1>3. sends' = n /\ UNCHANGED <<value, flag>>
  BY <1>1, SendIs
<1> HIDE DEF n
<1>4. \A c \in Channels : Line(network'[c]) = Append(Line(network[c]), n)
  <2> SUFFICES ASSUME NEW c \in Channels
               PROVE  Line(network'[c]) = Append(Line(network[c]), n)
    OBVIOUS
  <2>1. AllWhole(c, network[c]) /\ AllWhole(c, network'[c])
    BY <1>2, LanesAreWhole DEF TransmissionInv, OnlyWholeBatches
  <2>2. network'[c] = Append(network[c], WholeFrame(c, n))
    BY <1>2
  <2> QED
    BY <1>2, <2>1, <2>2, LineGrows
<1>5. Lanes' = [c \in Channels |-> Append(Lanes[c], n)]
  BY <1>4 DEF Lanes
<1>6. Shown' = Shown
  BY <1>3 DEF Shown, StepShown
<1> QED
  BY <1>3, <1>5, <1>6 DEF Promise!SendStep, Lanes, Line, Shown, n

(* A frame that the network loses is a step that is lost. *)
LEMMA LoseIsStep ==
  ASSUME TransmissionInv, NEW c \in Channels, Lose(c), whole
  PROVE  Promise!LoseStep(c)
<1>1. /\ network[c] # <<>> /\ network' = [network EXCEPT ![c] = Tail(@)]
      /\ UNCHANGED <<sends, value, flag>>
  BY DEF Lose, received
<1>2. network \in [Channels -> Seq(Frames)]
  BY TypesAre DEF TransmissionInv
<1>3. Line(network[c]) # <<>> /\ Line(Tail(network[c])) = Tail(Line(network[c]))
  BY <1>1, LanesAreWhole, LineShrinks
<1>4. \A k \in Channels :
        Line(network'[k]) = IF k = c THEN Tail(Line(network[c])) ELSE Line(network[k])
  BY <1>1, <1>2, <1>3
<1>5. Lanes[c] # <<>> /\ Lanes' = [Lanes EXCEPT ![c] = Tail(@)]
  BY <1>3, <1>4 DEF Lanes
<1>6. Shown' = Shown
  BY <1>1 DEF Shown, StepShown
<1> QED
  BY <1>1, <1>5, <1>6 DEF Promise!LoseStep, Lanes, Line, Shown

(* The receive loop, which copies sample by sample, shows one step in all signals of
   each channel from which a frame came. *)
LEMMA ReceiveIsStep ==
  ASSUME TransmissionInv, TransmissionInv', Receive, whole', skipped' = {}
  PROVE  \E came \in SUBSET Channels : Promise!ShowSteps(came)
<1>1. TypeOK /\ OnlyWholeBatches
  BY DEF TransmissionInv
<1>2. /\ UNCHANGED <<sends, whole>> /\ whole
      /\ flag' \in [Signals -> {0, 1}]
  BY <1>1, ReceiveIs
<1>3. PICK came : \E stop, n \in Nat : Reception(came, stop, n)
  BY <1>1, ReceiveIs
<1>4. PICK stop \in Nat, n \in Nat : Reception(came, stop, n)
  BY <1>3
<1>5. /\ came \in SUBSET Channels /\ \A c \in came : network[c] # <<>>
      /\ network' = [c \in Channels |-> LaneAfter(came, c)]
  BY <1>4 DEF Reception, MayCome
<1>6. ASSUME NEW c \in came
      PROVE  /\ c \in Channels /\ Lanes[c] # <<>>
             /\ Line(Tail(network[c])) = Tail(Lanes[c])
             /\ Head(Lanes[c]) \in 1 .. MaxSends
             /\ network[c][1] = WholeFrame(c, Head(Lanes[c]))
  <2>1. c \in Channels /\ AllWhole(c, network[c]) /\ network[c] # <<>>
    BY <1>2, <1>5, LanesAreWhole
  <2>2. /\ Line(network[c]) # <<>> /\ Head(Line(network[c])) = StepOf(network[c][1])
        /\ Line(Tail(network[c])) = Tail(Line(network[c]))
    BY <2>1, LineShrinks
  <2>3. PICK m \in 1 .. MaxSends : network[c][1] = WholeFrame(c, m)
    BY <2>1, WholeLane
  <2>4. Lanes[c] = Line(network[c]) /\ StepOf(network[c][1]) = m
    BY <2>1, <2>3, StepOfWhole DEF Lanes
  <2> QED
    BY <2>1, <2>2, <2>3, <2>4
<1>7. Lanes' = [c \in Channels |-> IF c \in came THEN Tail(Lanes[c]) ELSE Lanes[c]]
  <2>1. \A c \in Channels :
          Line(network'[c]) = IF c \in came THEN Tail(Lanes[c]) ELSE Lanes[c]
    BY <1>5, <1>6 DEF LaneAfter, Lanes
  <2> QED
    BY <2>1 DEF Lanes
<1>8. ASSUME NEW s \in Signals
      PROVE  /\ StepShown(s)' = IF ChannelOf[s[1]] \in came
                                THEN Head(Lanes[ChannelOf[s[1]]]) ELSE StepShown(s)
             /\ IF ChannelOf[s[1]] \in came THEN flag'[s] = 1 ELSE flag'[s] \in {0, flag[s]}
  <2>1. s[1] \in Streams /\ s[1] \notin skipped'
    BY SignalIs
  <2>2. CASE ChannelOf[s[1]] \in came
    <3>1. ShowsSend(s[1], Head(Lanes[ChannelOf[s[1]]]))
      BY <1>1, <1>2, <1>4, <1>6, <2>1, <2>2, UnskippedStream
    <3> QED
      BY <2>2, <3>1 DEF ShowsSend, StepShown
  <2>3. CASE ChannelOf[s[1]] \notin came
    <3>1. KeepsData(s[1])
      BY <1>1, <1>2, <1>4, <2>1, <2>3, UnskippedStream
    <3> QED
      BY <2>3, <3>1 DEF KeepsData, StepShown
  <2> QED
    BY <2>2, <2>3
<1> DEFINE lineOf == [s \in Signals |-> ChannelOf[s[1]]]
<1>9. /\ Shown' = [s \in Signals |-> IF lineOf[s] \in came THEN Head(Lanes[lineOf[s]]) ELSE Shown[s]]
      /\ \A s \in Signals : IF lineOf[s] \in came THEN flag'[s] = 1 ELSE flag'[s] \in {0, flag[s]}
  BY <1>8 DEF Shown
<1>10. Promise!ShowSteps(came)
  BY <1>2, <1>6, <1>7, <1>9 DEF Promise!ShowSteps, Promise!Signals, Lanes, Line, Shown
<1> QED
  BY <1>5, <1>10

(* A call that got no frame shows no step; it clears the flags. *)
LEMMA NothingIsStep ==
  ASSUME TransmissionInv, ReceiveNothing
  PROVE  Promise!ShowSteps({})
<1>1. UNCHANGED <<sends, network, value>> /\ flag' = [s \in Signals |-> 0]
  BY DEF ReceiveNothing
<1>2. Lanes' = Lanes /\ Shown' = Shown
  BY <1>1 DEF Lanes, Shown, StepShown
<1>3. /\ Lanes = [c \in Channels |-> Lanes[c]]
      /\ Shown = [s \in Signals |-> Shown[s]]
  BY DEF Lanes, Shown
<1> QED
  BY <1>1, <1>2, <1>3 DEF Promise!ShowSteps, Promise!Signals, Lanes, Line, Shown

(* While every call of Send::outputs pushes all signals and is completed, and no call of
   receive returned early with data waiting, the stacks of the streams, the loops over
   the signals and the attribution by position come to no more than what Delivery says:
   a line of steps per channel, each of them lost or shown, as a whole and in the order
   in which they were sent, with flags that say when. *)
THEOREM WholeSendsAreDelivered == Spec => WholeSendsAreSteps
<1>1. Init => Promise!Init
  <2> SUFFICES ASSUME Init
               PROVE  Promise!Init
    OBVIOUS
  <2>1. sends = 0 /\ flag \in [Signals -> {0, 1}]
    BY DEF Init
  <2>2. Lanes = [c \in Channels |-> <<>>]
    BY DEF Init, Lanes, Line
  <2>3. Shown = [s \in Signals |-> 0]
    BY DEF Init, Shown, StepShown, NoSample
  <2> QED
    BY <2>1, <2>2, <2>3 DEF Promise!Init, Promise!Signals, Lanes, Line, Shown
<1>2. TransmissionInv /\ TransmissionInv' /\ [Next]_vars
        => [whole' /\ skipped' = {} => Promise!Next]_(Promise!vars)
  <2> SUFFICES ASSUME TransmissionInv, TransmissionInv', [Next]_vars, whole', skipped' = {}
               PROVE  Promise!Next \/ UNCHANGED Promise!vars
    OBVIOUS
  <2>1. CASE Send
    BY <2>1, SendIsStep DEF Promise!Next
  <2>2. CASE \E c \in Channels : Lose(c)
    <3>1. PICK c \in Channels : Lose(c)
      BY <2>2
    <3>2. whole
      BY <3>1 DEF Lose
    <3> QED
      BY <3>1, <3>2, LoseIsStep DEF Promise!Next
  <2>3. CASE Receive
    BY <2>3, ReceiveIsStep DEF Promise!Next
  <2>4. CASE ReceiveNothing
    <3>1. Promise!ShowSteps({}) /\ {} \in SUBSET Channels
      BY <2>4, NothingIsStep
    <3> QED
      BY <3>1 DEF Promise!Next
  <2>5. CASE UNCHANGED vars
    BY <2>5 DEF vars, received, Promise!vars, StepShown
  <2> QED
    BY <2>1, <2>2, <2>3, <2>4, <2>5 DEF Next
<1> QED
  BY <1>1, <1>2, InvHolds, PTL DEF Spec, WholeSendsAreSteps
=============================================================================
