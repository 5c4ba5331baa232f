------------------------------ MODULE PortsProofs ------------------------------
(***************************************************************************)
(* Proofs about Ports, for any files, with any number of signals.          *)
(*                                                                         *)
(* Numbers.  The k-th signal has its first port at Before(k), the number   *)
(* of ports of the signals in front of it.  This grows by 1 or, if the     *)
(* signal has a refresh port, by 2; so each port p belongs to the only     *)
(* signal k with Before(k) <= p < Before(k + 1).                           *)
(*                                                                         *)
(* Labels.  What the ports carry and what the masks write on them are both *)
(* lists of slots in their order (CarriesIs, LabelsAre), and a set of      *)
(* pairs has one such list only (OneList).  So they agree exactly if the   *)
(* mask lists the signals that the connector lists, in the same order: in  *)
(* the mask's list, an A825 message and another one are never in the order *)
(* of the file but always in the one that ListedOrder says.                *)
(*                                                                         *)
(* Wires.  When the refresh ports are struck out of the ports 1 .. l, the  *)
(* k-th one left has k - 1 of those left in front of it (RemainingAt),     *)
(* while the data of the k-th signal is behind k - 1 signals and the       *)
(* refresh ports of those (LabelPlace); the counts are compared.           *)
(***************************************************************************)
EXTENDS Ports, FiniteSetTheorems, SequenceTheorems, WellFoundedInduction, TLAPS

(* A list of signals, as far as the loops need it: a sequence of records that have
   what is written and what is read. *)
IsSignals(signals, n) ==
  /\ n \in Nat /\ DOMAIN signals = 1 .. n /\ signals = [k \in 1 .. n |-> signals[k]]
  /\ \A k \in 1 .. n : \E i, j, s, direction : signals[k] = Signal(i, j, s, direction)

(* The signals with a refresh port among the first m. *)
Refreshed(signals, enabled, m) == {k \in 1 .. m : HasPort(signals[k], enabled)}

(* The ports of the signals in front of the k-th. *)
Before(signals, enabled, k) == k - 1 + Cardinality(Refreshed(signals, enabled, k - 1))

-----------------------------------------------------------------------------
(* Arithmetic of the loop that counts the ports. *)

(* The signals with refresh are finitely many. *)
LEMMA RefreshedFinite ==
  ASSUME NEW signals, NEW enabled, NEW m \in Nat
  PROVE  /\ IsFiniteSet(Refreshed(signals, enabled, m))
         /\ Cardinality(Refreshed(signals, enabled, m)) \in Nat
<1>1. IsFiniteSet(1 .. m)
  BY FS_Interval
<1>2. Refreshed(signals, enabled, m) \subseteq 1 .. m
  BY DEF Refreshed
<1> HIDE DEF Refreshed
<1> QED
  BY <1>1, <1>2, FS_Subset, FS_CardinalityType

(* The numbering starts with 0. *)
LEMMA BeforeFirst ==
  ASSUME NEW signals, NEW enabled
  PROVE  Before(signals, enabled, 1) = 0
<1>1. Refreshed(signals, enabled, 0) = {}
  BY DEF Refreshed
<1>2. Before(signals, enabled, 1) = 0 + Cardinality(Refreshed(signals, enabled, 0))
  BY DEF Before
<1> QED
  BY <1>1, <1>2, FS_EmptySet

(* A signal takes one port, or two if it has a refresh port. *)
LEMMA BeforeNext ==
  ASSUME NEW signals, NEW enabled, NEW k \in Nat, k >= 1
  PROVE  /\ Before(signals, enabled, k) \in Nat
         /\ HasPort(signals[k], enabled) =>
              Before(signals, enabled, k + 1) = Before(signals, enabled, k) + 2
         /\ ~HasPort(signals[k], enabled) =>
              Before(signals, enabled, k + 1) = Before(signals, enabled, k) + 1
<1> DEFINE R(m) == Refreshed(signals, enabled, m)
<1>1. k - 1 \in Nat
  OBVIOUS
<1>2. IsFiniteSet(R(k - 1)) /\ Cardinality(R(k - 1)) \in Nat
  BY <1>1, RefreshedFinite
<1>3. Before(signals, enabled, k) = k - 1 + Cardinality(R(k - 1))
  BY DEF Before
<1>4. Before(signals, enabled, k + 1) = k + Cardinality(R(k))
  <2>1. k + 1 - 1 = k
    OBVIOUS
  <2> QED
    BY <2>1 DEF Before
<1>5. k \notin R(k - 1)
  BY DEF Refreshed
<1>6. ASSUME HasPort(signals[k], enabled)
      PROVE  Cardinality(R(k)) = Cardinality(R(k - 1)) + 1
  <2>1. R(k) = R(k - 1) \cup {k}
    BY <1>6 DEF Refreshed
  <2> HIDE DEF R
  <2> QED
    BY <1>2, <1>5, <2>1, FS_AddElement
<1>7. ASSUME ~HasPort(signals[k], enabled)
      PROVE  Cardinality(R(k)) = Cardinality(R(k - 1))
  <2>1. R(k) = R(k - 1)
    BY <1>7 DEF Refreshed
  <2> QED
    BY <2>1
<1> HIDE DEF R
<1> QED
  BY <1>1, <1>2, <1>3, <1>4, <1>6, <1>7

(* A later signal is behind all ports of an earlier one. *)
LEMMA BeforeGrows ==
  ASSUME NEW signals, NEW enabled, NEW k \in Nat, NEW l \in Nat, 1 <= k, k <= l
  PROVE  Before(signals, enabled, k) <= Before(signals, enabled, l)
<1> DEFINE R(m) == Refreshed(signals, enabled, m)
<1>1. k - 1 \in Nat /\ l - 1 \in Nat
  OBVIOUS
<1>2. IsFiniteSet(R(l - 1)) /\ Cardinality(R(k - 1)) \in Nat /\ Cardinality(R(l - 1)) \in Nat
  BY <1>1, RefreshedFinite
<1>3. R(k - 1) \subseteq R(l - 1)
  BY DEF Refreshed
<1>4. /\ Before(signals, enabled, k) = k - 1 + Cardinality(R(k - 1))
      /\ Before(signals, enabled, l) = l - 1 + Cardinality(R(l - 1))
  BY DEF Before
<1> HIDE DEF R
<1>5. Cardinality(R(k - 1)) <= Cardinality(R(l - 1))
  BY <1>2, <1>3, FS_Subset
<1> QED
  BY <1>1, <1>2, <1>4, <1>5

(* Every port belongs to a signal. *)
LEMMA PortHasSignal ==
  ASSUME NEW signals, NEW enabled, NEW n \in Nat, NEW p \in Nat,
         p < Before(signals, enabled, n + 1)
  PROVE  \E k \in 1 .. n : /\ Before(signals, enabled, k) <= p
                           /\ p < Before(signals, enabled, k + 1)
<1> DEFINE B(k) == Before(signals, enabled, k)
           S    == {k \in Nat : k \in 1 .. n + 1 /\ p < B(k)}
<1>1. n + 1 \in S
  OBVIOUS
<1>2. PICK m \in S : \A y \in S : ~(<<y, m>> \in OpToRel(<, Nat))
  <2>1. S \subseteq Nat /\ S # {}
    BY <1>1
  <2> HIDE DEF S
  <2> QED
    BY <2>1, NatLessThanWellFounded, WFMin
<1>3. \A y \in S : ~(y < m)
  BY <1>2 DEF OpToRel
<1>4. m # 1
  <2>1. B(1) = 0
    BY BeforeFirst
  <2> HIDE DEF B
  <2> QED
    BY <2>1
<1>5. m - 1 \in 1 .. n /\ m - 1 \in Nat /\ m - 1 < m /\ (m - 1) + 1 = m
  <2> HIDE DEF B
  <2> QED
    BY <1>4
<1>6. m - 1 \notin S
  BY <1>3, <1>5
<1>7. B(m - 1) \in Nat
  BY <1>5, BeforeNext
<1>8. B(m - 1) <= p /\ p < B((m - 1) + 1)
  <2>1. p < B(m)
    OBVIOUS
  <2>2. ~(p < B(m - 1))
    BY <1>5, <1>6
  <2> HIDE DEF B, S
  <2> QED
    BY <1>5, <1>7, <2>1, <2>2
<1> HIDE DEF S
<1> QED
  BY <1>5, <1>8

-----------------------------------------------------------------------------
(* The two loops. *)

(* The list is a sequence of length n. *)
LEMMA ListOfSignals ==
  ASSUME NEW signals, NEW n, IsSignals(signals, n)
  PROVE  /\ n \in Nat /\ Len(signals) = n /\ DOMAIN signals = 1 .. n
         /\ \A k \in 1 .. n :
              /\ SubSeq(signals, 1, k - 1) = [l \in 1 .. k - 1 |-> signals[l]]
              /\ Len(SubSeq(signals, 1, k - 1)) = k - 1
<1> DEFINE S == {signals[k] : k \in 1 .. n}
<1>1. n \in Nat /\ signals \in [1 .. n -> S]
  BY DEF IsSignals
<1>2. signals \in Seq(S)
  <2> HIDE DEF S
  <2> QED
    BY <1>1
<1>3. Len(signals) = n /\ DOMAIN signals = 1 .. n
  <2> HIDE DEF S
  <2> QED
    BY <1>1, <1>2
<1> HIDE DEF S
<1> SUFFICES ASSUME NEW k \in 1 .. n
             PROVE  /\ SubSeq(signals, 1, k - 1) = [l \in 1 .. k - 1 |-> signals[l]]
                    /\ Len(SubSeq(signals, 1, k - 1)) = k - 1
  BY <1>1, <1>3
<1>4. k - 1 \in Nat /\ k - 1 <= n
  BY <1>1
<1>5. SubSeq(signals, 1, k - 1) \in Seq(S) /\ Len(SubSeq(signals, 1, k - 1)) = k - 1
  BY <1>1, <1>2, <1>3, <1>4
<1>6. \A l \in 1 .. k - 1 : SubSeq(signals, 1, k - 1)[l] = signals[l]
  BY <1>1, <1>2, <1>3, <1>4
<1> QED
  BY <1>4, <1>5, <1>6

(* The loop that counts asks for the ports of all signals. *)
LEMMA PlacesAreBefore ==
  ASSUME NEW signals, NEW n, NEW enabled, IsSignals(signals, n)
  PROVE  Places(signals, enabled) = Before(signals, enabled, n + 1)
<1>1. n \in Nat /\ Len(signals) = n /\ DOMAIN signals = 1 .. n
  BY ListOfSignals
<1>2. n + 1 - 1 = n
  BY <1>1
<1> QED
  BY <1>1, <1>2 DEF Places, Before, Refreshed

(* The loop that numbers is at Before(k) when it comes to the k-th signal. *)
LEMMA FirstPortIsBefore ==
  ASSUME NEW signals, NEW n, NEW enabled, IsSignals(signals, n), NEW k \in 1 .. n
  PROVE  FirstPort(signals, k, enabled) = Before(signals, enabled, k)
<1> DEFINE front == SubSeq(signals, 1, k - 1)
<1>1. n \in Nat /\ front = [l \in 1 .. k - 1 |-> signals[l]] /\ Len(front) = k - 1
  BY ListOfSignals
<1>2. FirstPort(signals, k, enabled) = Places(front, enabled)
  BY DEF FirstPort
<1> HIDE DEF front
<1>3. DOMAIN front = 1 .. k - 1 /\ \A l \in 1 .. k - 1 : front[l] = signals[l]
  BY <1>1
<1>4. {l \in DOMAIN front : HasPort(front[l], enabled)} = Refreshed(signals, enabled, k - 1)
  BY <1>3 DEF Refreshed
<1> QED
  BY <1>1, <1>2, <1>4 DEF Places, Before

(* What is written into the k-th signal. *)
LEMMA NumberedSignal ==
  ASSUME NEW signals, NEW n, NEW enabled \in BOOLEAN, IsSignals(signals, n), NEW k \in 1 .. n
  PROVE  /\ DOMAIN Numbered(signals, enabled) = 1 .. n
         /\ Numbered(signals, enabled)[k].port_index = Before(signals, enabled, k)
         /\ HasPort(signals[k], enabled) =>
              /\ Numbered(signals, enabled)[k].is_refresh
              /\ Numbered(signals, enabled)[k].refresh_index = Before(signals, enabled, k) + 1
         /\ ~HasPort(signals[k], enabled) => Numbered(signals, enabled)[k].refresh_index = -1
<1>1. n \in Nat /\ DOMAIN signals = 1 .. n
  BY ListOfSignals
<1>2. PICK i, j, s, direction : signals[k] = Signal(i, j, s, direction)
  BY DEF IsSignals
<1> DEFINE B == Before(signals, enabled, k)
           R == IF HasPort(signals[k], enabled) THEN B + 1 ELSE -1
<1>3. Numbered(signals, enabled)[k]
        = [signals[k] EXCEPT !.port_index = B, !.refresh_index = R]
  BY <1>1, FirstPortIsBefore DEF Numbered
<1>4. DOMAIN Numbered(signals, enabled) = 1 .. n
  BY <1>1 DEF Numbered
<1>5. /\ Numbered(signals, enabled)[k].port_index = B
      /\ Numbered(signals, enabled)[k].refresh_index = R
      /\ Numbered(signals, enabled)[k].is_refresh = signals[k].is_refresh
  <2> HIDE DEF B, R
  <2> QED
    BY <1>2, <1>3 DEF Signal
<1>6. HasPort(signals[k], enabled) => signals[k].is_refresh
  BY DEF HasPort
<1> QED
  BY <1>4, <1>5, <1>6

-----------------------------------------------------------------------------
(* The numbers name every port once. *)

(* list is numbered: the entries are ports among the first m, and those of signals
   without refresh are -1. *)
NumbersInRange(list, m) ==
  \A k \in DOMAIN list :
    /\ list[k].port_index \in 0 .. m - 1
    /\ list[k].refresh_index \in -1 .. m - 1
    /\ list[k].refresh_index # -1 => list[k].is_refresh

(* Each of the first m ports is that of one signal, as one of its two ports. *)
NumbersOnce(list, m) ==
  \A p \in 0 .. m - 1 :
    \E k \in DOMAIN list :
      {{l \in DOMAIN list : list[l].port_index = p},
       {l \in DOMAIN list : list[l].refresh_index = p}} = {{k}, {}}

(* The numbers are among the ports that the block asked for. *)
LEMMA NumberedInRange ==
  ASSUME NEW signals, NEW n, NEW enabled \in BOOLEAN, IsSignals(signals, n)
  PROVE  NumbersInRange(Numbered(signals, enabled), Places(signals, enabled))
<1> DEFINE list == Numbered(signals, enabled)
           B(k) == Before(signals, enabled, k)
<1>1. n \in Nat
  BY ListOfSignals
<1>2. Places(signals, enabled) = B(n + 1)
  BY PlacesAreBefore
<1>3. SUFFICES ASSUME NEW k \in 1 .. n
               PROVE  /\ list[k].port_index \in 0 .. B(n + 1) - 1
                      /\ list[k].refresh_index \in -1 .. B(n + 1) - 1
                      /\ list[k].refresh_index # -1 => list[k].is_refresh
  <2>1. DOMAIN list = 1 .. n
    BY ListOfSignals DEF Numbered
  <2> HIDE DEF list, B
  <2> QED
    BY <1>2, <2>1 DEF NumbersInRange, list
<1>4. k \in Nat /\ k >= 1 /\ k + 1 \in Nat /\ n + 1 \in Nat /\ 1 <= k + 1 /\ k + 1 <= n + 1
  BY <1>1
<1>5. B(k) \in Nat /\ B(n + 1) \in Nat
  BY <1>4, BeforeNext
<1>6. B(k + 1) <= B(n + 1)
  BY <1>4, BeforeGrows
<1>7. CASE HasPort(signals[k], enabled)
  <2>1. B(k + 1) = B(k) + 2
    BY <1>4, <1>7, BeforeNext
  <2>2. /\ list[k].port_index = B(k) /\ list[k].refresh_index = B(k) + 1
        /\ list[k].is_refresh
    BY <1>7, NumberedSignal
  <2> HIDE DEF list, B
  <2> QED
    BY <1>5, <1>6, <2>1, <2>2
<1>8. CASE ~HasPort(signals[k], enabled)
  <2>1. B(k + 1) = B(k) + 1
    BY <1>4, <1>8, BeforeNext
  <2>2. list[k].port_index = B(k) /\ list[k].refresh_index = -1
    BY <1>8, NumberedSignal
  <2> HIDE DEF list, B
  <2> QED
    BY <1>5, <1>6, <2>1, <2>2
<1> QED
  BY <1>7, <1>8

(* A port is not that of another signal than the one it falls to. *)
LEMMA OtherSignalsElsewhere ==
  ASSUME NEW signals, NEW n, NEW enabled \in BOOLEAN, IsSignals(signals, n),
         NEW p \in Nat, NEW k \in 1 .. n, NEW l \in 1 .. n, l # k,
         Before(signals, enabled, k) <= p, p < Before(signals, enabled, k + 1)
  PROVE  /\ Numbered(signals, enabled)[l].port_index # p
         /\ Numbered(signals, enabled)[l].refresh_index # p
<1> DEFINE list == Numbered(signals, enabled)
           B(i) == Before(signals, enabled, i)
<1>1. n \in Nat
  BY ListOfSignals
<1>2. /\ k \in Nat /\ k >= 1 /\ k + 1 \in Nat /\ 1 <= k + 1
      /\ l \in Nat /\ l >= 1 /\ l + 1 \in Nat /\ 1 <= l + 1
  BY <1>1
<1>3. B(k) \in Nat /\ B(l) \in Nat /\ B(k + 1) \in Nat /\ B(l + 1) \in Nat
  BY <1>2, BeforeNext
<1>4. p \notin B(l) .. B(l + 1) - 1
  <2>1. CASE l < k
    <3>1. l + 1 <= k
      BY <1>2, <2>1
    <3>2. B(l + 1) <= B(k)
      BY <1>2, <3>1, BeforeGrows
    <3> HIDE DEF B
    <3> QED
      BY <1>3, <3>2 DEF B
  <2>2. CASE l > k
    <3>1. k + 1 <= l
      BY <1>2, <2>2
    <3>2. B(k + 1) <= B(l)
      BY <1>2, <3>1, BeforeGrows
    <3> HIDE DEF B
    <3> QED
      BY <1>3, <3>2 DEF B
  <2> QED
    BY <1>2, <2>1, <2>2
<1>5. CASE HasPort(signals[l], enabled)
  <2>1. B(l + 1) = B(l) + 2
    BY <1>2, <1>5, BeforeNext
  <2>2. list[l].port_index = B(l) /\ list[l].refresh_index = B(l) + 1
    BY <1>5, NumberedSignal
  <2> HIDE DEF B
  <2> QED
    BY <1>3, <1>4, <2>1, <2>2
<1>6. CASE ~HasPort(signals[l], enabled)
  <2>1. B(l + 1) = B(l) + 1
    BY <1>2, <1>6, BeforeNext
  <2>2. list[l].port_index = B(l) /\ list[l].refresh_index = -1
    BY <1>6, NumberedSignal
  <2> HIDE DEF B
  <2> QED
    BY <1>3, <1>4, <2>1, <2>2
<1> QED
  BY <1>5, <1>6

(* The numbers name each of the ports that the block asked for once. *)
LEMMA NumberedOnce ==
  ASSUME NEW signals, NEW n, NEW enabled \in BOOLEAN, IsSignals(signals, n)
  PROVE  NumbersOnce(Numbered(signals, enabled), Places(signals, enabled))
<1> DEFINE list == Numbered(signals, enabled)
           B(i) == Before(signals, enabled, i)
<1>1. n \in Nat /\ DOMAIN list = 1 .. n
  BY ListOfSignals DEF Numbered
<1>2. Places(signals, enabled) = B(n + 1)
  BY PlacesAreBefore
<1>3. B(n + 1) \in Nat
  BY <1>1, BeforeNext
<1> HIDE DEF list
<1>4. SUFFICES ASSUME NEW p \in 0 .. B(n + 1) - 1
               PROVE  \E k \in 1 .. n :
                        {{l \in 1 .. n : list[l].port_index = p},
                         {l \in 1 .. n : list[l].refresh_index = p}} = {{k}, {}}
  <2> HIDE DEF B
  <2> QED
    BY <1>1, <1>2 DEF NumbersOnce, list
<1>5. p \in Nat /\ p < B(n + 1)
  <2> HIDE DEF B
  <2> QED
    BY <1>3
<1>6. PICK k \in 1 .. n : B(k) <= p /\ p < B(k + 1)
  BY <1>1, <1>5, PortHasSignal
<1>7. \A l \in 1 .. n : l # k => list[l].port_index # p /\ list[l].refresh_index # p
  BY <1>5, <1>6, OtherSignalsElsewhere DEF list
<1>8. k \in Nat /\ k >= 1
  BY <1>1
<1>9. B(k) \in Nat
  BY <1>8, BeforeNext
<1>10. \/ list[k].port_index = p /\ list[k].refresh_index # p
       \/ list[k].port_index # p /\ list[k].refresh_index = p
  <2>1. CASE HasPort(signals[k], enabled)
    <3>1. B(k + 1) = B(k) + 2
      BY <1>8, <2>1, BeforeNext
    <3>2. list[k].port_index = B(k) /\ list[k].refresh_index = B(k) + 1
      BY <2>1, NumberedSignal DEF list
    <3> HIDE DEF B
    <3> QED
      BY <1>5, <1>6, <1>9, <3>1, <3>2
  <2>2. CASE ~HasPort(signals[k], enabled)
    <3>1. B(k + 1) = B(k) + 1
      BY <1>8, <2>2, BeforeNext
    <3>2. list[k].port_index = B(k) /\ list[k].refresh_index = -1
      BY <2>2, NumberedSignal DEF list
    <3> HIDE DEF B
    <3> QED
      BY <1>5, <1>6, <1>9, <3>1, <3>2
  <2> QED
    BY <2>1, <2>2
<1> DEFINE named == {l \in 1 .. n : list[l].port_index = p}
           again == {l \in 1 .. n : list[l].refresh_index = p}
<1>11. (named = {k} /\ again = {}) \/ (named = {} /\ again = {k})
  BY <1>7, <1>10
<1> HIDE DEF named, again
<1>12. {named, again} = {{k}, {}}
  BY <1>11
<1> QED
  BY <1>12 DEF named, again

-----------------------------------------------------------------------------
(* Nested loops. *)

IsPairs(S) == IsFiniteSet(S) /\ S \subseteq Nat \X Nat

(* How many pairs of S come before p. *)
Rank(S, p) == Cardinality({q \in S : Earlier(q, p)})

(* Of two pairs one comes first. *)
LEMMA PairsAreOrdered ==
  ASSUME NEW p \in Nat \X Nat, NEW q \in Nat \X Nat, NEW r \in Nat \X Nat
  PROVE  /\ ~Earlier(p, p)
         /\ Earlier(p, q) => ~Earlier(q, p)
         /\ Earlier(p, q) /\ Earlier(q, r) => Earlier(p, r)
         /\ p # q => Earlier(p, q) \/ Earlier(q, p)
<1>1. /\ p = <<p[1], p[2]>> /\ p[1] \in Nat /\ p[2] \in Nat
      /\ q = <<q[1], q[2]>> /\ q[1] \in Nat /\ q[2] \in Nat
      /\ r[1] \in Nat /\ r[2] \in Nat
  OBVIOUS
<1>2. p[1] = q[1] /\ p[2] = q[2] => p = q
  BY <1>1
<1> QED
  BY <1>1, <1>2 DEF Earlier

(* The pairs before one are fewer than all, and fewer than those before a later one. *)
LEMMA RankGrows ==
  ASSUME NEW S, IsPairs(S), NEW p \in S
  PROVE  /\ Rank(S, p) \in 0 .. Cardinality(S) - 1
         /\ \A q \in S : Earlier(p, q) => Rank(S, p) < Rank(S, q)
<1> DEFINE B(q) == {r \in S : Earlier(r, q)}
<1>1. IsFiniteSet(S) /\ Cardinality(S) \in Nat /\ \A q \in S : q \in Nat \X Nat
  BY FS_CardinalityType DEF IsPairs
<1>2. ASSUME NEW q
      PROVE  IsFiniteSet(B(q)) /\ Cardinality(B(q)) \in Nat /\ Cardinality(B(q)) <= Cardinality(S)
  <2>1. B(q) \in SUBSET S
    OBVIOUS
  <2> HIDE DEF B
  <2> QED
    BY <1>1, <2>1, FS_Subset, FS_CardinalityType
<1>3. B(p) # S
  BY <1>1, PairsAreOrdered
<1>4. Cardinality(B(p)) # Cardinality(S)
  <2>1. B(p) \in SUBSET S
    OBVIOUS
  <2> HIDE DEF B
  <2> QED
    BY <1>1, <1>3, <2>1, FS_Subset
<1>5. ASSUME NEW q \in S, Earlier(p, q)
      PROVE  Cardinality(B(p)) < Cardinality(B(q))
  <2>1. p \in B(q) /\ p \notin B(p)
    BY <1>1, <1>5, PairsAreOrdered
  <2>2. \A r \in S : Earlier(r, p) => Earlier(r, q)
    BY <1>1, <1>5, PairsAreOrdered
  <2>3. B(p) \in SUBSET B(q) /\ B(p) # B(q)
    BY <2>1, <2>2
  <2> HIDE DEF B
  <2>4. Cardinality(B(p)) <= Cardinality(B(q)) /\ Cardinality(B(p)) # Cardinality(B(q))
    BY <1>2, <2>3, FS_Subset
  <2> QED
    BY <1>2, <2>4
<1>6. \A q : Rank(S, q) = Cardinality(B(q))
  BY DEF Rank
<1> HIDE DEF B
<1>7. Rank(S, p) \in 0 .. Cardinality(S) - 1
  BY <1>1, <1>2, <1>4, <1>6
<1> QED
  BY <1>5, <1>6, <1>7

(* Each number below that of the pairs is the rank of one. *)
LEMMA RankExists ==
  ASSUME NEW S, IsPairs(S), NEW k \in 0 .. Cardinality(S) - 1
  PROVE  \E p \in S : Rank(S, p) = k
<1> DEFINE n == Cardinality(S)
           r == [p \in S |-> Rank(S, p)]
<1>1. IsFiniteSet(S) /\ n \in Nat /\ \A q \in S : q \in Nat \X Nat
  BY FS_CardinalityType DEF IsPairs
<1>2. ASSUME NEW p \in S
      PROVE  /\ r[p] \in 0 .. n - 1
             /\ \A q \in S : Earlier(p, q) => r[p] # r[q]
  <2>1. /\ Rank(S, p) \in 0 .. n - 1
        /\ \A q \in S : Earlier(p, q) => Rank(S, p) < Rank(S, q)
    BY RankGrows
  <2>2. \A q \in S : Rank(S, q) \in 0 .. n - 1
    BY RankGrows
  <2> HIDE DEF n
  <2> QED
    BY <1>1, <2>1, <2>2
<1> HIDE DEF n, r
<1>3. \A p, q \in S : p # q => r[p] # r[q]
  BY <1>1, <1>2, PairsAreOrdered
<1>4. r \in [S -> 0 .. n - 1]
  <2>1. r = [p \in S |-> r[p]]
    BY DEF r
  <2> QED
    BY <1>2, <2>1
<1>5. r \in Injection(S, 0 .. n - 1)
  BY <1>3, <1>4 DEF Injection, IsInjective
<1>6. IsFiniteSet(0 .. n - 1) /\ Cardinality(0 .. n - 1) = n
  BY <1>1, FS_Interval
<1>7. r \in Surjection(S, 0 .. n - 1)
  BY <1>5, <1>6, FS_Injection DEF n
<1>8. PICK p \in S : r[p] = k
  BY <1>7 DEF Surjection, n
<1> QED
  BY <1>8 DEF r

(* InOrder gives each pair once, at the place that its rank is. *)
LEMMA InOrderIs ==
  ASSUME NEW S, IsPairs(S)
  PROVE  /\ Cardinality(S) \in Nat
         /\ DOMAIN InOrder(S) = 1 .. Cardinality(S) /\ Len(InOrder(S)) = Cardinality(S)
         /\ \A k \in 1 .. Cardinality(S) :
              InOrder(S)[k] \in S /\ Rank(S, InOrder(S)[k]) = k - 1
         /\ \A p \in S : /\ Rank(S, p) + 1 \in 1 .. Cardinality(S)
                         /\ InOrder(S)[Rank(S, p) + 1] = p
<1> DEFINE n == Cardinality(S)
<1>1. n \in Nat /\ \A q \in S : q \in Nat \X Nat
  BY FS_CardinalityType DEF IsPairs
<1>2. DOMAIN InOrder(S) = 1 .. n /\ Len(InOrder(S)) = n
  BY <1>1 DEF InOrder
<1>3. ASSUME NEW k \in 1 .. n
      PROVE  InOrder(S)[k] \in S /\ Rank(S, InOrder(S)[k]) = k - 1
  <2>1. k - 1 \in 0 .. n - 1
    BY <1>1
  <2>2. \E p \in S : Rank(S, p) = k - 1
    BY <2>1, RankExists
  <2>3. InOrder(S)[k] = CHOOSE p \in S : Rank(S, p) = k - 1
    BY DEF InOrder, Rank
  <2> QED
    BY <2>2, <2>3
<1>4. ASSUME NEW p \in S
      PROVE  Rank(S, p) + 1 \in 1 .. n /\ InOrder(S)[Rank(S, p) + 1] = p
  <2> DEFINE k == Rank(S, p) + 1
             q == InOrder(S)[k]
  <2>1. Rank(S, p) \in 0 .. n - 1
    BY RankGrows
  <2>2. k \in 1 .. n /\ k - 1 = Rank(S, p)
    <3> HIDE DEF n
    <3> QED
      BY <1>1, <2>1
  <2>3. q \in S /\ Rank(S, q) = Rank(S, p)
    BY <1>3, <2>2
  <2> HIDE DEF q
  <2>4. ~Earlier(p, q) /\ ~Earlier(q, p)
    <3>1. Rank(S, q) \in Nat
      BY <1>1, <2>1, <2>3
    <3>2. Earlier(p, q) => Rank(S, p) < Rank(S, q)
      BY <2>3, RankGrows
    <3>3. Earlier(q, p) => Rank(S, q) < Rank(S, p)
      BY <2>3, RankGrows
    <3> QED
      BY <2>3, <3>1, <3>2, <3>3
  <2>5. q = p
    BY <1>1, <2>3, <2>4, PairsAreOrdered
  <2> QED
    BY <2>2, <2>5 DEF q
<1> QED
  BY <1>1, <1>2, <1>3, <1>4

(* ... and the pairs come one after the other. *)
LEMMA InOrderGrows ==
  ASSUME NEW S, IsPairs(S), NEW k \in 1 .. Cardinality(S), NEW l \in 1 .. Cardinality(S)
  PROVE  Earlier(InOrder(S)[k], InOrder(S)[l]) <=> k < l
<1> DEFINE p == InOrder(S)[k]
           q == InOrder(S)[l]
<1>1. /\ Cardinality(S) \in Nat /\ p \in S /\ q \in S
      /\ Rank(S, p) = k - 1 /\ Rank(S, q) = l - 1
  BY InOrderIs
<1>2. p \in Nat \X Nat /\ q \in Nat \X Nat
  BY <1>1 DEF IsPairs
<1> HIDE DEF p, q
<1>3. Earlier(p, q) => k - 1 < l - 1
  BY <1>1, RankGrows
<1>4. Earlier(q, p) => l - 1 < k - 1
  BY <1>1, RankGrows
<1>5. p = q => k = l
  BY <1>1
<1>6. k < l => Earlier(p, q)
  BY <1>1, <1>2, <1>4, <1>5, PairsAreOrdered
<1> QED
  BY <1>1, <1>3, <1>6 DEF p, q

(* f lists the pairs of S in their order. *)
Lists(f, n, S) ==
  /\ n \in Nat
  /\ \A k \in 1 .. n : f[k] \in S
  /\ \A k, l \in 1 .. n : k < l => Earlier(f[k], f[l])
  /\ \A p \in S : \E k \in 1 .. n : f[k] = p

(* There is one such list only. *)
LEMMA OneList ==
  ASSUME NEW S, IsPairs(S), NEW n, NEW f, Lists(f, n, S)
  PROVE  n = Cardinality(S) /\ \A k \in 1 .. n : f[k] = InOrder(S)[k]
<1>1. /\ n \in Nat /\ \A k \in 1 .. n : f[k] \in S /\ f[k] \in Nat \X Nat
      /\ \A p \in S : \E k \in 1 .. n : f[k] = p
  BY DEF Lists, IsPairs
<1>2. \A k, l \in 1 .. n : Earlier(f[k], f[l]) <=> k < l
  <2> SUFFICES ASSUME NEW k \in 1 .. n, NEW l \in 1 .. n
               PROVE  Earlier(f[k], f[l]) <=> k < l
    OBVIOUS
  <2>1. k < l => Earlier(f[k], f[l])
    BY DEF Lists
  <2>2. l < k => Earlier(f[l], f[k])
    BY DEF Lists
  <2>3. k < l \/ l < k \/ k = l
    BY <1>1
  <2> QED
    BY <1>1, <2>1, <2>2, <2>3, PairsAreOrdered
<1>3. \A k, l \in 1 .. n : f[k] = f[l] => k = l
  <2> SUFFICES ASSUME NEW k \in 1 .. n, NEW l \in 1 .. n, f[k] = f[l]
               PROVE  k = l
    OBVIOUS
  <2>1. ~Earlier(f[k], f[l]) /\ ~Earlier(f[l], f[k])
    BY <1>1, PairsAreOrdered
  <2>2. ~(k < l) /\ ~(l < k)
    BY <1>2, <2>1
  <2> QED
    BY <1>1, <2>2
<1>4. ASSUME NEW m \in 0 .. n, NEW T, T = {f[k] : k \in 1 .. m}
      PROVE  Cardinality(T) = m
  <2> DEFINE g == [k \in 1 .. m |-> f[k]]
  <2>1. m \in Nat /\ 1 .. m \subseteq 1 .. n
    BY <1>1
  <2>2. g \in Bijection(1 .. m, T)
    BY <1>3, <1>4, <2>1 DEF Bijection, Injection, Surjection, IsInjective
  <2>3. ExistsBijection(1 .. m, T)
    BY <2>2 DEF ExistsBijection
  <2> QED
    BY <2>1, <2>3, FS_CountingElements
<1>5. n = Cardinality(S)
  <2>1. S = {f[k] : k \in 1 .. n} /\ n \in 0 .. n
    BY <1>1
  <2> QED
    BY <1>4, <2>1
<1>6. ASSUME NEW k \in 1 .. n
      PROVE  f[k] = InOrder(S)[k]
  <2> DEFINE T == {q \in S : Earlier(q, f[k])}
             m == k - 1
  <2>1. m \in 0 .. n /\ 1 .. m \subseteq 1 .. n /\ \A l \in 1 .. n : l < k <=> l \in 1 .. m
    BY <1>1
  <2>2. T = {f[l] : l \in 1 .. m}
    <3>1. \A l \in 1 .. m : f[l] \in T
      BY <1>1, <1>2, <2>1
    <3>2. \A q \in T : \E l \in 1 .. m : q = f[l]
      BY <1>1, <1>2, <2>1
    <3> HIDE DEF T, m
    <3> QED
      BY <3>1, <3>2
  <2>3. Rank(S, f[k]) = m
    <3>1. Rank(S, f[k]) = Cardinality(T)
      BY DEF Rank
    <3> HIDE DEF T, m
    <3> QED
      BY <1>4, <2>1, <2>2, <3>1
  <2>4. Rank(S, f[k]) + 1 = k /\ f[k] \in S
    BY <1>1, <2>3
  <2> QED
    BY <2>4, InOrderIs
<1> QED
  BY <1>5, <1>6

-----------------------------------------------------------------------------
(* What the connector reads from a file. *)

(* A file is a sequence of streams with sequences of messages. *)
LEMMA ContentIs ==
  ASSUME NEW content \in Contents
  PROVE  \E n \in Nat : /\ DOMAIN content = 1 .. n
                        /\ \A i \in 1 .. n :
                             /\ content[i].kind \in Kinds /\ content[i].direction \in Directions
                             /\ \E m \in Nat : DOMAIN content[i].messages = 1 .. m
<1> DEFINE Streams == [kind : Kinds, direction : Directions,
                       messages : Seq(Directions \cup {"INVALID"})]
<1>1. content \in Seq(Streams)
  BY PortsAssumption
<1>2. Len(content) \in Nat /\ DOMAIN content = 1 .. Len(content)
  <2> HIDE DEF Streams
  <2> QED
    BY <1>1
<1>3. ASSUME NEW i \in 1 .. Len(content)
      PROVE  /\ content[i].kind \in Kinds /\ content[i].direction \in Directions
             /\ \E m \in Nat : DOMAIN content[i].messages = 1 .. m
  <2>1. content[i] \in Streams
    <3> HIDE DEF Streams
    <3> QED
      BY <1>1
  <2>2. /\ content[i].kind \in Kinds /\ content[i].direction \in Directions
        /\ content[i].messages \in Seq(Directions \cup {"INVALID"})
    BY <2>1
  <2> QED
    BY <2>2
<1> HIDE DEF Streams
<1> QED
  BY <1>2, <1>3

(* A file has finitely many messages. *)
LEMMA PresentPairs ==
  ASSUME NEW content \in Contents, NEW block \in Blocks
  PROVE  IsPairs(Present(block, content))
<1> DEFINE here    == Present(block, content)
           sources == {{i} \X DOMAIN content[i].messages : i \in DOMAIN content}
           source  == [i \in DOMAIN content |-> {i} \X DOMAIN content[i].messages]
<1>1. PICK n \in Nat : /\ DOMAIN content = 1 .. n
                       /\ \A i \in 1 .. n : \E m \in Nat : DOMAIN content[i].messages = 1 .. m
  BY ContentIs
<1>2. IsFiniteSet(sources)
  <2>1. IsFiniteSet(DOMAIN content)
    BY <1>1, FS_Interval
  <2>2. source \in Surjection(DOMAIN content, sources)
    BY DEF Surjection
  <2> HIDE DEF source, sources
  <2> QED
    BY <2>1, <2>2, FS_Surjection
<1>3. \A T \in sources : IsFiniteSet(T)
  <2> SUFFICES ASSUME NEW i \in DOMAIN content
               PROVE  IsFiniteSet({i} \X DOMAIN content[i].messages)
    OBVIOUS
  <2>1. PICK m \in Nat : DOMAIN content[i].messages = 1 .. m
    BY <1>1
  <2>2. IsFiniteSet({i})
    BY FS_Singleton
  <2>3. IsFiniteSet(1 .. m)
    BY FS_Interval
  <2> QED
    BY <2>1, <2>2, <2>3, FS_Product
<1>4. here \subseteq UNION sources
  BY DEF Present
<1>5. IsFiniteSet(here)
  <2> HIDE DEF here, sources
  <2> QED
    BY <1>2, <1>3, <1>4, FS_UNION, FS_Subset
<1>6. here \subseteq Nat \X Nat
  <2> SUFFICES ASSUME NEW q \in here
               PROVE  q \in Nat \X Nat
    OBVIOUS
  <2>1. PICK i \in DOMAIN content : q \in {i} \X DOMAIN content[i].messages
    BY <1>4
  <2>2. PICK m \in Nat : DOMAIN content[i].messages = 1 .. m
    BY <1>1
  <2>3. i \in Nat
    BY <1>1
  <2> HIDE DEF here
  <2> QED
    BY <2>1, <2>2, <2>3
<1> QED
  BY <1>5, <1>6 DEF IsPairs

(* The signals of a side are those of its messages, in their order. *)
LEMMA SideIs ==
  ASSUME NEW content \in Contents, NEW block \in Blocks
  PROVE  LET here == Present(block, content)
             list == Sides[content][block]
         IN  /\ Cardinality(here) \in Nat /\ DOMAIN list = 1 .. Cardinality(here)
             /\ list = [k \in 1 .. Cardinality(here) |-> list[k]]
             /\ \A k \in 1 .. Cardinality(here) :
                  LET p == InOrder(here)[k]
                  IN  /\ p \in here
                      /\ list[k] = Signal(p[1], p[2], content[p[1]],
                                          DirectionOn(block, content[p[1]], p[2]))
<1> DEFINE here == Present(block, content)
           p(k) == InOrder(here)[k]
           list == Sides[content][block]
<1>1. IsPairs(here)
  BY PresentPairs
<1>2. /\ Cardinality(here) \in Nat /\ DOMAIN InOrder(here) = 1 .. Cardinality(here)
      /\ \A k \in 1 .. Cardinality(here) : InOrder(here)[k] \in here
  <2> HIDE DEF here
  <2> QED
    BY <1>1, InOrderIs
<1>3. list = [k \in 1 .. Cardinality(here) |->
                Signal(p(k)[1], p(k)[2], content[p(k)[1]],
                       DirectionOn(block, content[p(k)[1]], p(k)[2]))]
  BY <1>2 DEF Sides
<1> HIDE DEF here, list
<1>4. /\ DOMAIN list = 1 .. Cardinality(here)
      /\ \A k \in 1 .. Cardinality(here) :
           list[k] = Signal(p(k)[1], p(k)[2], content[p(k)[1]],
                            DirectionOn(block, content[p(k)[1]], p(k)[2]))
      /\ list = [k \in 1 .. Cardinality(here) |-> list[k]]
  BY <1>3
<1> QED
  BY <1>2, <1>4 DEF here, list

(* So they are a list of signals. *)
LEMMA SidesAreSignals ==
  ASSUME NEW content \in Contents, NEW block \in Blocks
  PROVE  IsSignals(Sides[content][block], Cardinality(Present(block, content)))
<1> DEFINE list == Sides[content][block]
           n    == Cardinality(Present(block, content))
           p(k) == InOrder(Present(block, content))[k]
<1>1. /\ n \in Nat /\ DOMAIN list = 1 .. n /\ list = [k \in 1 .. n |-> list[k]]
      /\ \A k \in 1 .. n : list[k] = Signal(p(k)[1], p(k)[2], content[p(k)[1]],
                                            DirectionOn(block, content[p(k)[1]], p(k)[2]))
  BY SideIs
<1> HIDE DEF list, n, p
<1> QED
  BY <1>1 DEF IsSignals, list, n

-----------------------------------------------------------------------------
(* The slots of a list. *)

(* Of pairs with two second parts, those with y have a first part in R. *)
LEMMA TwoTags ==
  ASSUME NEW T, NEW R, R \subseteq T, NEW x, NEW y, x # y
  PROVE  {s \in T \X {x, y} : s[2] = y => s[1] \in R} = (T \X {x}) \cup (R \X {y})
<1> QED
  OBVIOUS

(* A pair whose second part is x. *)
LEMMA TaggedPair ==
  ASSUME NEW T, NEW x, NEW s \in T \X {x}
  PROVE  s[1] \in T /\ s = <<s[1], x>>
<1> QED
  OBVIOUS

(* Pairs with the same second part are as many as their first parts. *)
LEMMA TaggedCount ==
  ASSUME NEW T, IsFiniteSet(T), NEW x
  PROVE  IsFiniteSet(T \X {x}) /\ Cardinality(T \X {x}) = Cardinality(T)
<1> DEFINE g == [t \in T |-> <<t, x>>]
<1>1. g \in Bijection(T, T \X {x})
  BY DEF Bijection, Injection, Surjection, IsInjective
<1>2. ExistsBijection(T, T \X {x})
  BY <1>1 DEF ExistsBijection
<1> QED
  BY <1>2, FS_Bijection

(* Two such sets with different second parts. *)
LEMMA TwoTagged ==
  ASSUME NEW T, NEW U, IsFiniteSet(T), IsFiniteSet(U)
  PROVE  /\ IsFiniteSet((T \X {0}) \cup (U \X {1}))
         /\ Cardinality((T \X {0}) \cup (U \X {1})) = Cardinality(T) + Cardinality(U)
<1> DEFINE A == T \X {0}
           B == U \X {1}
<1>1. /\ IsFiniteSet(A) /\ Cardinality(A) = Cardinality(T)
      /\ IsFiniteSet(B) /\ Cardinality(B) = Cardinality(U)
  BY TaggedCount
<1>2. A \cap B = {}
  OBVIOUS
<1>3. Cardinality(A) \in Nat /\ Cardinality(B) \in Nat
  BY <1>1, FS_CardinalityType
<1> HIDE DEF A, B
<1>4. /\ IsFiniteSet(A \cup B)
      /\ Cardinality(A \cup B) = Cardinality(A) + Cardinality(B) - Cardinality(A \cap B)
  BY <1>1, FS_Union
<1>5. Cardinality(A \cap B) = 0
  BY <1>2, FS_EmptySet
<1>6. Cardinality(A \cup B) = Cardinality(T) + Cardinality(U)
  BY <1>1, <1>3, <1>4, <1>5
<1> QED
  BY <1>4, <1>6 DEF A, B

(* The slots are a slot for the data of each signal and one for each refresh flag. *)
LEMMA SlotsCount ==
  ASSUME NEW n \in Nat, NEW R, R \subseteq 1 .. n
  PROVE  /\ IsPairs(Slots(n, R))
         /\ Slots(n, R) = ((1 .. n) \X {0}) \cup (R \X {1})
         /\ Cardinality(Slots(n, R)) = n + Cardinality(R)
<1> DEFINE S == Slots(n, R)
<1>1. IsFiniteSet(1 .. n) /\ Cardinality(1 .. n) = n
  BY FS_Interval
<1>2. IsFiniteSet(R)
  BY <1>1, FS_Subset
<1>3. S = ((1 .. n) \X {0}) \cup (R \X {1})
  <2>1. 0 # 1
    OBVIOUS
  <2> QED
    BY <2>1, TwoTags, Zenon DEF Slots
<1>4. IsFiniteSet(S) /\ Cardinality(S) = n + Cardinality(R)
  <2> HIDE DEF S
  <2> QED
    BY <1>1, <1>3, <1>2, TwoTagged
<1>5. S \subseteq Nat \X Nat
  BY DEF Slots
<1> HIDE DEF S
<1> QED
  BY <1>3, <1>4, <1>5 DEF IsPairs, S

(* Those before the data of the k-th signal are the ones of the signals in front of it;
   its refresh flag comes next. *)
LEMMA SlotRank ==
  ASSUME NEW n \in Nat, NEW R, R \subseteq 1 .. n, NEW k \in 1 .. n
  PROVE  /\ <<k, 0>> \in Slots(n, R)
         /\ Rank(Slots(n, R), <<k, 0>>) = k - 1 + Cardinality(R \cap 1 .. k - 1)
         /\ k \in R => /\ <<k, 1>> \in Slots(n, R)
                       /\ Rank(Slots(n, R), <<k, 1>>) = Rank(Slots(n, R), <<k, 0>>) + 1
<1> DEFINE S == Slots(n, R)
<1>1. IsFiniteSet(1 .. n)
  BY FS_Interval
<1>2. S = ((1 .. n) \X {0}) \cup (R \X {1})
  BY SlotsCount
<1>3. IsFiniteSet(R)
  BY <1>1, FS_Subset
<1> DEFINE m == k - 1
           F == R \cap 1 .. m
           B == {q \in S : Earlier(q, <<k, 0>>)}
           C == {q \in S : Earlier(q, <<k, 1>>)}
<1>4. m \in Nat /\ \A i \in 1 .. n : i < k <=> i \in 1 .. m
  OBVIOUS
<1>5. IsFiniteSet(1 .. m) /\ Cardinality(1 .. m) = m
  BY <1>4, FS_Interval
<1>6. F \subseteq R /\ IsFiniteSet(F)
  BY <1>3, FS_Subset
<1>7. B = ((1 .. m) \X {0}) \cup (F \X {1})
  <2>1. ASSUME NEW q \in S
        PROVE  Earlier(q, <<k, 0>>) <=> q \in ((1 .. m) \X {0}) \cup (F \X {1})
    <3>1. PICK i \in 1 .. n, w \in {0, 1} : q = <<i, w>> /\ (w = 1 => i \in R)
      BY DEF Slots
    <3>2. Earlier(q, <<k, 0>>) <=> i < k
      BY <3>1 DEF Earlier
    <3>3. q \in ((1 .. m) \X {0}) \cup (F \X {1}) <=> i \in 1 .. m
      BY <3>1
    <3> QED
      BY <1>4, <3>2, <3>3
  <2>2. ((1 .. m) \X {0}) \cup (F \X {1}) \subseteq S
    <3>1. 1 .. m \subseteq 1 .. n
      BY <1>4
    <3> HIDE DEF S, m
    <3> QED
      BY <1>2, <1>6, <3>1
  <2> HIDE DEF S, F, m
  <2> QED
    BY <2>1, <2>2
<1>8. IsFiniteSet(B) /\ Cardinality(B) = m + Cardinality(F)
  <2> HIDE DEF B, F, m
  <2> QED
    BY <1>5, <1>6, <1>7, TwoTagged
<1>9. <<k, 0>> \in S /\ <<k, 0>> \notin B
  BY DEF Slots, Earlier
<1>10. Rank(S, <<k, 0>>) = m + Cardinality(F)
  BY <1>8 DEF Rank
<1>11. ASSUME k \in R
      PROVE  <<k, 1>> \in S /\ Rank(S, <<k, 1>>) = Rank(S, <<k, 0>>) + 1
  <2>1. <<k, 1>> \in S
    BY <1>11 DEF Slots
  <2>2. C = B \cup {<<k, 0>>}
    <3>1. ASSUME NEW q \in S
          PROVE  Earlier(q, <<k, 1>>) <=> Earlier(q, <<k, 0>>) \/ q = <<k, 0>>
      <4>1. PICK i \in 1 .. n, w \in {0, 1} : q = <<i, w>>
        BY DEF Slots
      <4> QED
        BY <4>1 DEF Earlier
    <3> HIDE DEF S
    <3> QED
      BY <1>9, <3>1
  <2>3. Rank(S, <<k, 1>>) = Cardinality(C) /\ Rank(S, <<k, 0>>) = Cardinality(B)
    BY DEF Rank
  <2>4. Cardinality(C) = Cardinality(B) + 1
    <3> HIDE DEF B, C, S
    <3> QED
      BY <1>8, <1>9, <2>2, FS_AddElement
  <2> HIDE DEF B, C, S
  <2> QED
    BY <2>1, <2>3, <2>4
<1> HIDE DEF S
<1> QED
  BY <1>9, <1>10, <1>11 DEF S

(* What stands on the slots of a list. *)
Lettered(list, n, R) ==
  [p \in DOMAIN InOrder(Slots(n, R)) |->
     Label(list[InOrder(Slots(n, R))[p][1]],
           IF InOrder(Slots(n, R))[p][2] = 0 THEN "data" ELSE "refresh")]

(* There is something on each slot. *)
LEMMA LetteredIs ==
  ASSUME NEW n \in Nat, NEW R, R \subseteq 1 .. n, NEW list
  PROVE  /\ Cardinality(R) \in Nat /\ IsFiniteSet(R)
         /\ DOMAIN InOrder(Slots(n, R)) = 1 .. n + Cardinality(R)
         /\ DOMAIN Lettered(list, n, R) = 1 .. n + Cardinality(R)
<1> DEFINE S == Slots(n, R)
<1>1. IsFiniteSet(R) /\ Cardinality(R) \in Nat
  <2>1. IsFiniteSet(1 .. n)
    BY FS_Interval
  <2> QED
    BY <2>1, FS_Subset, FS_CardinalityType
<1>2. IsPairs(S) /\ Cardinality(S) = n + Cardinality(R)
  BY SlotsCount
<1>3. DOMAIN InOrder(S) = 1 .. n + Cardinality(R)
  <2> HIDE DEF S
  <2> QED
    BY <1>2, InOrderIs
<1> QED
  BY <1>1, <1>3 DEF Lettered

(* The data of the k-th signal stands behind what the signals in front of it have. *)
DataAt(list, n, R, k) ==
  LET p == k + Cardinality(R \cap 1 .. k - 1)
  IN  /\ p \in 1 .. n + Cardinality(R)
      /\ InOrder(Slots(n, R))[p] = <<k, 0>>
      /\ Lettered(list, n, R)[p] = Label(list[k], "data")

LEMMA LetteredAt ==
  ASSUME NEW n \in Nat, NEW R, R \subseteq 1 .. n, NEW list, NEW k \in 1 .. n
  PROVE  DataAt(list, n, R, k)
<1> DEFINE S == Slots(n, R)
           c == Cardinality(R \cap 1 .. k - 1)
           p == k + c
<1>1. /\ IsFiniteSet(R) /\ Cardinality(R) \in Nat
      /\ DOMAIN InOrder(S) = 1 .. n + Cardinality(R)
  BY LetteredIs
<1>2. IsPairs(S) /\ Cardinality(S) = n + Cardinality(R)
  BY SlotsCount
<1>3. c \in Nat
  <2>1. R \cap 1 .. k - 1 \in SUBSET R
    OBVIOUS
  <2> QED
    BY <1>1, <2>1, FS_Subset, FS_CardinalityType
<1>4. <<k, 0>> \in S /\ Rank(S, <<k, 0>>) = k - 1 + c
  BY SlotRank
<1> HIDE DEF c, S
<1>5. Rank(S, <<k, 0>>) + 1 = p
  BY <1>3, <1>4
<1>6. p \in 1 .. Cardinality(S) /\ InOrder(S)[p] = <<k, 0>>
  BY <1>2, <1>4, <1>5, InOrderIs
<1>7. Lettered(list, n, R)[p] = Label(list[k], "data")
  <2> HIDE DEF p
  <2>1. p \in DOMAIN InOrder(S)
    BY <1>1, <1>2, <1>6
  <2>2. Lettered(list, n, R)[p] = Label(list[InOrder(S)[p][1]],
                                       IF InOrder(S)[p][2] = 0 THEN "data" ELSE "refresh")
    BY <2>1 DEF Lettered, S
  <2> QED
    BY <1>6, <2>2
<1> QED
  BY <1>2, <1>6, <1>7 DEF c, S, DataAt

(* A slot is that of a signal. *)
LEMMA SlotIs ==
  ASSUME NEW n, NEW R, NEW s \in Slots(n, R)
  PROVE  \E k \in 1 .. n, w \in {0, 1} : s = <<k, w>> /\ (w = 1 => k \in R)
<1> QED
  BY DEF Slots

(* Equal labels are of the same signal and say the same. *)
LEMMA EqualLabels ==
  ASSUME NEW a, NEW b, NEW x, NEW y
  PROVE  Label(a, x) = Label(b, y) <=> a.of = b.of /\ x = y
<1>1. Label(a, x).of = a.of /\ Label(a, x).what = x /\ Label(b, y).of = b.of /\ Label(b, y).what = y
  BY DEF Label
<1>2. a.of = b.of /\ x = y => Label(a, x) = Label(b, y)
  BY DEF Label
<1> QED
  BY <1>1, <1>2

(* The lists f and g have the same labels. *)
SameLabels(f, m, Q, g, n, R) ==
  /\ m \in Nat /\ Q \subseteq 1 .. m /\ n \in Nat /\ R \subseteq 1 .. n
  /\ Lettered(f, m, Q) = Lettered(g, n, R)

(* Then their signals come in the same order. *)
LEMMA SameLabelsSameOrder ==
  ASSUME NEW f, NEW m, NEW Q, NEW g, NEW n, NEW R, SameLabels(f, m, Q, g, n, R),
         NEW k \in 1 .. n, NEW l \in 1 .. n, k < l
  PROVE  \E i, j \in 1 .. m : i < j /\ f[i].of = g[k].of /\ f[j].of = g[l].of
<1>1. /\ m \in Nat /\ Q \subseteq 1 .. m /\ n \in Nat /\ R \subseteq 1 .. n
       /\ Lettered(f, m, Q) = Lettered(g, n, R)
  BY DEF SameLabels
<1> DEFINE S == Slots(n, R)
           T == Slots(m, Q)
           p == k + Cardinality(R \cap 1 .. k - 1)
           q == l + Cardinality(R \cap 1 .. l - 1)
           N == n + Cardinality(R)
<1>2. p \in 1 .. N /\ InOrder(S)[p] = <<k, 0>> /\ Lettered(g, n, R)[p] = Label(g[k], "data")
  <2>1. DataAt(g, n, R, k)
    BY <1>1, LetteredAt
  <2> QED
    BY <2>1 DEF DataAt
<1>3. q \in 1 .. N /\ InOrder(S)[q] = <<l, 0>> /\ Lettered(g, n, R)[q] = Label(g[l], "data")
  <2>1. DataAt(g, n, R, l)
    BY <1>1, LetteredAt
  <2> QED
    BY <2>1 DEF DataAt
<1>4. /\ DOMAIN Lettered(g, n, R) = 1 .. N
      /\ p \in 1 .. N /\ InOrder(S)[p] = <<k, 0>> /\ Lettered(g, n, R)[p] = Label(g[k], "data")
      /\ q \in 1 .. N /\ InOrder(S)[q] = <<l, 0>> /\ Lettered(g, n, R)[q] = Label(g[l], "data")
  BY <1>2, <1>3, <1>1, LetteredIs
<1>5. IsPairs(S) /\ Cardinality(S) = N /\ IsPairs(T)
  BY <1>1, SlotsCount
<1> HIDE DEF p, q, N
<1>6. p < q
  <2>1. Earlier(<<k, 0>>, <<l, 0>>)
    BY <1>1 DEF Earlier
  <2> HIDE DEF S
  <2> QED
    BY <1>4, <1>5, <2>1, InOrderGrows
<1>7. /\ DOMAIN InOrder(T) = 1 .. N /\ Cardinality(T) \in Nat
      /\ DOMAIN InOrder(T) = 1 .. Cardinality(T)
  <2>1. DOMAIN Lettered(f, m, Q) = DOMAIN InOrder(T)
    BY DEF Lettered
  <2> HIDE DEF T
  <2> QED
    BY <1>4, <1>5, <1>1, <2>1, InOrderIs
<1>8. ASSUME NEW x \in 1 .. N, NEW a \in 1 .. n, Lettered(g, n, R)[x] = Label(g[a], "data")
      PROVE  \E i \in 1 .. m : InOrder(T)[x] = <<i, 0>> /\ f[i].of = g[a].of
  <2> DEFINE t == InOrder(T)[x]
             w == IF t[2] = 0 THEN "data" ELSE "refresh"
  <2>1. t \in T
    <3> HIDE DEF T
    <3> QED
      BY <1>5, <1>7, InOrderIs
  <2>2. Label(f[t[1]], w) = Label(g[a], "data")
    BY <1>7, <1>8, <1>1 DEF Lettered
  <2> HIDE DEF t
  <2>3. f[t[1]].of = g[a].of /\ w = "data"
    <3> HIDE DEF w
    <3> QED
      BY <2>2, EqualLabels
  <2>4. t[2] = 0
    BY <2>3
  <2>5. t = <<t[1], t[2]>> /\ t[1] \in 1 .. m
    BY <2>1 DEF Slots
  <2> QED
    BY <2>3, <2>4, <2>5 DEF t
<1>9. PICK i \in 1 .. m : InOrder(T)[p] = <<i, 0>> /\ f[i].of = g[k].of
  BY <1>4, <1>8
<1>10. PICK j \in 1 .. m : InOrder(T)[q] = <<j, 0>> /\ f[j].of = g[l].of
  BY <1>4, <1>8
<1>11. Earlier(<<i, 0>>, <<j, 0>>)
  <2> HIDE DEF T
  <2> QED
    BY <1>4, <1>5, <1>6, <1>7, <1>9, <1>10, InOrderGrows
<1>12. i < j
  BY <1>11, <1>1 DEF Earlier
<1> QED
  BY <1>9, <1>10, <1>12

(* The ports carry what stands on the slots of the signals of the connector. *)
LEMMA CarriesIs ==
  ASSUME NEW block \in Blocks, NEW signals, NEW n, NEW enabled \in BOOLEAN,
         IsSignals(signals, n),
         side[block] = Numbered(signals, enabled), nports[block] = Places(signals, enabled)
  PROVE  Carries(block) = Lettered(side[block], n, Refreshed(signals, enabled, n))
<1> DEFINE R == Refreshed(signals, enabled, n)
           S == Slots(n, R)
           B(k) == Before(signals, enabled, k)
           list == side[block]
           C(p) == CHOOSE k \in DOMAIN list : p - 1 \in {list[k].port_index, list[k].refresh_index}
           N == nports[block]
<1>1. n \in Nat /\ R \subseteq 1 .. n /\ DOMAIN list = 1 .. n
  <2>1. n \in Nat
    BY ListOfSignals
  <2>2. DOMAIN Numbered(signals, enabled) = 1 .. n
    BY ListOfSignals DEF Numbered
  <2> QED
    BY <2>1, <2>2 DEF Refreshed
<1>2. IsPairs(S) /\ Cardinality(S) = n + Cardinality(R)
  <2> HIDE DEF R
  <2> QED
    BY <1>1, SlotsCount
<1>3. N = n + Cardinality(R)
  <2>1. N = Before(signals, enabled, n + 1)
    BY PlacesAreBefore
  <2>2. n + 1 - 1 = n
    BY <1>1
  <2>3. Before(signals, enabled, n + 1) = n + Cardinality(R)
    BY <1>1, <2>2 DEF Before
  <2> QED
    BY <2>1, <2>3
<1>4. DOMAIN InOrder(S) = 1 .. N
  <2> HIDE DEF S, R
  <2> QED
    BY <1>2, <1>3, InOrderIs
<1>5. ASSUME NEW p \in 1 .. N
      PROVE  Label(list[C(p)], IF p - 1 = list[C(p)].port_index THEN "data" ELSE "refresh")
               = Label(list[InOrder(S)[p][1]], IF InOrder(S)[p][2] = 0 THEN "data" ELSE "refresh")
  <2>1. InOrder(S)[p] \in S /\ Rank(S, InOrder(S)[p]) = p - 1
    <3> HIDE DEF S, R
    <3> QED
      BY <1>2, <1>3, InOrderIs
  <2>2. PICK k \in 1 .. n, w \in {0, 1} : InOrder(S)[p] = <<k, w>> /\ (w = 1 => k \in R)
    <3> HIDE DEF R
    <3> QED
      BY <2>1, SlotIs
  <2>3. k \in Nat /\ k >= 1 /\ k - 1 \in Nat
    BY <1>1
  <2>4. Rank(S, <<k, 0>>) = B(k) /\ (k \in R => Rank(S, <<k, 1>>) = B(k) + 1)
    <3>1. R \cap 1 .. k - 1 = Refreshed(signals, enabled, k - 1)
      BY <1>1 DEF Refreshed
    <3>2. /\ Rank(S, <<k, 0>>) = k - 1 + Cardinality(R \cap 1 .. k - 1)
          /\ k \in R => Rank(S, <<k, 1>>) = Rank(S, <<k, 0>>) + 1
      <4> HIDE DEF R
      <4> QED
        BY <1>1, SlotRank
    <3> QED
      BY <3>1, <3>2 DEF Before
  <2>5. k \in R <=> HasPort(signals[k], enabled)
    BY DEF Refreshed
  <2>6. /\ list[k].port_index = B(k)
        /\ k \in R => list[k].refresh_index = B(k) + 1
    BY <2>5, NumberedSignal
  <2>7. /\ B(k) \in Nat
        /\ k \in R => B(k + 1) = B(k) + 2
        /\ k \notin R => B(k + 1) = B(k) + 1
    BY <2>3, <2>5, BeforeNext
  <2> HIDE DEF R, S
  <2>8. (w = 0 /\ p - 1 = B(k)) \/ (w = 1 /\ k \in R /\ p - 1 = B(k) + 1)
    BY <2>1, <2>2, <2>4
  <2>9. p - 1 \in Nat /\ B(k) <= p - 1 /\ p - 1 < B(k + 1)
    <3> HIDE DEF B
    <3> QED
      BY <2>7, <2>8
  <2>10. \A l \in 1 .. n : l # k => list[l].port_index # p - 1 /\ list[l].refresh_index # p - 1
    BY <2>9, OtherSignalsElsewhere
  <2>11. p - 1 \in {list[k].port_index, list[k].refresh_index}
    BY <2>6, <2>8
  <2> HIDE DEF list
  <2>12. C(p) = k
    BY <1>1, <2>10, <2>11
  <2>13. p - 1 = list[k].port_index <=> w = 0
    <3> HIDE DEF B
    <3> QED
      BY <2>6, <2>7, <2>8
  <2> HIDE DEF C
  <2> QED
    BY <2>2, <2>12, <2>13
<1>6. Carries(block)
        = [p \in 1 .. N |-> Label(list[C(p)],
                                  IF p - 1 = list[C(p)].port_index THEN "data" ELSE "refresh")]
  BY DEF Carries
<1>7. Lettered(list, n, R)
        = [p \in 1 .. N |-> Label(list[InOrder(S)[p][1]],
                                  IF InOrder(S)[p][2] = 0 THEN "data" ELSE "refresh")]
  BY <1>4 DEF Lettered
<1> HIDE DEF C, list, N, S
<1> QED
  BY <1>5, <1>6, <1>7 DEF list

-----------------------------------------------------------------------------
(* The mask's lists. *)

(* The numbers of a set in their order. *)
LEMMA AscendingIs ==
  ASSUME NEW T, T \subseteq Nat, IsFiniteSet(T)
  PROVE  /\ Cardinality(T) \in Nat /\ DOMAIN Ascending(T) = 1 .. Cardinality(T)
         /\ \A k \in 1 .. Cardinality(T) :
              /\ Ascending(T)[k] \in T
              /\ Cardinality({y \in T : y < Ascending(T)[k]}) = k - 1
         /\ \A k, l \in 1 .. Cardinality(T) : k < l => Ascending(T)[k] < Ascending(T)[l]
         /\ \A x \in T : /\ Cardinality({y \in T : y < x}) + 1 \in 1 .. Cardinality(T)
                         /\ Ascending(T)[Cardinality({y \in T : y < x}) + 1] = x
<1> DEFINE S == T \X {0}
           n == Cardinality(T)
           A == Ascending(T)
           C(x) == Cardinality({y \in T : y < x})
<1>1. IsFiniteSet(S) /\ Cardinality(S) = n /\ n \in Nat
  BY TaggedCount, FS_CardinalityType
<1>2. \A s \in S : s[1] \in T /\ s = <<s[1], 0>>
  BY TaggedPair, Zenon
<1>3. IsPairs(S)
  <2>1. \A s \in S : s[1] \in Nat
    BY <1>2
  <2> HIDE DEF S
  <2>2. S \subseteq Nat \X Nat
    BY <1>2, <2>1
  <2> QED
    BY <1>1, <2>2 DEF IsPairs
<1>4. DOMAIN A = 1 .. n /\ \A k \in 1 .. n : A[k] = InOrder(S)[k][1]
  <2>1. DOMAIN InOrder(S) = 1 .. n
    <3> HIDE DEF S
    <3> QED
      BY <1>1, <1>3, InOrderIs
  <2> QED
    BY <2>1 DEF Ascending
<1>5. ASSUME NEW x \in T
      PROVE  <<x, 0>> \in S /\ Rank(S, <<x, 0>>) = C(x)
  <2> DEFINE F == {y \in T : y < x}
             G == {q \in S : Earlier(q, <<x, 0>>)}
  <2>1. G = F \X {0}
    BY DEF Earlier
  <2>2. IsFiniteSet(F)
    BY FS_Subset
  <2>3. Cardinality(G) = Cardinality(F)
    <3> HIDE DEF F, G
    <3> QED
      BY <2>1, <2>2, TaggedCount
  <2> QED
    BY <2>3 DEF Rank
<1>6. ASSUME NEW k \in 1 .. n
      PROVE  /\ A[k] \in T /\ C(A[k]) = k - 1
             /\ InOrder(S)[k] = <<A[k], 0>>
  <2>1. InOrder(S)[k] \in S /\ Rank(S, InOrder(S)[k]) = k - 1
    <3> HIDE DEF S
    <3> QED
      BY <1>1, <1>3, InOrderIs
  <2>2. InOrder(S)[k] = <<A[k], 0>> /\ A[k] \in T
    <3> HIDE DEF S, A
    <3> QED
      BY <1>4, <1>2, <2>1
  <2> HIDE DEF S, A, C
  <2> QED
    BY <1>5, <2>1, <2>2
<1>7. ASSUME NEW k \in 1 .. n, NEW l \in 1 .. n, k < l
      PROVE  A[k] < A[l]
  <2>1. Earlier(InOrder(S)[k], InOrder(S)[l])
    <3> HIDE DEF S
    <3> QED
      BY <1>1, <1>3, <1>7, InOrderGrows
  <2>2. Earlier(<<A[k], 0>>, <<A[l], 0>>)
    BY <1>6, <2>1
  <2> HIDE DEF A
  <2> QED
    BY <2>2 DEF Earlier
<1>8. ASSUME NEW x \in T
      PROVE  C(x) + 1 \in 1 .. n /\ A[C(x) + 1] = x
  <2> DEFINE k == C(x) + 1
  <2>1. k \in 1 .. n /\ InOrder(S)[k] = <<x, 0>>
    <3> HIDE DEF S, C
    <3> QED
      BY <1>1, <1>3, <1>5, InOrderIs
  <2> HIDE DEF C, A, S
  <2> QED
    BY <1>4, <2>1
<1> HIDE DEF A, S
<1> QED
  BY <1>1, <1>4, <1>6, <1>7, <1>8 DEF A

(* What the mask finds in a configuration: a message, its kind and a direction. *)
Word(direction) == IF direction \in Directions THEN direction ELSE "UNKNOWN"

(* The k-th signal of a configuration is that of the j-th message on one side. *)
ComesFrom(content, k, block, j) ==
  LET signal == Mex(content)[k]
      p      == InOrder(Present(block, content))[j]
  IN  /\ j \in 1 .. Cardinality(Present(block, content))
      /\ k = (IF block = "Send" THEN j ELSE Cardinality(Present("Send", content)) + j)
      /\ signal.of = p
      /\ signal.signal_type = content[p[1]].kind
      /\ signal.direction = Word(DirectionOn(block, content[p[1]], p[2]))

(* What is kept of a signal. *)
LEMMA FilledSignal ==
  ASSUME NEW i, NEW j, NEW s, NEW direction
  PROVE  /\ FillStructure(Signal(i, j, s, direction)).of = <<i, j>>
         /\ FillStructure(Signal(i, j, s, direction)).signal_type = s.kind
         /\ FillStructure(Signal(i, j, s, direction)).direction = Word(direction)
<1> QED
  BY DEF FillStructure, Signal, Word

(* The configuration has the sent signals in front and the received ones behind. *)
LEMMA MexIs ==
  ASSUME NEW content \in Contents
  PROVE  /\ Cardinality(Present("Send", content)) \in Nat
         /\ Cardinality(Present("Receive", content)) \in Nat
         /\ DOMAIN Mex(content) = 1 .. Cardinality(Present("Send", content))
                                         + Cardinality(Present("Receive", content))
         /\ \A block \in Blocks : \A j \in 1 .. Cardinality(Present(block, content)) :
              ComesFrom(content,
                        IF block = "Send" THEN j ELSE Cardinality(Present("Send", content)) + j,
                        block, j)
<1> DEFINE a == Sides[content]["Send"]
           b == Sides[content]["Receive"]
           na == Cardinality(Present("Send", content))
           nb == Cardinality(Present("Receive", content))
<1>1. "Send" \in Blocks /\ "Receive" \in Blocks
  BY DEF Blocks
<1>2. /\ na \in Nat /\ DOMAIN a = 1 .. na /\ a = [k \in 1 .. na |-> a[k]]
      /\ nb \in Nat /\ DOMAIN b = 1 .. nb /\ b = [k \in 1 .. nb |-> b[k]]
  BY <1>1, SideIs
<1> DEFINE c == a \o b
<1>3. /\ DOMAIN c = 1 .. na + nb
      /\ \A k \in 1 .. na : c[k] = a[k]
      /\ \A k \in 1 .. nb : c[na + k] = b[k]
  <2> HIDE DEF a, b, na, nb
  <2> DEFINE V == {a[k] : k \in 1 .. na} \cup {b[k] : k \in 1 .. nb}
  <2>6. a \in [1 .. na -> V] /\ b \in [1 .. nb -> V]
    BY <1>2
  <2> HIDE DEF V
  <2>1. a \in Seq(V) /\ b \in Seq(V) /\ Len(a) = na /\ Len(b) = nb
    BY <1>2, <2>6
  <2>7. /\ c \in Seq(V) /\ Len(c) = na + nb
        /\ \A k \in 1 .. na + nb : c[k] = IF k <= na THEN a[k] ELSE b[k - na]
    BY <2>1, ConcatProperties
  <2> HIDE DEF c
  <2>3. DOMAIN c = 1 .. na + nb
    BY <2>7
  <2>2. \A k \in 1 .. na + nb : c[k] = IF k <= na THEN a[k] ELSE b[k - na]
    BY <2>7
  <2>4. ASSUME NEW k \in 1 .. na
        PROVE  c[k] = a[k]
    <3>1. k \in 1 .. na + nb /\ k <= na
      BY <1>2
    <3> QED
      BY <2>2, <3>1
  <2>5. ASSUME NEW k \in 1 .. nb
        PROVE  c[na + k] = b[k]
    <3>1. na + k \in 1 .. na + nb /\ ~(na + k <= na) /\ (na + k) - na = k
      BY <1>2
    <3> QED
      BY <2>2, <3>1
  <2> QED
    BY <2>3, <2>4, <2>5
<1>4. Mex(content) = [k \in DOMAIN c |-> FillStructure(c[k])]
  BY DEF Mex, Filled
<1>5. ASSUME NEW block \in Blocks, NEW j \in 1 .. Cardinality(Present(block, content))
      PROVE  ComesFrom(content, IF block = "Send" THEN j ELSE na + j, block, j)
  <2> DEFINE k == IF block = "Send" THEN j ELSE na + j
             p == InOrder(Present(block, content))[j]
             list == Sides[content][block]
  <2>1. k \in DOMAIN c /\ c[k] = list[j]
    <3>1. CASE block = "Send"
      <4> HIDE DEF c, a, b, na, nb
      <4>1. list = a /\ j \in 1 .. na
        BY <3>1 DEF a, na
      <4> HIDE DEF list
      <4> QED
        BY <1>2, <1>3, <3>1, <4>1
    <3>2. CASE block = "Receive"
      <4> HIDE DEF c, a, b, na, nb
      <4>1. list = b /\ j \in 1 .. nb /\ k = na + j
        BY <3>2 DEF b, nb
      <4> HIDE DEF list, k
      <4>2. k \in 1 .. na + nb
        BY <1>2, <4>1
      <4> QED
        BY <1>3, <4>1, <4>2
    <3> QED
      BY <3>1, <3>2 DEF Blocks
  <2>2. p \in Present(block, content)
    BY SideIs
  <2>3. list[j] = Signal(p[1], p[2], content[p[1]], DirectionOn(block, content[p[1]], p[2]))
    BY SideIs
  <2>4. p = <<p[1], p[2]>>
    <3>1. p \in Nat \X Nat
      BY <2>2, PresentPairs DEF IsPairs
    <3> HIDE DEF p
    <3> QED
      BY <3>1
  <2> HIDE DEF c, k, p, list
  <2>5. Mex(content)[k] = FillStructure(list[j])
    BY <1>4, <2>1
  <2>6. /\ Mex(content)[k].of = p
        /\ Mex(content)[k].signal_type = content[p[1]].kind
        /\ Mex(content)[k].direction = Word(DirectionOn(block, content[p[1]], p[2]))
    BY <2>3, <2>4, <2>5, FilledSignal
  <2>7. k = IF block = "Send" THEN j ELSE na + j
    BY DEF k
  <2>8. ComesFrom(content, k, block, j)
    BY <2>6, <2>7 DEF ComesFrom, p
  <2> QED
    BY <2>7, <2>8
<1> HIDE DEF c
<1> QED
  BY <1>2, <1>3, <1>4, <1>5

(* So each of its signals comes from one side. *)
LEMMA MexFrom ==
  ASSUME NEW content \in Contents, NEW k \in DOMAIN Mex(content)
  PROVE  \E block \in Blocks : \E j \in Nat : ComesFrom(content, k, block, j)
<1> DEFINE na == Cardinality(Present("Send", content))
           nb == Cardinality(Present("Receive", content))
<1>1. /\ na \in Nat /\ nb \in Nat /\ DOMAIN Mex(content) = 1 .. na + nb
      /\ \A j \in 1 .. na : ComesFrom(content, j, "Send", j)
      /\ \A j \in 1 .. nb : ComesFrom(content, na + j, "Receive", j)
  BY MexIs DEF Blocks
<1> HIDE DEF na, nb
<1>2. CASE k \in 1 .. na
  BY <1>1, <1>2 DEF Blocks
<1>3. CASE k \notin 1 .. na
  <2>1. k - na \in 1 .. nb /\ na + (k - na) = k /\ k - na \in Nat
    BY <1>1, <1>3
  <2> QED
    BY <1>1, <2>1 DEF Blocks
<1> QED
  BY <1>2, <1>3

(* A message that has a signal is a message of the file. *)
LEMMA PresentIs ==
  ASSUME NEW content \in Contents, NEW block \in Blocks, NEW p \in Present(block, content)
  PROVE  /\ p \in Nat \X Nat
         /\ p[1] \in DOMAIN content /\ p[2] \in DOMAIN content[p[1]].messages
         /\ content[p[1]].kind \in Kinds /\ content[p[1]].direction \in Directions
         /\ DirectionOn(block, content[p[1]], p[2]) # "NONE"
<1>1. p \in Nat \X Nat
  BY PresentPairs DEF IsPairs
<1>2. PICK n \in Nat : /\ DOMAIN content = 1 .. n
                       /\ \A i \in 1 .. n :
                            content[i].kind \in Kinds /\ content[i].direction \in Directions
  BY ContentIs
<1>3. /\ DirectionOn(block, content[p[1]], p[2]) # "NONE"
      /\ \E i \in DOMAIN content : p \in {i} \X DOMAIN content[i].messages
  BY DEF Present
<1>4. PICK i \in DOMAIN content : p \in {i} \X DOMAIN content[i].messages
  BY <1>3
<1>5. p[1] = i /\ p[2] \in DOMAIN content[i].messages
  BY <1>4
<1> QED
  BY <1>1, <1>2, <1>3, <1>5

(* The directions that the mask takes for those of its block. *)
Own(block) == {Opposite(block), "INOUT"}

IsA825At(content, p) == content[p[1]].kind = "A825"

(* A825 messages have signals on both sides. *)
LEMMA A825OnBothSides ==
  ASSUME NEW content \in Contents, NEW b \in Blocks, NEW block \in Blocks,
         NEW p \in Present(b, content), IsA825At(content, p)
  PROVE  p \in Present(block, content)
<1>1. DirectionOn(block, content[p[1]], p[2]) # "NONE"
  BY DEF IsA825At, DirectionOn, Kinds
<1> QED
  BY <1>1 DEF Present

(* Other messages have a signal on one side at most. *)
LEMMA OthersOnOneSide ==
  ASSUME NEW content \in Contents, NEW b \in Blocks, NEW block \in Blocks,
         NEW p \in Present(b, content), p \in Present(block, content), ~IsA825At(content, p)
  PROVE  b = block
<1> DEFINE s == content[p[1]]
           d == s.messages[p[2]]
<1>1. /\ s.kind \in {"ASSISTANT", "A429", "A664"} /\ s.direction \in Directions
      /\ DirectionOn(b, s, p[2]) # "NONE" /\ DirectionOn(block, s, p[2]) # "NONE"
  BY PresentIs DEF IsA825At, Kinds
<1> HIDE DEF s
<1>2. CASE s.kind = "ASSISTANT"
  <2>1. s.direction = Opposite(b) /\ s.direction = Opposite(block)
    BY <1>1, <1>2 DEF DirectionOn
  <2> QED
    BY <2>1 DEF Opposite, Blocks
<1>3. CASE s.kind = "A429"
  <2>1. d = Opposite(b) /\ d = Opposite(block)
    BY <1>1, <1>3 DEF DirectionOn
  <2> QED
    BY <2>1 DEF Opposite, Blocks
<1>4. CASE s.kind = "A664"
  <2>1. s.direction = Opposite(b) /\ s.direction = Opposite(block)
    BY <1>1, <1>4 DEF DirectionOn
  <2> QED
    BY <2>1 DEF Opposite, Blocks
<1> QED
  BY <1>1, <1>2, <1>3, <1>4

(* An A825 message has the wrong direction on its own side, and that of the block on the
   other. *)
LEMMA A825IsSwapped ==
  ASSUME NEW content \in Contents, NEW b \in Blocks, NEW block \in Blocks,
         NEW p \in Present(b, content), IsA825At(content, p)
  PROVE  Word(DirectionOn(b, content[p[1]], p[2])) \in Own(block) <=> b # block
<1>1. DirectionOn(b, content[p[1]], p[2]) = IF b = "Receive" THEN "OUT" ELSE "IN"
  BY DEF IsA825At, DirectionOn
<1> QED
  BY <1>1 DEF Word, Own, Opposite, Blocks, Directions

(* Other messages have that of their side, if the CMD file agrees. *)
LEMMA OthersAreRight ==
  ASSUME NEW content \in Contents, NEW b \in Blocks, NEW block \in Blocks,
         Agreeing(content), NEW p \in Present(b, content), ~IsA825At(content, p)
  PROVE  Word(DirectionOn(b, content[p[1]], p[2])) \in Own(block) <=> b = block
<1> DEFINE s == content[p[1]]
           d == s.messages[p[2]]
<1>1. /\ s.kind \in {"ASSISTANT", "A429", "A664"} /\ s.direction \in Directions
      /\ DirectionOn(b, s, p[2]) # "NONE"
      /\ s.kind = "A664" => d = s.direction
  <2>1. p[1] \in DOMAIN content /\ p[2] \in DOMAIN s.messages
    BY PresentIs
  <2>2. ~Disagrees(s, p[2])
    BY <2>1 DEF Agreeing
  <2> QED
    BY <2>2, PresentIs DEF IsA825At, Kinds, Disagrees
<1> HIDE DEF s
<1>2. DirectionOn(b, s, p[2]) = Opposite(b)
  <2>1. CASE s.kind = "ASSISTANT"
    BY <1>1, <2>1 DEF DirectionOn
  <2>2. CASE s.kind = "A429"
    BY <1>1, <2>2 DEF DirectionOn
  <2>3. CASE s.kind = "A664"
    BY <1>1, <2>3 DEF DirectionOn
  <2> QED
    BY <1>1, <2>1, <2>2, <2>3
<1> QED
  BY <1>2 DEF Word, Own, Opposite, Blocks, Directions, s

(* The signals of the configuration that the mask takes for those of its block. *)
OwnPlaces(content, block) ==
  {k \in DOMAIN Mex(content) : Mex(content)[k].direction \in Own(block)}

(* Their places in the configuration. *)
Place(content, block, m) == Ascending(OwnPlaces(content, block))[m]

LEMMA ListedIs ==
  ASSUME NEW content \in Contents, NEW block \in Blocks, Configuration = Mex(content),
         NEW n, n = Cardinality(OwnPlaces(content, block))
  PROVE  /\ n \in Nat /\ DOMAIN Listed(block) = 1 .. n /\ Len(Listed(block)) = n
         /\ \A m \in 1 .. n : /\ Place(content, block, m) \in OwnPlaces(content, block)
                              /\ Listed(block)[m] = Mex(content)[Place(content, block, m)]
         /\ \A m, l \in 1 .. n :
              m < l => Place(content, block, m) < Place(content, block, l)
         /\ \A k \in OwnPlaces(content, block) : \E m \in 1 .. n : Place(content, block, m) = k
<1> DEFINE T == OwnPlaces(content, block)
           A == Ascending(T)
<1>1. T \subseteq Nat /\ IsFiniteSet(T)
  <2>1. PICK l \in Nat : DOMAIN Mex(content) = 1 .. l
    <3>1. \A a, b \in Nat : a + b \in Nat
      OBVIOUS
    <3> QED
      BY <3>1, MexIs
  <2>2. IsFiniteSet(1 .. l) /\ T \subseteq 1 .. l
    BY <2>1, FS_Interval DEF OwnPlaces
  <2>3. T \subseteq Nat
    BY <2>1 DEF OwnPlaces
  <2> HIDE DEF T
  <2>4. IsFiniteSet(T)
    BY <2>2, FS_Subset
  <2> QED
    BY <2>3, <2>4
<1> HIDE DEF T
<1>2. /\ n \in Nat /\ DOMAIN A = 1 .. n
      /\ \A k \in 1 .. n : A[k] \in T
      /\ \A k, l \in 1 .. n : k < l => A[k] < A[l]
  BY <1>1, AscendingIs DEF T
<1>3. \A x \in T : \E k \in 1 .. n : A[k] = x
  BY <1>1, AscendingIs DEF T
<1>4. Listed(block) = [k \in DOMAIN A |-> Mex(content)[A[k]]]
  BY DEF Listed, T, OwnPlaces, Own
<1> HIDE DEF A
<1>5. /\ DOMAIN Listed(block) = 1 .. n /\ Len(Listed(block)) = n
      /\ \A m \in 1 .. n : Listed(block)[m] = Mex(content)[A[m]]
  BY <1>2, <1>4
<1> QED
  BY <1>2, <1>3, <1>5 DEF Place, A, T

(* The m-th signal that the mask lists is that of the j-th message on the side b. *)
IsListed(content, block, m, b, j) ==
  LET p == InOrder(Present(b, content))[j]
  IN  /\ ComesFrom(content, Place(content, block, m), b, j)
      /\ p \in Present(b, content)
      /\ Listed(block)[m].of = p
      /\ Listed(block)[m].signal_type = content[p[1]].kind
      /\ Word(DirectionOn(b, content[p[1]], p[2])) \in Own(block)

LEMMA ListedFrom ==
  ASSUME NEW content \in Contents, NEW block \in Blocks, Configuration = Mex(content),
         NEW m \in 1 .. Cardinality(OwnPlaces(content, block))
  PROVE  \E b \in Blocks : \E j \in Nat : IsListed(content, block, m, b, j)
<1> DEFINE k == Place(content, block, m)
<1>1. k \in OwnPlaces(content, block) /\ Listed(block)[m] = Mex(content)[k]
  BY ListedIs
<1>2. k \in DOMAIN Mex(content) /\ Mex(content)[k].direction \in Own(block)
  BY <1>1 DEF OwnPlaces
<1> HIDE DEF k
<1>3. PICK b \in Blocks, j \in Nat : ComesFrom(content, k, b, j)
  BY <1>2, MexFrom
<1>4. j \in 1 .. Cardinality(Present(b, content))
  BY <1>3 DEF ComesFrom
<1>5. InOrder(Present(b, content))[j] \in Present(b, content)
  BY <1>4, SideIs
<1>6. IsListed(content, block, m, b, j)
  BY <1>1, <1>2, <1>3, <1>5 DEF IsListed, ComesFrom, k
<1> QED
  BY <1>6

(* No message is listed twice: A825 messages are only on one side what the mask takes
   for its own. *)
LEMMA ListedOnce ==
  ASSUME NEW content \in Contents, NEW block \in Blocks, Configuration = Mex(content),
         NEW m \in 1 .. Cardinality(OwnPlaces(content, block)),
         NEW l \in 1 .. Cardinality(OwnPlaces(content, block)),
         Listed(block)[m].of = Listed(block)[l].of
  PROVE  m = l
<1>1. PICK b \in Blocks, i \in Nat : IsListed(content, block, m, b, i)
  BY ListedFrom
<1>2. PICK c \in Blocks, j \in Nat : IsListed(content, block, l, c, j)
  BY ListedFrom
<1> DEFINE p == InOrder(Present(b, content))[i]
<1>3. p = InOrder(Present(c, content))[j]
  BY <1>1, <1>2 DEF IsListed
<1>4. p \in Present(b, content) /\ p \in Present(c, content)
  BY <1>1, <1>2, <1>3 DEF IsListed
<1>5. b = c
  <2>1. /\ Word(DirectionOn(b, content[p[1]], p[2])) \in Own(block)
        /\ Word(DirectionOn(c, content[p[1]], p[2])) \in Own(block)
    BY <1>1, <1>2, <1>3 DEF IsListed
  <2>2. CASE IsA825At(content, p)
    <3>1. b # block /\ c # block
      BY <1>4, <2>1, <2>2, A825IsSwapped
    <3> QED
      BY <3>1 DEF Blocks
  <2>3. CASE ~IsA825At(content, p)
    BY <1>4, <2>3, OthersOnOneSide
  <2> QED
    BY <2>2, <2>3
<1>6. i \in 1 .. Cardinality(Present(b, content)) /\ j \in 1 .. Cardinality(Present(b, content))
  BY <1>1, <1>2, <1>5 DEF IsListed, ComesFrom
<1>7. i = j
  <2>1. Rank(Present(b, content), p) = i - 1 /\ Rank(Present(b, content), p) = j - 1
    BY <1>3, <1>5, <1>6, PresentPairs, InOrderIs
  <2> QED
    BY <2>1
<1>8. Place(content, block, m) = Place(content, block, l)
  BY <1>1, <1>2, <1>5, <1>7 DEF IsListed, ComesFrom
<1>9. ~(m < l) /\ ~(l < m)
  <2>1. /\ m < l => Place(content, block, m) < Place(content, block, l)
        /\ l < m => Place(content, block, l) < Place(content, block, m)
    BY ListedIs
  <2>2. Place(content, block, m) \in Nat
    <3>1. Place(content, block, m) \in DOMAIN Mex(content)
      BY ListedIs DEF OwnPlaces
    <3>2. \A a, d \in Nat : a + d \in Nat
      OBVIOUS
    <3> QED
      BY <3>1, <3>2, MexIs
  <2> QED
    BY <1>8, <2>1, <2>2
<1>10. m \in Nat /\ l \in Nat
  BY ListedIs
<1> QED
  BY <1>9, <1>10

-----------------------------------------------------------------------------
(* The order of the labels. *)

(* If the CMD file agrees, the mask takes A825 messages from the other side and all other
   messages from its own. *)
LEMMA ListedSide ==
  ASSUME NEW content \in Contents, NEW block \in Blocks, Agreeing(content),
         NEW m, NEW b \in Blocks, NEW j, IsListed(content, block, m, b, j)
  PROVE  b = block <=> ~IsA825At(content, Listed(block)[m].of)
<1> DEFINE p == InOrder(Present(b, content))[j]
<1>1. /\ p \in Present(b, content) /\ Listed(block)[m].of = p
      /\ Word(DirectionOn(b, content[p[1]], p[2])) \in Own(block)
  BY DEF IsListed
<1> HIDE DEF p
<1> QED
  BY <1>1, A825IsSwapped, OthersAreRight

(* So A825 messages are listed first by the Receive block and last by the Send block;
   within the two groups the order is that of the file. *)
LEMMA ListedOrder ==
  ASSUME NEW content \in Contents, NEW block \in Blocks, Configuration = Mex(content),
         Agreeing(content),
         NEW m \in 1 .. Cardinality(OwnPlaces(content, block)),
         NEW l \in 1 .. Cardinality(OwnPlaces(content, block)), m < l
  PROVE  LET p == Listed(block)[m].of
             q == Listed(block)[l].of
         IN  IF IsA825At(content, p) <=> IsA825At(content, q)
             THEN Earlier(p, q) ELSE IsA825At(content, p) <=> block = "Receive"
<1> DEFINE p == Listed(block)[m].of
           q == Listed(block)[l].of
           na == Cardinality(Present("Send", content))
<1>1. PICK b \in Blocks, i \in Nat : IsListed(content, block, m, b, i)
  BY ListedFrom
<1>2. PICK c \in Blocks, j \in Nat : IsListed(content, block, l, c, j)
  BY ListedFrom
<1>3. (b = block <=> ~IsA825At(content, p)) /\ (c = block <=> ~IsA825At(content, q))
  BY <1>1, <1>2, ListedSide
<1>4. Place(content, block, m) < Place(content, block, l)
  BY ListedIs
<1>5. /\ i \in 1 .. Cardinality(Present(b, content))
      /\ Place(content, block, m) = IF b = "Send" THEN i ELSE na + i
      /\ p = InOrder(Present(b, content))[i]
  BY <1>1 DEF IsListed, ComesFrom
<1>6. /\ j \in 1 .. Cardinality(Present(c, content))
      /\ Place(content, block, l) = IF c = "Send" THEN j ELSE na + j
      /\ q = InOrder(Present(c, content))[j]
  BY <1>2 DEF IsListed, ComesFrom
<1>7. na \in Nat
  BY MexIs
<1> HIDE DEF p, q, na
<1>8. CASE b = c
  <2>1. i < j
    BY <1>4, <1>5, <1>6, <1>7, <1>8
  <2>2. Earlier(p, q)
    BY <1>5, <1>6, <1>8, <2>1, PresentPairs, InOrderGrows
  <2>3. IsA825At(content, p) <=> IsA825At(content, q)
    BY <1>3, <1>8
  <2> QED
    BY <2>2, <2>3 DEF p, q
<1>9. CASE b # c
  <2>1. b = "Send"
    <3> SUFFICES ASSUME b # "Send"
                 PROVE  FALSE
      OBVIOUS
    <3>1. b = "Receive" /\ c = "Send"
      BY <1>9 DEF Blocks
    <3>2. j <= na
      BY <1>6, <1>7, <3>1 DEF na
    <3> QED
      BY <1>4, <1>5, <1>6, <1>7, <3>1, <3>2
  <2>2. ~(IsA825At(content, p) <=> IsA825At(content, q))
    BY <1>3, <1>9 DEF Blocks
  <2>3. IsA825At(content, p) <=> block = "Receive"
    BY <1>3, <2>1 DEF Blocks
  <2> QED
    BY <2>2, <2>3 DEF p, q
<1> QED
  BY <1>8, <1>9

(* The mask lists the messages that the block has. *)
LEMMA ListedAll ==
  ASSUME NEW content \in Contents, NEW block \in Blocks, Configuration = Mex(content),
         Agreeing(content)
  PROVE  /\ \A m \in 1 .. Cardinality(OwnPlaces(content, block)) :
              Listed(block)[m].of \in Present(block, content)
         /\ \A p \in Present(block, content) :
              \E m \in 1 .. Cardinality(OwnPlaces(content, block)) : Listed(block)[m].of = p
<1>1. ASSUME NEW m \in 1 .. Cardinality(OwnPlaces(content, block))
      PROVE  Listed(block)[m].of \in Present(block, content)
  <2>1. PICK b \in Blocks, j \in Nat : IsListed(content, block, m, b, j)
    BY ListedFrom
  <2>2. Listed(block)[m].of \in Present(b, content)
    BY <2>1 DEF IsListed
  <2>3. b = block <=> ~IsA825At(content, Listed(block)[m].of)
    BY <2>1, ListedSide
  <2> QED
    BY <2>2, <2>3, A825OnBothSides
<1>2. ASSUME NEW p \in Present(block, content)
      PROVE  \E m \in 1 .. Cardinality(OwnPlaces(content, block)) : Listed(block)[m].of = p
  <2>1. PICK b \in Blocks : p \in Present(b, content) /\ (b = block <=> ~IsA825At(content, p))
    <3>1. CASE IsA825At(content, p)
      <4>1. PICK b \in Blocks : b # block
        BY DEF Blocks
      <4> QED
        BY <3>1, <4>1, A825OnBothSides
    <3>2. CASE ~IsA825At(content, p)
      BY <3>2
    <3> QED
      BY <3>1, <3>2
  <2>2. Word(DirectionOn(b, content[p[1]], p[2])) \in Own(block)
    BY <2>1, A825IsSwapped, OthersAreRight
  <2>3. PICK j \in 1 .. Cardinality(Present(b, content)) : InOrder(Present(b, content))[j] = p
    BY <2>1, PresentPairs, InOrderIs
  <2> DEFINE k == IF b = "Send" THEN j ELSE Cardinality(Present("Send", content)) + j
  <2>4. ComesFrom(content, k, b, j)
    BY MexIs
  <2>5. k \in DOMAIN Mex(content)
    <3> DEFINE na == Cardinality(Present("Send", content))
               nb == Cardinality(Present("Receive", content))
    <3>1. na \in Nat /\ nb \in Nat /\ DOMAIN Mex(content) = 1 .. na + nb
      BY MexIs
    <3>2. (b = "Send" /\ j \in 1 .. na) \/ (b = "Receive" /\ j \in 1 .. nb)
      BY DEF Blocks
    <3> HIDE DEF nb
    <3>3. k = IF b = "Send" THEN j ELSE na + j
      OBVIOUS
    <3> HIDE DEF na, k
    <3> QED
      BY <3>1, <3>2, <3>3
  <2> HIDE DEF k
  <2>6. Mex(content)[k].of = p /\ Mex(content)[k].direction \in Own(block)
    BY <2>2, <2>3, <2>4 DEF ComesFrom
  <2>7. k \in OwnPlaces(content, block)
    BY <2>5, <2>6 DEF OwnPlaces
  <2>8. PICK m \in 1 .. Cardinality(OwnPlaces(content, block)) : Place(content, block, m) = k
    BY <2>7, ListedIs
  <2>9. Listed(block)[m] = Mex(content)[k]
    BY <2>8, ListedIs
  <2> QED
    BY <2>6, <2>9
<1> QED
  BY <1>1, <1>2

(* The A825 messages of a block are where its labels have them. *)
A825Fit(content, block) ==
  \A k, l \in 1 .. Cardinality(Present(block, content)) : k < l =>
    LET p == InOrder(Present(block, content))[k]
        q == InOrder(Present(block, content))[l]
    IN  IF block = "Receive" THEN IsA825At(content, q) => IsA825At(content, p)
                             ELSE IsA825At(content, p) => IsA825At(content, q)

(* Then the list of the mask is that of the connector. *)
LEMMA FitMeansSameList ==
  ASSUME NEW content \in Contents, NEW block \in Blocks, Configuration = Mex(content),
         Agreeing(content), A825Fit(content, block),
         NEW n, n = Cardinality(OwnPlaces(content, block))
  PROVE  /\ n = Cardinality(Present(block, content))
         /\ \A m \in 1 .. n : Listed(block)[m].of = InOrder(Present(block, content))[m]
<1> DEFINE S == Present(block, content)
           f == [m \in 1 .. n |-> Listed(block)[m].of]
<1>1. /\ n \in Nat
      /\ \A m \in 1 .. n : f[m] \in S
      /\ \A p \in S : \E m \in 1 .. n : f[m] = p
  BY ListedIs, ListedAll
<1>2. IsPairs(S)
  BY PresentPairs
<1>3. ASSUME NEW m \in 1 .. n, NEW l \in 1 .. n, m < l
      PROVE  Earlier(f[m], f[l])
  <2> DEFINE p == f[m]
             q == f[l]
  <2>1. IF IsA825At(content, p) <=> IsA825At(content, q)
        THEN Earlier(p, q) ELSE IsA825At(content, p) <=> block = "Receive"
    BY <1>3, ListedOrder
  <2>2. p \in S /\ q \in S
    BY <1>1
  <2> HIDE DEF p, q, S
  <2>3. PICK x \in 1 .. Cardinality(S), y \in 1 .. Cardinality(S) :
          InOrder(S)[x] = p /\ InOrder(S)[y] = q
    BY <1>2, <2>2, InOrderIs
  <2>4. y < x => IF block = "Receive" THEN IsA825At(content, p) => IsA825At(content, q)
                                      ELSE IsA825At(content, q) => IsA825At(content, p)
    BY <2>3 DEF A825Fit, S
  <2>5. x < y \/ y < x \/ p = q
    BY <1>2, <2>3, InOrderIs
  <2>6. x < y => Earlier(p, q)
    BY <1>2, <2>3, InOrderGrows
  <2>7. CASE IsA825At(content, p) <=> IsA825At(content, q)
    BY <2>1, <2>7 DEF p, q
  <2>8. CASE ~(IsA825At(content, p) <=> IsA825At(content, q))
    BY <2>1, <2>4, <2>5, <2>6, <2>8 DEF p, q
  <2> QED
    BY <2>7, <2>8
<1>4. Lists(f, n, S)
  <2> HIDE DEF f, S
  <2> QED
    BY <1>1, <1>3 DEF Lists
<1>5. n = Cardinality(S) /\ \A m \in 1 .. n : f[m] = InOrder(S)[m]
  <2> HIDE DEF f, S
  <2> QED
    BY <1>2, <1>4, OneList
<1> QED
  BY <1>5

-----------------------------------------------------------------------------
(* Labels and ports. *)

(* What the connector knows of the k-th signal after it has numbered the ports. *)
LEMMA SideNumbered ==
  ASSUME NEW content \in Contents, NEW block \in Blocks, NEW enabled \in BOOLEAN,
         NEW k \in 1 .. Cardinality(Present(block, content))
  PROVE  LET p == InOrder(Present(block, content))[k]
             s == Numbered(Sides[content][block], enabled)[k]
         IN  /\ p \in Present(block, content)
             /\ s.of = p /\ s.stream_type = content[p[1]].kind
             /\ HasPort(Sides[content][block][k], enabled)
                  <=> enabled /\ content[p[1]].kind # "ASSISTANT"
<1> DEFINE p == InOrder(Present(block, content))[k]
           list == Sides[content][block]
           s == Numbered(list, enabled)[k]
           f == FirstPort(list, k, enabled)
           r == IF HasPort(list[k], enabled) THEN f + 1 ELSE -1
           d == DirectionOn(block, content[p[1]], p[2])
<1>1. /\ p \in Present(block, content) /\ DOMAIN list = 1 .. Cardinality(Present(block, content))
      /\ list[k] = Signal(p[1], p[2], content[p[1]], d)
  BY SideIs
<1>2. s = [list[k] EXCEPT !.port_index = f, !.refresh_index = r]
  BY <1>1 DEF Numbered
<1>3. p = <<p[1], p[2]>>
  <2>1. p \in Nat \X Nat
    BY <1>1, PresentIs
  <2> HIDE DEF p
  <2> QED
    BY <2>1
<1> HIDE DEF p, list, f, r, d
<1>4. s.of = <<p[1], p[2]>> /\ s.stream_type = content[p[1]].kind
  BY <1>1, <1>2 DEF Signal
<1>5. list[k].is_refresh <=> content[p[1]].kind # "ASSISTANT"
  <2>1. list[k].is_refresh = (content[p[1]].kind # "ASSISTANT")
    BY <1>1 DEF Signal
  <2> QED
    BY <2>1
<1> QED
  BY <1>1, <1>3, <1>4, <1>5 DEF HasPort, p, list

(* Labels are told by their signals. *)
LEMMA SameSignalsSameLabels ==
  ASSUME NEW n \in Nat, NEW R, R \subseteq 1 .. n, NEW f, NEW g,
         \A k \in 1 .. n : f[k].of = g[k].of
  PROVE  Lettered(f, n, R) = Lettered(g, n, R)
<1> DEFINE S == Slots(n, R)
<1>1. ASSUME NEW p \in DOMAIN InOrder(S)
      PROVE  Label(f[InOrder(S)[p][1]], IF InOrder(S)[p][2] = 0 THEN "data" ELSE "refresh")
               = Label(g[InOrder(S)[p][1]], IF InOrder(S)[p][2] = 0 THEN "data" ELSE "refresh")
  <2> DEFINE t == InOrder(S)[p]
  <2>1. t \in S
    <3>1. IsPairs(S)
      BY SlotsCount
    <3> HIDE DEF S
    <3> QED
      BY <3>1, InOrderIs
  <2> HIDE DEF t
  <2>2. t[1] \in 1 .. n
    BY <2>1 DEF Slots
  <2>3. f[t[1]].of = g[t[1]].of
    BY <2>2
  <2> QED
    BY <2>3, EqualLabels DEF t
<1> HIDE DEF S
<1> QED
  BY <1>1 DEF Lettered, S

(* getPorts labels the slots of the signals that it lists. *)
LEMMA LabelsAre ==
  ASSUME NEW content \in Contents, NEW block \in Blocks, Configuration = Mex(content),
         refresh[block] \in BOOLEAN,
         NEW n, n = Cardinality(OwnPlaces(content, block))
  PROVE  /\ n \in Nat
         /\ Labels(block) = Lettered(Listed(block), n,
                              {k \in 1 .. n : refresh[block] /\ Refreshable(Listed(block)[k])})
<1> DEFINE list == Listed(block)
           enabled == refresh[block] /\ (block = "Send" => IsRefresh)
           Q == {k \in DOMAIN list : enabled /\ Refreshable(list[k])}
           R == {k \in 1 .. n : refresh[block] /\ Refreshable(list[k])}
<1>1. n \in Nat /\ DOMAIN list = 1 .. n /\ Len(list) = n
  BY ListedIs
<1>2. ASSUME NEW k \in 1 .. n, Refreshable(list[k])
      PROVE  IsRefresh
  <2>1. /\ Place(content, block, k) \in OwnPlaces(content, block)
        /\ list[k] = Mex(content)[Place(content, block, k)]
    BY ListedIs
  <2>2. Place(content, block, k) \in DOMAIN Configuration
    BY <2>1 DEF OwnPlaces
  <2>3. Refreshable(Configuration[Place(content, block, k)])
    BY <1>2, <2>1
  <2> QED
    BY <2>2, <2>3 DEF IsRefresh
<1>3. Q = R
  <2> HIDE DEF list
  <2> QED
    BY <1>1, <1>2
<1>4. Labels(block) = Lettered(list, Len(list), Q)
  BY DEF Labels, Lettered
<1> HIDE DEF Q, R, list
<1> QED
  BY <1>1, <1>3, <1>4 DEF list, R

(* The labels are right exactly if the A825 messages are where the mask has them. *)
LEMMA LabelsFit ==
  ASSUME NEW content \in Contents, NEW block \in Blocks, Configuration = Mex(content),
         Agreeing(content), refresh[block] \in BOOLEAN,
         side[block] = Numbered(Sides[content][block], refresh[block]),
         nports[block] = Places(Sides[content][block], refresh[block])
  PROVE  Labels(block) = Carries(block) <=> A825Fit(content, block)
<1> DEFINE S == Present(block, content)
           n == Cardinality(S)
           N == Cardinality(OwnPlaces(content, block))
           list == Listed(block)
           R == Refreshed(Sides[content][block], refresh[block], n)
           Q == {k \in 1 .. N : refresh[block] /\ Refreshable(list[k])}
<1>1. n \in Nat /\ DOMAIN side[block] = 1 .. n
  <2>1. n \in Nat /\ DOMAIN Sides[content][block] = 1 .. n
    BY SideIs
  <2> QED
    BY <2>1 DEF Numbered
<1>2. Carries(block) = Lettered(side[block], n, R)
  BY SidesAreSignals, CarriesIs
<1>3. N \in Nat /\ Labels(block) = Lettered(list, N, Q)
  BY LabelsAre
<1>4. R \subseteq 1 .. n /\ Q \subseteq 1 .. N
  BY DEF Refreshed
<1>5. \A k \in 1 .. n :
        /\ side[block][k].of = InOrder(S)[k]
        /\ k \in R <=> refresh[block] /\ content[InOrder(S)[k][1]].kind # "ASSISTANT"
        /\ InOrder(S)[k] \in S
  BY SideNumbered DEF Refreshed
<1>6. ASSUME NEW k \in 1 .. N
      PROVE  Refreshable(list[k]) <=> content[list[k].of[1]].kind # "ASSISTANT"
  <2>1. PICK b \in Blocks, j \in Nat : IsListed(content, block, k, b, j)
    BY ListedFrom
  <2>2. list[k].of \in Present(b, content) /\ list[k].signal_type = content[list[k].of[1]].kind
    BY <2>1 DEF IsListed
  <2>3. content[list[k].of[1]].kind \in Kinds
    BY <2>2, PresentIs
  <2> HIDE DEF list
  <2> QED
    BY <2>2, <2>3 DEF Refreshable, TYPES_FOR_REFRESH, Kinds
<1> HIDE DEF R, Q, list, N, S, n
<1>7. ASSUME A825Fit(content, block)
      PROVE  Labels(block) = Carries(block)
  <2>1. N = n /\ \A k \in 1 .. n : list[k].of = InOrder(S)[k]
    BY <1>7, FitMeansSameList DEF N, S, n, list
  <2>2. Q = R
    <3>1. \A k \in 1 .. n : k \in Q <=> refresh[block] /\ Refreshable(list[k])
      BY <2>1 DEF Q
    <3>2. \A k \in 1 .. n : k \in Q <=> k \in R
      BY <1>5, <1>6, <2>1, <3>1
    <3> QED
      BY <1>4, <2>1, <3>2
  <2>3. Lettered(list, n, R) = Lettered(side[block], n, R)
    BY <1>1, <1>4, <1>5, <2>1, SameSignalsSameLabels
  <2> QED
    BY <1>2, <1>3, <2>1, <2>2, <2>3
<1>8. ASSUME Labels(block) = Carries(block), NEW k \in 1 .. n, NEW l \in 1 .. n, k < l
      PROVE  IF block = "Receive"
             THEN IsA825At(content, InOrder(S)[l]) => IsA825At(content, InOrder(S)[k])
             ELSE IsA825At(content, InOrder(S)[k]) => IsA825At(content, InOrder(S)[l])
  <2> DEFINE g == side[block]
  <2>4. Lettered(list, N, Q) = Lettered(g, n, R)
    BY <1>2, <1>3, <1>8
  <2>5. \E i, j \in 1 .. N : i < j /\ list[i].of = g[k].of /\ list[j].of = g[l].of
    <3>1. n \in Nat /\ N \in Nat /\ R \subseteq 1 .. n /\ Q \subseteq 1 .. N
      BY <1>1, <1>3, <1>4
    <3>2. k < l
      BY <1>8
    <3> HIDE DEF g
    <3>3. SameLabels(list, N, Q, g, n, R)
      BY <2>4, <3>1 DEF SameLabels
    <3> QED
      BY <3>2, <3>3, SameLabelsSameOrder
  <2>1. PICK i \in 1 .. N, j \in 1 .. N :
          i < j /\ list[i].of = side[block][k].of /\ list[j].of = side[block][l].of
    BY <2>5
  <2>2. list[i].of = InOrder(S)[k] /\ list[j].of = InOrder(S)[l]
    BY <1>5, <2>1
  <2>3. IF IsA825At(content, list[i].of) <=> IsA825At(content, list[j].of)
        THEN Earlier(list[i].of, list[j].of)
        ELSE IsA825At(content, list[i].of) <=> block = "Receive"
    BY <2>1, ListedOrder DEF N, list
  <2> QED
    BY <2>2, <2>3
<1>9. ASSUME Labels(block) = Carries(block)
      PROVE  A825Fit(content, block)
  BY <1>8, <1>9 DEF A825Fit, S, n
<1> QED
  BY <1>7, <1>9

(* The order of the signals of the connector says the same. *)
LEMMA FitMeansInOrder ==
  ASSUME NEW content \in Contents, NEW block \in Blocks, NEW enabled \in BOOLEAN,
         side[block] = Numbered(Sides[content][block], enabled)
  PROVE  InLabelOrder(block) <=> A825Fit(content, block)
<1> DEFINE n == Cardinality(Present(block, content))
<1>1. DOMAIN side[block] = 1 .. n
  BY SideIs DEF Numbered
<1>2. \A k \in 1 .. n : IsA825(side[block][k])
                          <=> IsA825At(content, InOrder(Present(block, content))[k])
  BY SideNumbered DEF IsA825, IsA825At
<1> HIDE DEF n
<1> QED
  BY <1>1, <1>2 DEF InLabelOrder, A825Fit, n

-----------------------------------------------------------------------------
(* The wires of the bus. *)

(* The numbers after those of W. *)
LEMMA ShiftedCount ==
  ASSUME NEW n \in Nat, NEW W, W \subseteq 1 .. n, NEW m \in Int
  PROVE  /\ IsFiniteSet({w + 1 : w \in W})
         /\ Cardinality({w + 1 : w \in W}) = Cardinality(W)
         /\ Cardinality({w + 1 : w \in W} \cap 1 .. m) = Cardinality(W \cap 1 .. m - 1)
<1> DEFINE U(V) == {w + 1 : w \in V}
<1>1. IsFiniteSet(W)
  <2>1. IsFiniteSet(1 .. n)
    BY FS_Interval
  <2> QED
    BY <2>1, FS_Subset
<1>2. ASSUME NEW V, V \subseteq W
      PROVE  IsFiniteSet(U(V)) /\ Cardinality(U(V)) = Cardinality(V)
  <2> DEFINE f == [w \in V |-> w + 1]
  <2>1. IsFiniteSet(V)
    BY <1>1, <1>2, FS_Subset
  <2>2. f \in Bijection(V, U(V))
    <3>1. \A w \in V : w \in Int /\ f[w] = w + 1 /\ f[w] \in U(V)
      BY <1>2
    <3>2. \A u \in U(V) : \E w \in V : f[w] = u
      OBVIOUS
    <3>3. f \in [V -> U(V)]
      OBVIOUS
    <3> HIDE DEF f, U
    <3> QED
      BY <3>1, <3>2, <3>3 DEF Bijection, Injection, Surjection, IsInjective
  <2>3. ExistsBijection(V, U(V))
    BY <2>2 DEF ExistsBijection
  <2> HIDE DEF U
  <2> QED
    BY <2>1, <2>3, FS_Bijection
<1>3. U(W) \cap 1 .. m = U(W \cap 1 .. m - 1)
  <2>1. \A w \in W : w + 1 \in 1 .. m <=> w \in 1 .. m - 1
    OBVIOUS
  <2> QED
    BY <2>1
<1>4. W \cap 1 .. m - 1 \subseteq W
  OBVIOUS
<1>5. IsFiniteSet(U(W)) /\ Cardinality(U(W)) = Cardinality(W)
  BY <1>2
<1>6. Cardinality(U(W \cap 1 .. m - 1)) = Cardinality(W \cap 1 .. m - 1)
  <2> HIDE DEF U
  <2> QED
    BY <1>2, <1>4
<1> QED
  BY <1>3, <1>5, <1>6

(* What is left when the ports behind the places in W are struck out. *)
Left(W, l) == {p \in 1 .. l : p - 1 \notin W}

(* x has x - 1 ports in front of it but for those struck out. *)
Counted(n, W, l, x) ==
  /\ Left(W, l) \subseteq Nat /\ IsFiniteSet(Left(W, l))
  /\ Cardinality(Left(W, l)) \in Nat /\ Cardinality(Left(W, l)) >= n
  /\ Cardinality(W \cap 1 .. x - 2) \in Nat
  /\ Cardinality({y \in Left(W, l) : y < x}) = x - 1 - Cardinality(W \cap 1 .. x - 2)

LEMMA LeftCount ==
  ASSUME NEW n \in Nat, NEW W, W \subseteq 1 .. n,
         NEW l, l = n + Cardinality(W), NEW x \in 1 .. l
  PROVE  Counted(n, W, l, x)
<1> DEFINE U == {w + 1 : w \in W}
           T == Left(W, l)
           m == x - 1
<1>1. IsFiniteSet(W) /\ Cardinality(W) \in Nat
  <2>1. IsFiniteSet(1 .. n)
    BY FS_Interval
  <2> QED
    BY <2>1, FS_Subset, FS_CardinalityType
<1>2. l \in Nat /\ m \in Nat /\ m <= l /\ m \in Int /\ m - 1 = x - 2
  BY <1>1
<1>3. ASSUME NEW k \in 0 .. l
      PROVE  /\ IsFiniteSet((1 .. k) \ U)
             /\ Cardinality((1 .. k) \ U) = k - Cardinality(U \cap 1 .. k)
  <2>1. k \in Nat
    BY <1>2
  <2>2. IsFiniteSet(1 .. k) /\ Cardinality(1 .. k) = k
    BY <2>1, FS_Interval
  <2>3. (1 .. k) \cap U = U \cap 1 .. k
    OBVIOUS
  <2> HIDE DEF U
  <2> QED
    BY <2>2, <2>3, FS_Difference
<1>4. \A p \in 1 .. l : p - 1 \notin W <=> p \notin U
  <2>1. \A p \in Int : p \in U => p - 1 \in W
    OBVIOUS
  <2>2. \A p \in Int : p - 1 \in W => p \in U
    <3> SUFFICES ASSUME NEW p \in Int, p - 1 \in W
                 PROVE  p \in U
      OBVIOUS
    <3>1. p = (p - 1) + 1
      OBVIOUS
    <3> QED
      BY <3>1
  <2> HIDE DEF U
  <2> QED
    BY <1>2, <2>1, <2>2
<1>5. T = (1 .. l) \ U /\ T \subseteq Nat
  BY <1>2, <1>4 DEF Left
<1>6. {y \in T : y < x} = (1 .. m) \ U
  <2>1. \A y \in 1 .. l : y < x <=> y \in 1 .. m
    BY <1>2
  <2>2. \A y \in 1 .. m : y \in 1 .. l
    BY <1>2
  <2> HIDE DEF T, U, m
  <2> QED
    BY <1>5, <2>1, <2>2
<1>7. /\ IsFiniteSet(U) /\ Cardinality(U) = Cardinality(W)
      /\ Cardinality(U \cap 1 .. m) = Cardinality(W \cap 1 .. m - 1)
  BY <1>2, ShiftedCount
<1> HIDE DEF U, T, m
<1>8. ASSUME NEW V
      PROVE  Cardinality(U \cap V) \in Nat /\ Cardinality(U \cap V) <= Cardinality(W)
  BY <1>1, <1>7, FS_Intersection, FS_CardinalityType
<1>9. IsFiniteSet(T) /\ Cardinality(T) \in Nat /\ Cardinality(T) >= n
  <2>1. l \in 0 .. l
    BY <1>2
  <2>2. IsFiniteSet(T) /\ Cardinality(T) = l - Cardinality(U \cap 1 .. l)
    BY <1>3, <1>5, <2>1
  <2>3. Cardinality(U \cap 1 .. l) \in Nat /\ Cardinality(U \cap 1 .. l) <= Cardinality(W)
    BY <1>8
  <2> QED
    BY <1>1, <2>2, <2>3
<1>10. Cardinality({y \in T : y < x}) = m - Cardinality(W \cap 1 .. m - 1)
  <2>1. m \in 0 .. l
    BY <1>2
  <2> QED
    BY <1>3, <1>6, <1>7, <2>1
<1>11. Cardinality(W \cap 1 .. m - 1) \in Nat
  BY <1>7, <1>8
<1> QED
  BY <1>2, <1>5, <1>9, <1>10, <1>11 DEF T, m, Counted

(* The k-th of the remaining ports is that of the k-th signal, if it has no refresh,
   exactly if none of the next c - 1 signals has, with c before it. *)
LeftAt(n, W, l, k) ==
  LET c == Cardinality(W \cap 1 .. k - 1)
      p == Ascending(Left(W, l))[k]
  IN  p \in 1 .. l /\ (p = k + c <=> W \cap k + 1 .. k + c - 1 = {})

LEMMA RemainingAt ==
  ASSUME NEW n \in Nat, NEW W, W \subseteq 1 .. n, NEW l, l = n + Cardinality(W),
         NEW k \in 1 .. n, k \notin W
  PROVE  LeftAt(n, W, l, k)
<1> DEFINE c == Cardinality(W \cap 1 .. k - 1)
           x == k + c
           T == Left(W, l)
           A == Ascending(T)
           F == W \cap 1 .. k - 1
           G == W \cap k + 1 .. k + c - 2
           D == W \cap 1 .. x - 2
<1>1. IsFiniteSet(W) /\ Cardinality(W) \in Nat
  <2>1. IsFiniteSet(1 .. n)
    BY FS_Interval
  <2> QED
    BY <2>1, FS_Subset, FS_CardinalityType
<1>2. IsFiniteSet(F) /\ c \in Nat /\ c <= Cardinality(W)
  BY <1>1, FS_Intersection, FS_CardinalityType
<1>3. x \in 1 .. l /\ l \in Nat
  BY <1>1, <1>2
<1>4. /\ T \subseteq Nat /\ IsFiniteSet(T) /\ Cardinality(T) \in Nat /\ Cardinality(T) >= n
      /\ Cardinality(D) \in Nat
      /\ Cardinality({y \in T : y < x}) = x - 1 - Cardinality(D)
  <2> HIDE DEF x
  <2>1. x \in 1 .. l
    BY <1>3
  <2>2. Counted(n, W, l, x)
    BY <2>1, LeftCount
  <2> QED
    BY <2>2 DEF Counted
<1>5. k \in 1 .. Cardinality(T)
  BY <1>4
<1>6. /\ A[k] \in T /\ Cardinality({y \in T : y < A[k]}) = k - 1
      /\ x \in T => A[Cardinality({y \in T : y < x}) + 1] = x
  <2> HIDE DEF T, x
  <2> QED
    BY <1>4, <1>5, AscendingIs
<1>7. A[k] = x <=> x \in T /\ Cardinality({y \in T : y < x}) = k - 1
  <2>1. x \in T /\ Cardinality({y \in T : y < x}) = k - 1 => A[(k - 1) + 1] = x
    <3> HIDE DEF T, A, x
    <3> QED
      BY <1>6
  <2>2. (k - 1) + 1 = k
    OBVIOUS
  <2> HIDE DEF T, A, x
  <2> QED
    BY <1>6, <2>1, <2>2
<1>8. A[k] = x <=> x - 1 \notin W /\ Cardinality(D) = c
  <2>1. x \in T <=> x - 1 \notin W
    BY <1>3 DEF Left
  <2>2. x - 1 - Cardinality(D) = k - 1 <=> Cardinality(D) = c
    <3> HIDE DEF D
    <3> QED
      BY <1>2, <1>4
  <2> QED
    BY <1>4, <1>7, <2>1, <2>2
<1>9. \A w \in W : w \in Int /\ w >= 1 /\ w # k
  OBVIOUS
<1>10. ASSUME c = 0
       PROVE  x - 1 \notin W /\ Cardinality(D) = c <=> W \cap k + 1 .. k + c - 1 = {}
  <2>1. F = {}
    BY <1>2, <1>10, FS_EmptySet
  <2>2. D = {}
    <3>1. D \subseteq F
      BY <1>9, <1>10
    <3> QED
      BY <2>1, <3>1
  <2>3. x - 1 \notin W
    <3>1. \A w \in W : w # k - 1
      BY <1>9, <2>1
    <3> QED
      BY <1>10, <3>1
  <2>4. W \cap k + 1 .. k + c - 1 = {}
    BY <1>10
  <2>5. Cardinality(D) = c
    BY <1>10, <2>2, FS_EmptySet
  <2> QED
    BY <2>3, <2>4, <2>5
<1>11. ASSUME c >= 1
       PROVE  x - 1 \notin W /\ Cardinality(D) = c <=> W \cap k + 1 .. k + c - 1 = {}
  <2>1. D = F \cup G
    <3>1. \A w \in W : w \in 1 .. x - 2 <=> w \in 1 .. k - 1 \/ w \in k + 1 .. k + c - 2
      BY <1>2, <1>9, <1>11
    <3> QED
      BY <3>1
  <2>2. F \cap G = {}
    BY <1>9
  <2>3. IsFiniteSet(G)
    BY <1>1, FS_Intersection
  <2>4. W \cap k + 1 .. k + c - 1 = {} <=> G = {} /\ x - 1 \notin W
    <3>1. \A w \in W : w \in k + 1 .. k + c - 1 <=> w \in k + 1 .. k + c - 2 \/ w = x - 1
      BY <1>2, <1>9, <1>11
    <3>2. x - 1 \in W => x - 1 \in W \cap k + 1 .. k + c - 1
      BY <3>1
    <3> QED
      BY <3>1, <3>2
  <2>5. Cardinality(D) = c <=> G = {}
    <3>1. Cardinality(D) = Cardinality(F) + Cardinality(G) - Cardinality(F \cap G)
      <4> HIDE DEF D, F, G
      <4> QED
        BY <1>2, <2>1, <2>3, FS_Union
    <3>2. Cardinality(F \cap G) = 0 /\ Cardinality(G) \in Nat
      BY <2>2, <2>3, FS_EmptySet, FS_CardinalityType
    <3>3. Cardinality(G) = 0 <=> G = {}
      BY <2>3, FS_EmptySet
    <3>4. Cardinality(F) = c
      OBVIOUS
    <3> HIDE DEF D, F, G
    <3> QED
      BY <1>2, <3>1, <3>2, <3>3, <3>4
  <2> QED
    BY <2>4, <2>5
<1>12. A[k] \in 1 .. l
  BY <1>6 DEF Left
<1>13. A[k] = x <=> W \cap k + 1 .. k + c - 1 = {}
  <2>1. c = 0 \/ c >= 1
    BY <1>2
  <2> HIDE DEF A, x, D
  <2> QED
    BY <2>1, <1>8, <1>10, <1>11
<1> QED
  BY <1>12, <1>13 DEF LeftAt

(* No two signals of the list are of the same message. *)
Distinct(list, n) == \A i, j \in 1 .. n : list[i].of = list[j].of => i = j

(* The label for the data of the k-th of them stands on one port only. *)
OnlyAt(list, n, R, k, p) ==
  Lettered(list, n, R)[p] = Label(list[k], "data") <=> p = k + Cardinality(R \cap 1 .. k - 1)

LEMMA LabelPlace ==
  ASSUME NEW n \in Nat, NEW R, R \subseteq 1 .. n, NEW list, Distinct(list, n),
         NEW k \in 1 .. n, NEW p \in 1 .. n + Cardinality(R)
  PROVE  OnlyAt(list, n, R, k, p)
<1> DEFINE S == Slots(n, R)
           q == k + Cardinality(R \cap 1 .. k - 1)
<1>1. /\ Lettered(list, n, R)[q] = Label(list[k], "data")
      /\ InOrder(S)[q] = <<k, 0>> /\ q \in 1 .. n + Cardinality(R)
  <2>1. DataAt(list, n, R, k)
    BY LetteredAt
  <2> QED
    BY <2>1 DEF DataAt
<1>2. IsPairs(S) /\ Cardinality(S) = n + Cardinality(R) /\ Cardinality(R) \in Nat
      /\ DOMAIN InOrder(S) = 1 .. n + Cardinality(R)
  BY SlotsCount, LetteredIs
<1> HIDE DEF q, S
<1>3. ASSUME Lettered(list, n, R)[p] = Label(list[k], "data")
      PROVE  p = q
  <2>1. InOrder(S)[p] \in S /\ Rank(S, InOrder(S)[p]) = p - 1
    BY <1>2, InOrderIs
  <2>2. Rank(S, InOrder(S)[q]) = q - 1
    BY <1>1, <1>2, InOrderIs
  <2>3. PICK i \in 1 .. n, w \in {0, 1} : InOrder(S)[p] = <<i, w>>
    BY <2>1, SlotIs DEF S
  <2>4. Lettered(list, n, R)[p] = Label(list[i], IF w = 0 THEN "data" ELSE "refresh")
    <3>1. Lettered(list, n, R)[p] = Label(list[InOrder(S)[p][1]],
                                          IF InOrder(S)[p][2] = 0 THEN "data" ELSE "refresh")
      BY <1>2 DEF Lettered, S
    <3> QED
      BY <2>3, <3>1
  <2>5. list[i].of = list[k].of /\ (IF w = 0 THEN "data" ELSE "refresh") = "data"
    BY <1>3, <2>4, EqualLabels
  <2>6. i = k /\ w = 0
    BY <2>5 DEF Distinct
  <2>7. p - 1 = q - 1
    BY <1>1, <2>1, <2>2, <2>3, <2>6
  <2> QED
    BY <1>1, <1>2, <2>7
<1> QED
  BY <1>1, <1>3 DEF q, OnlyAt

(* The elements with refresh in front of the k-th, and those among as many behind it,
   less one. *)
FrontOf(list, k) == {i \in 1 .. k - 1 : Refreshable(list[i])}
Behind(list, k) ==
  {i \in k + 1 .. k + Cardinality(FrontOf(list, k)) - 1 : i \in DOMAIN list /\ Refreshable(list[i])}

(* What createBus makes of the labels: the k-th element gets its own signal or not. *)
LEMMA WiresAre ==
  ASSUME NEW content \in Contents, Configuration = Mex(content),
         refresh["Receive"] \in BOOLEAN, NEW k \in DOMAIN Elements
  PROVE  Labels("Receive")[Sources[k][1]] = Label(Elements[k], "data")
           <=> (~refresh["Receive"] \/ Refreshable(Elements[k]) \/ Behind(Elements, k) = {})
<1> DEFINE n == Cardinality(OwnPlaces(content, "Receive"))
           list == Listed("Receive")
           W == WithRefresh
           R == {i \in 1 .. n : refresh["Receive"] /\ Refreshable(list[i])}
           c == Cardinality(W \cap 1 .. k - 1)
           l == n + Cardinality(W)
<1>1. "Receive" \in Blocks /\ Elements = list
  BY DEF Blocks, Elements
<1>2. n \in Nat /\ DOMAIN list = 1 .. n
  BY <1>1, ListedIs
<1>3. Labels("Receive") = Lettered(list, n, R)
  <2> HIDE DEF n, list
  <2> QED
    BY <1>1, LabelsAre DEF n, list
<1>4. Distinct(list, n)
  <2> SUFFICES ASSUME NEW i \in 1 .. n, NEW j \in 1 .. n, list[i].of = list[j].of
               PROVE  i = j
    BY DEF Distinct
  <2> QED
    BY <1>1, ListedOnce
<1> HIDE DEF n, list
<1>5. k \in 1 .. n /\ Elements[k] = list[k]
  BY <1>1, <1>2
<1>6. R \subseteq 1 .. n /\ W \subseteq 1 .. n
  BY <1>1, <1>2 DEF WithRefresh
<1>7. Refreshable(Elements[k]) <=> k \in W
  BY DEF WithRefresh
<1>8. ASSUME ~refresh["Receive"]
      PROVE  Labels("Receive")[Sources[k][1]] = Label(Elements[k], "data")
  <2>1. R = {}
    BY <1>8
  <2>2. Sources[k] = <<k>>
    BY <1>8 DEF Sources
  <2>3. Lettered(list, n, R)[k + Cardinality(R \cap 1 .. k - 1)] = Label(list[k], "data")
    <3> HIDE DEF R
    <3>1. DataAt(list, n, R, k)
      BY <1>2, <1>5, <1>6, LetteredAt
    <3> QED
      BY <3>1 DEF DataAt
  <2>4. Cardinality(R \cap 1 .. k - 1) = 0
    BY <2>1, FS_EmptySet
  <2>5. k + 0 = k
    BY <1>2, <1>5
  <2> HIDE DEF R
  <2> QED
    BY <1>3, <1>5, <2>2, <2>3, <2>4, <2>5
<1>9. ASSUME refresh["Receive"]
      PROVE  R = W /\ DOMAIN Labels("Receive") = 1 .. l
  <2>1. R = W
    BY <1>1, <1>2, <1>9 DEF WithRefresh
  <2> HIDE DEF R, W
  <2> QED
    BY <1>2, <1>3, <1>6, <2>1, LetteredIs
<1>10. ASSUME refresh["Receive"], k \in W
       PROVE  Labels("Receive")[Sources[k][1]] = Label(Elements[k], "data")
  <2> DEFINE p == PortLabelled(Label(Elements[k], "data"))
  <2>1. Sources[k] = <<p, p + 1>>
    BY <1>10 DEF Sources
  <2>2. \E q \in DOMAIN Labels("Receive") : Labels("Receive")[q] = Label(Elements[k], "data")
    <3> HIDE DEF W, R
    <3>1. DataAt(list, n, W, k)
      BY <1>2, <1>5, <1>6, LetteredAt
    <3> QED
      BY <1>3, <1>5, <1>9, <1>10, <3>1 DEF DataAt
  <2>3. Labels("Receive")[p] = Label(Elements[k], "data")
    BY <2>2 DEF PortLabelled
  <2> HIDE DEF p
  <2> QED
    BY <2>1, <2>3
<1>11. ASSUME refresh["Receive"], k \notin W
       PROVE  Labels("Receive")[Sources[k][1]] = Label(Elements[k], "data")
                <=> Behind(Elements, k) = {}
  <2> DEFINE p == Ascending(Left(W, l))[k]
  <2>1. Sources[k] = <<p>>
    <3>1. {q \in DOMAIN Labels("Receive") : q - 1 \notin W} = Left(W, l)
      <4> HIDE DEF W, l, R
      <4> QED
        BY <1>9, <1>11 DEF Left
    <3>2. Remaining = Ascending(Left(W, l))
      BY <3>1 DEF Remaining
    <3> QED
      BY <1>11, <3>2 DEF Sources
  <2>2. p \in 1 .. l /\ (p = k + c <=> W \cap k + 1 .. k + c - 1 = {})
    <3>1. LeftAt(n, W, l, k)
      <4> HIDE DEF W, l
      <4>1. l = n + Cardinality(W)
        BY DEF l
      <4> QED
        BY <1>2, <1>5, <1>6, <1>11, <4>1, RemainingAt
    <3> QED
      BY <3>1 DEF LeftAt
  <2>3. Lettered(list, n, W)[p] = Label(list[k], "data") <=> p = k + c
    <3>1. p \in 1 .. n + Cardinality(W)
      BY <2>2
    <3>2. OnlyAt(list, n, W, k, p)
      <4> HIDE DEF W, p
      <4> QED
        BY <1>2, <1>4, <1>5, <1>6, <3>1, LabelPlace
    <3> QED
      BY <3>2 DEF OnlyAt
  <2>4. Behind(Elements, k) = W \cap k + 1 .. k + c - 1
    <3>1. FrontOf(Elements, k) = W \cap 1 .. k - 1
      BY <1>1, <1>2, <1>5 DEF FrontOf, WithRefresh
    <3>2. Cardinality(FrontOf(Elements, k)) = c
      BY <3>1
    <3>3. \A i : i \in W <=> i \in DOMAIN Elements /\ Refreshable(Elements[i])
      BY DEF WithRefresh
    <3> HIDE DEF W, c
    <3> QED
      BY <3>2, <3>3 DEF Behind
  <2>5. Labels("Receive")[Sources[k][1]] = Lettered(list, n, W)[p]
    <3>1. Sources[k][1] = p
      BY <2>1
    <3> HIDE DEF p, W, R
    <3> QED
      BY <1>3, <1>9, <1>11, <3>1
  <2> HIDE DEF p, c, W, R
  <2> QED
    BY <1>5, <2>2, <2>3, <2>4, <2>5
<1> QED
  BY <1>7, <1>8, <1>10, <1>11

-----------------------------------------------------------------------------
(* The inductive invariant. *)
NumbersRight ==
  \A block \in Blocks : /\ NumbersInRange(side[block], nports[block])
                        /\ NumbersOnce(side[block], nports[block])

(* The configuration in the workspace is that of a file: as long as nobody changed it, of
   the one whose name stands there. *)
ConfigurationTraced ==
  /\ workspace.configuration = <<>> \/ \E c \in Contents : workspace.configuration = Mex(c)
  /\ workspace.file \in FileNames /\ "workspace" \notin outdated =>
       workspace.configuration = Mex(disk[workspace.file])

(* So are the ports that of the file that the connector has read. *)
PortsTraced ==
  connected \in FileNames /\ "connector" \notin outdated =>
    \A block \in Blocks :
      /\ side[block] = Numbered(Sides[disk[connected]][block], seen[block])
      /\ nports[block] = Places(Sides[disk[connected]][block], seen[block])

PortsInv == TypeOK /\ NumbersRight /\ ConfigurationTraced /\ PortsTraced /\ BusRightExactly

(* The tables for the code generation are the numbers of the signals: Send::RTW leaves
   out no refresh port. *)
LEMMA TablesAreNumbers == PortsInv => EveryPortOnce
<1> SUFFICES ASSUME PortsInv, NEW block \in Blocks
             PROVE  /\ \A k \in DOMAIN side[block] :
                         /\ PortIndex(block)[k] \in 0 .. nports[block] - 1
                         /\ RefreshIndex(block)[k] \in -1 .. nports[block] - 1
                    /\ \A p \in 0 .. nports[block] - 1 :
                         \E k \in DOMAIN side[block] :
                           {{l \in DOMAIN side[block] : PortIndex(block)[l] = p},
                            {l \in DOMAIN side[block] : RefreshIndex(block)[l] = p}} = {{k}, {}}
  BY DEF EveryPortOnce
<1>1. NumbersInRange(side[block], nports[block]) /\ NumbersOnce(side[block], nports[block])
  BY DEF PortsInv, NumbersRight
<1>2. \A k \in DOMAIN side[block] : PortIndex(block)[k] = side[block][k].port_index
  BY DEF PortIndex
<1>3. ASSUME NEW k \in DOMAIN side[block]
      PROVE  RefreshIndex(block)[k] = side[block][k].refresh_index
  <2>1. /\ side[block][k].refresh_index \in -1 .. nports[block] - 1
        /\ side[block][k].refresh_index # -1 => side[block][k].is_refresh
    BY <1>1 DEF NumbersInRange
  <2>2. side[block][k].refresh_index = -1 \/ side[block][k].refresh_index >= 0
    BY <2>1
  <2> QED
    BY <2>1, <2>2 DEF RefreshIndex
<1>4. ASSUME NEW p
      PROVE  /\ {l \in DOMAIN side[block] : PortIndex(block)[l] = p}
                  = {l \in DOMAIN side[block] : side[block][l].port_index = p}
             /\ {l \in DOMAIN side[block] : RefreshIndex(block)[l] = p}
                  = {l \in DOMAIN side[block] : side[block][l].refresh_index = p}
  BY <1>2, <1>3
<1>5. ASSUME NEW p \in 0 .. nports[block] - 1
      PROVE  \E k \in DOMAIN side[block] :
               {{l \in DOMAIN side[block] : PortIndex(block)[l] = p},
                {l \in DOMAIN side[block] : RefreshIndex(block)[l] = p}} = {{k}, {}}
  BY <1>1, <1>4 DEF NumbersOnce
<1>6. \A k \in DOMAIN side[block] : /\ PortIndex(block)[k] \in 0 .. nports[block] - 1
                                    /\ RefreshIndex(block)[k] \in -1 .. nports[block] - 1
  BY <1>1, <1>2, <1>3 DEF NumbersInRange
<1> QED
  BY <1>5, <1>6

(* The labels of ports that are up to date. *)
LEMMA TracedLabels == PortsInv => LabelsRightExactly
<1> SUFFICES ASSUME PortsInv, NEW block \in Blocks, UpToDate(block), Agreeing(disk[connected])
             PROVE  Labels(block) = Carries(block) <=> InLabelOrder(block)
  BY DEF LabelsRightExactly
<1> DEFINE content == disk[connected]
<1>1. /\ connected \in FileNames /\ workspace.file = connected
      /\ content # NoFile /\ outdated = {} /\ seen[block] = refresh[block]
  BY DEF UpToDate
<1>2. content \in Contents /\ refresh[block] \in BOOLEAN
  BY <1>1 DEF PortsInv, TypeOK
<1>3. Configuration = Mex(content)
  BY <1>1 DEF PortsInv, ConfigurationTraced, Configuration, Available
<1>4. /\ side[block] = Numbered(Sides[content][block], refresh[block])
      /\ nports[block] = Places(Sides[content][block], refresh[block])
  BY <1>1 DEF PortsInv, PortsTraced
<1> HIDE DEF content
<1>5. Labels(block) = Carries(block) <=> A825Fit(content, block)
  BY <1>2, <1>3, <1>4, LabelsFit DEF content
<1>6. InLabelOrder(block) <=> A825Fit(content, block)
  BY <1>2, <1>4, FitMeansInOrder
<1> QED
  BY <1>5, <1>6

(* A bus that is drawn now. *)
LEMMA NewBusRight ==
  ASSUME PortsInv, CreateBus
  PROVE  BusRightExactly'
<1> DEFINE carried == Carries("Receive")
           labels == Labels("Receive")
<1>1. /\ bus'.elements = Elements /\ bus'.sources = Sources /\ bus'.split = refresh["Receive"]
      /\ bus'.carried = carried
  BY DEF CreateBus
<1>2. bus'.labelled = (labels = carried)
  BY DEF CreateBus
<1>3. refresh["Receive"] \in BOOLEAN
  BY DEF PortsInv, TypeOK, Blocks
<1>4. ASSUME NEW k \in DOMAIN Elements
      PROVE  labels[Sources[k][1]] = Label(Elements[k], "data")
               <=> (~refresh["Receive"] \/ Refreshable(Elements[k]) \/ Behind(Elements, k) = {})
  <2>1. Configuration = <<>> \/ \E c \in Contents : Configuration = Mex(c)
    BY DEF PortsInv, ConfigurationTraced, Configuration
  <2>2. Configuration # <<>>
    <3> SUFFICES ASSUME Configuration = <<>>
                 PROVE  FALSE
      OBVIOUS
    <3>1. {i \in DOMAIN Configuration :
             Configuration[i].direction \in {Opposite("Receive"), "INOUT"}} = {}
      OBVIOUS
    <3>2. DOMAIN Ascending({}) = 1 .. 0
      <4>1. {} \subseteq Nat /\ IsFiniteSet({}) /\ Cardinality({}) = 0
        BY FS_EmptySet
      <4> QED
        BY <4>1, AscendingIs
    <3>3. DOMAIN Elements = 1 .. 0
      BY <3>1, <3>2 DEF Elements, Listed
    <3> QED
      BY <3>3
  <2>3. PICK c \in Contents : Configuration = Mex(c)
    BY <2>1, <2>2
  <2> QED
    BY <1>3, <2>3, WiresAre
<1> SUFFICES ASSUME bus'.labelled, NEW k \in DOMAIN bus'.elements
             PROVE  bus'.carried[bus'.sources[k][1]] = Label(bus'.elements[k], "data")
                      <=> (\/ ~bus'.split \/ Refreshable(bus'.elements[k])
                           \/ Behind(bus'.elements, k) = {})
  BY DEF BusRightExactly, Arrives, Behind, FrontOf, Refreshable
<1>5. labels = carried
  BY <1>2
<1> HIDE DEF labels, carried
<1> QED
  BY <1>1, <1>4, <1>5

(* Before the blocks are initialised there are no ports. *)
LEMMA InitInv == Init => PortsInv
<1> SUFFICES ASSUME Init
             PROVE  PortsInv
  OBVIOUS
<1>1. \A block \in Blocks : side[block] = <<>> /\ nports[block] = 0
  BY DEF Init
<1>2. NumbersRight
  BY <1>1 DEF NumbersRight, NumbersInRange, NumbersOnce
<1>3. 0 \in 0 .. MaxEdits
  BY PortsAssumption
<1>4. TypeOK
  BY <1>1, <1>3 DEF Init, TypeOK, NoConfiguration
<1>5. ConfigurationTraced /\ PortsTraced
  BY PortsAssumption DEF Init, ConfigurationTraced, PortsTraced, NoConfiguration
<1>6. BusRightExactly
  BY DEF Init, BusRightExactly, NoBus
<1> QED
  BY <1>2, <1>4, <1>5, <1>6 DEF PortsInv

(* Every step keeps the types and the numbers; only InitializeSizes makes ports. *)
LEMMA NumbersStep == PortsInv /\ [Next]_vars => TypeOK' /\ NumbersRight'
<1> SUFFICES ASSUME PortsInv, [Next]_vars
             PROVE  TypeOK' /\ NumbersRight'
  OBVIOUS
<1>1. TypeOK /\ NumbersRight
  BY DEF PortsInv
<1>2. ASSUME UNCHANGED <<side, nports>>
      PROVE  /\ NumbersRight'
             /\ \A block \in Blocks : \A k \in DOMAIN side[block] :
                  /\ side'[block][k].port_index \in 0 .. nports'[block] - 1
                  /\ side'[block][k].refresh_index \in -1 .. nports'[block] - 1
  BY <1>1, <1>2 DEF TypeOK, NumbersRight
<1>3. ASSUME NEW f \in FileNames, Save(f)
      PROVE  workspace'.file \in FileNames \cup {"none"}
             /\ outdated' \subseteq {"workspace", "connector"}
  <2>1. CASE Available /\ workspace.file = f
    <3>1. workspace' = workspace /\ outdated' = outdated
      BY <1>3, <2>1 DEF Save
    <3> QED
      BY <1>1, <3>1 DEF TypeOK
  <2>2. CASE ~(Available /\ workspace.file = f)
    <3>1. /\ workspace' = [file |-> f, configuration |-> Mex(disk[f])]
          /\ outdated' = outdated \ {"workspace"}
      BY <1>3, <2>2 DEF Save
    <3>2. workspace'.file = f
      BY <3>1
    <3> QED
      BY <1>1, <3>1, <3>2 DEF TypeOK
  <2> QED
    BY <2>1, <2>2
<1>4. CASE EditFile
  BY <1>1, <1>2, <1>4, PortsAssumption DEF EditFile, TypeOK
<1>5. CASE SetFileName
  BY <1>1, <1>2, <1>5 DEF SetFileName, TypeOK
<1>6. CASE Browse
  BY <1>1, <1>2, <1>3, <1>6 DEF Browse, TypeOK
<1>7. CASE LoadOrInit
  BY <1>1, <1>2, <1>3, <1>7 DEF LoadOrInit, TypeOK
<1>8. CASE SetRefresh
  BY <1>1, <1>2, <1>8 DEF SetRefresh, TypeOK
<1>9. CASE InitializeSizes
  <2> DEFINE signals == Sides[disk[configured]]
  <2>1. disk[configured] \in Contents
    BY <1>1, <1>9 DEF InitializeSizes, TypeOK
  <2>2. ASSUME NEW block \in Blocks
        PROVE  /\ side'[block] = Numbered(signals[block], seen'[block])
               /\ nports'[block] = Places(signals[block], seen'[block])
               /\ seen'[block] \in BOOLEAN
    BY <1>9 DEF InitializeSizes
  <2>3. ASSUME NEW block \in Blocks
        PROVE  /\ NumbersInRange(side'[block], nports'[block])
               /\ NumbersOnce(side'[block], nports'[block])
    <3>1. IsSignals(signals[block], Cardinality(Present(block, disk[configured])))
      BY <2>1, SidesAreSignals
    <3> HIDE DEF signals
    <3> QED
      BY <2>2, <3>1, NumberedInRange, NumberedOnce
  <2>4. NumbersRight'
    BY <2>3 DEF NumbersRight
  <2>5. refresh' \in [Blocks -> BOOLEAN] /\ seen' \in [Blocks -> BOOLEAN]
    BY <1>1, <1>9 DEF InitializeSizes, TypeOK, IsRefresh
  <2>6. \A block \in Blocks : \A k \in DOMAIN side'[block] :
          /\ side'[block][k].port_index \in 0 .. nports'[block] - 1
          /\ side'[block][k].refresh_index \in -1 .. nports'[block] - 1
    BY <2>3 DEF NumbersInRange
  <2>7. /\ connected' = configured /\ outdated' \subseteq outdated
        /\ UNCHANGED <<disk, edits, configured, workspace>>
    BY <1>9 DEF InitializeSizes
  <2>8. TypeOK'
    BY <1>1, <2>5, <2>6, <2>7 DEF TypeOK
  <2> QED
    BY <2>4, <2>8
<1>10. CASE CreateBus
  BY <1>1, <1>2, <1>10 DEF CreateBus, TypeOK
<1>11. CASE UNCHANGED vars
  BY <1>1, <1>2, <1>11 DEF vars, TypeOK
<1> QED
  BY <1>4, <1>5, <1>6, <1>7, <1>8, <1>9, <1>10, <1>11 DEF Next

(* Whoever reads a file is up to date with it, until somebody changes it. *)
LEMMA TracedStep == PortsInv /\ [Next]_vars => ConfigurationTraced' /\ PortsTraced'
<1> SUFFICES ASSUME PortsInv, [Next]_vars
             PROVE  ConfigurationTraced' /\ PortsTraced'
  OBVIOUS
<1>1. TypeOK /\ ConfigurationTraced /\ PortsTraced
  BY DEF PortsInv
<1>2. ASSUME UNCHANGED <<disk, workspace>>, "workspace" \in outdated => "workspace" \in outdated'
      PROVE  ConfigurationTraced'
  BY <1>1, <1>2 DEF ConfigurationTraced
<1>3. ASSUME UNCHANGED <<disk, connected, side, nports, seen>>,
             "connector" \in outdated => "connector" \in outdated'
      PROVE  PortsTraced'
  BY <1>1, <1>3 DEF PortsTraced
<1>4. ASSUME NEW f \in FileNames, disk[f] # NoFile, disk' = disk, Save(f)
      PROVE  ConfigurationTraced' /\ ("connector" \in outdated => "connector" \in outdated')
  <2>1. CASE Available /\ workspace.file = f
    <3>1. workspace' = workspace /\ outdated' = outdated
      BY <1>4, <2>1 DEF Save
    <3> QED
      BY <1>2, <1>4, <3>1
  <2>2. CASE ~(Available /\ workspace.file = f)
    <3>1. /\ workspace' = [file |-> f, configuration |-> Mex(disk[f])]
          /\ outdated' = outdated \ {"workspace"}
      BY <1>4, <2>2 DEF Save
    <3>2. workspace'.file = f /\ workspace'.configuration = Mex(disk[f])
      BY <3>1
    <3>3. disk[f] \in Contents
      BY <1>1, <1>4 DEF TypeOK
    <3> QED
      BY <1>4, <3>1, <3>2, <3>3 DEF ConfigurationTraced
  <2> QED
    BY <2>1, <2>2
<1>5. CASE EditFile
  <2>1. PICK f \in FileNames, c \in Contents \cup {NoFile} :
          /\ disk' = [disk EXCEPT ![f] = c]
          /\ outdated' = outdated \cup (IF f = workspace.file THEN {"workspace"} ELSE {})
                                  \cup (IF f = connected THEN {"connector"} ELSE {})
    BY <1>5 DEF EditFile
  <2>2. UNCHANGED <<configured, workspace, connected, side, nports, seen>>
    BY <1>5 DEF EditFile
  <2>3. \A g \in FileNames : g # f => disk'[g] = disk[g]
    BY <1>1, <2>1 DEF TypeOK
  <2>4. ConfigurationTraced'
    BY <1>1, <2>1, <2>2, <2>3 DEF ConfigurationTraced
  <2>5. PortsTraced'
    BY <1>1, <2>1, <2>2, <2>3 DEF PortsTraced
  <2> QED
    BY <2>4, <2>5
<1>6. CASE SetFileName
  BY <1>2, <1>3, <1>6 DEF SetFileName
<1>7. CASE Browse
  BY <1>3, <1>4, <1>7 DEF Browse
<1>8. CASE LoadOrInit
  <2>1. configured \in FileNames
    BY <1>1 DEF TypeOK
  <2> QED
    BY <1>3, <1>4, <1>8, <2>1 DEF LoadOrInit
<1>9. CASE SetRefresh
  BY <1>2, <1>3, <1>9 DEF SetRefresh
<1>10. CASE InitializeSizes
  <2>1. ConfigurationTraced'
    BY <1>2, <1>10 DEF InitializeSizes
  <2>2. connected' = configured /\ disk' = disk
    BY <1>10 DEF InitializeSizes
  <2>3. ASSUME NEW block \in Blocks
        PROVE  /\ side'[block] = Numbered(Sides[disk[configured]][block], seen'[block])
               /\ nports'[block] = Places(Sides[disk[configured]][block], seen'[block])
    BY <1>10 DEF InitializeSizes
  <2>4. PortsTraced'
    BY <2>2, <2>3 DEF PortsTraced
  <2> QED
    BY <2>1, <2>4
<1>11. CASE CreateBus
  BY <1>2, <1>3, <1>11 DEF CreateBus
<1>12. CASE UNCHANGED vars
  BY <1>2, <1>3, <1>12 DEF vars
<1> QED
  BY <1>5, <1>6, <1>7, <1>8, <1>9, <1>10, <1>11, <1>12 DEF Next

(* Only createBus draws lines. *)
LEMMA BusStep == PortsInv /\ [Next]_vars => BusRightExactly'
<1> SUFFICES ASSUME PortsInv, [Next]_vars
             PROVE  BusRightExactly'
  OBVIOUS
<1>1. CASE CreateBus
  BY <1>1, NewBusRight
<1>2. CASE bus' = bus
  <2>1. BusRightExactly
    BY DEF PortsInv
  <2> QED
    BY <1>2, <2>1 DEF BusRightExactly, Arrives, Refreshable
<1>3. CreateBus \/ bus' = bus
  BY DEF Next, EditFile, SetFileName, Browse, LoadOrInit, SetRefresh, InitializeSizes, vars
<1> QED
  BY <1>1, <1>2, <1>3

LEMMA PortsStep == PortsInv /\ [Next]_vars => PortsInv'
<1> QED
  BY NumbersStep, TracedStep, BusStep DEF PortsInv

(* The invariant, for all files and any number of changes. *)
LEMMA PortsInvariant == Spec => []PortsInv
<1> QED
  BY InitInv, PortsStep, PTL DEF Spec

(* The domains of the variables; above all, no port number is beyond the ports that the
   block asked for (initialize of both blocks). *)
THEOREM TypeCorrect == Spec => []TypeOK
<1>1. PortsInv => TypeOK
  BY DEF PortsInv
<1> QED
  BY <1>1, PortsInvariant, PTL

(* The tables of Receive::RTW and Send::RTW name each port of their block once, whatever
   the files hold and whenever they are read again. *)
THEOREM TablesNamePortsOnce == Spec => []EveryPortOnce
<1> QED
  BY TablesAreNumbers, PortsInvariant, PTL

(* Nobody who changes files, reads them again or switches refresh ports can make the
   labels of ports that are up to date wrong: that is decided by where the A825 messages
   stand in the file (getPorts of both masks against initialize of both blocks). *)
THEOREM LabelsAreRightExactly == Spec => []LabelsRightExactly
<1> QED
  BY TracedLabels, PortsInvariant, PTL

(* Where the labels were right, createBus connects an element without refresh to its own
   signal exactly as long as the port it takes from those left over is not that of another
   one; with refresh always. *)
THEOREM BusIsRightExactly == Spec => []BusRightExactly
<1>1. PortsInv => BusRightExactly
  BY DEF PortsInv
<1> QED
  BY <1>1, PortsInvariant, PTL
=============================================================================
