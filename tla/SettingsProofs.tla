---------------------------- MODULE SettingsProofs ----------------------------
(***************************************************************************)
(* Proofs about the settings, for any objects, platforms and files: saving *)
(* keeps the groups of others, an update is lost for three reasons only,   *)
(* and what was set in an object is in the file when the object is gone.   *)
(***************************************************************************)
EXTENDS Settings, FiniteSetTheorems, SequenceTheorems, WellFoundedInduction, TLAPS

-----------------------------------------------------------------------------
(***************************************************************************)
(* The elements of a set of places in their order.                         *)
(***************************************************************************)

(* A set of natural numbers has a least element. *)
LEMMA LeastExists ==
  ASSUME NEW S, S \subseteq Nat, S # {}
  PROVE  \E x \in S : \A y \in S : x <= y
<1> DEFINE R == OpToRel(<, Nat)
<1>1. IsWellFoundedOn(R, Nat)
  BY NatLessThanWellFounded
<1>2. \A x, y \in Nat : x < y => <<x, y>> \in R
  BY DEF OpToRel
<1> HIDE DEF R
<1>3. PICK x \in S : \A y \in S : ~(<<y, x>> \in R)
  BY <1>1, WFMin
<1>4. \A y \in S : y \in Nat /\ ~(y < x)
  BY <1>2, <1>3
<1> QED
  BY <1>3, <1>4

(* One with a bound has a greatest element. *)
LEMMA GreatestExists ==
  ASSUME NEW n \in Nat, NEW S, S \subseteq 0 .. n, S # {}
  PROVE  \E x \in S : \A y \in S : y <= x
<1> DEFINE T == {n - x : x \in S}
<1>1. \A x \in S : x \in 0 .. n /\ n - x \in Nat
  OBVIOUS
<1>2. T \subseteq Nat /\ T # {}
  BY <1>1
<1>3. PICK t \in T : \A y \in T : t <= y
  <2> HIDE DEF T
  <2> QED
    BY <1>2, LeastExists
<1>4. PICK x \in S : t = n - x
  OBVIOUS
<1>5. \A y \in S : n - x <= n - y
  BY <1>3, <1>4
<1> QED
  BY <1>1, <1>4, <1>5

(* How many elements of S are in front of x. *)
Rank(S, x) == Cardinality({y \in S : y < x})

(* The sets in question are finite, and no larger than the interval they are in. *)
LEMMA PlacesFinite ==
  ASSUME NEW n \in Nat, NEW S, S \subseteq 1 .. n
  PROVE  /\ IsFiniteSet(S) /\ Cardinality(S) \in Nat /\ Cardinality(S) <= n
         /\ \A x : IsFiniteSet({y \in S : y < x}) /\ Rank(S, x) \in Nat
<1>1. IsFiniteSet(1 .. n) /\ Cardinality(1 .. n) = n
  BY FS_Interval
<1>2. IsFiniteSet(S) /\ Cardinality(S) \in Nat /\ Cardinality(S) <= n
  BY <1>1, FS_Subset, FS_CardinalityType
<1>3. ASSUME NEW x
      PROVE  IsFiniteSet({y \in S : y < x}) /\ Rank(S, x) \in Nat
  <2> DEFINE T == {y \in S : y < x}
  <2>1. T \subseteq S
    OBVIOUS
  <2>2. Rank(S, x) = Cardinality(T)
    BY DEF Rank
  <2> HIDE DEF T
  <2>3. IsFiniteSet(T) /\ Cardinality(T) \in Nat
    BY <1>2, <2>1, FS_Subset, FS_CardinalityType
  <2> QED
    BY <2>2, <2>3 DEF T
<1> QED
  BY <1>2, <1>3

(* Every rank below the size of the set is that of an element: the least x with at
   least k elements in front of it has no more, for the last of them has fewer. *)
LEMMA RankExists ==
  ASSUME NEW n \in Nat, NEW S, S \subseteq 1 .. n, NEW k \in Nat, k < Cardinality(S)
  PROVE  \E x \in S : Rank(S, x) = k
<1>1. Cardinality(S) \in Nat /\ \A x : Rank(S, x) \in Nat
  BY PlacesFinite
<1>9. \A y \in S : y \in Nat /\ y <= n /\ y < n + 1
  OBVIOUS
<1>10. Rank(S, n + 1) = Cardinality(S)
  <2>1. {y \in S : y < n + 1} = S
    BY <1>9
  <2> QED
    BY <2>1 DEF Rank
<1> DEFINE T == {x \in S \cup {n + 1} : Rank(S, x) >= k}
<1>2. T \subseteq Nat /\ T # {}
  <2>1. \A x \in S \cup {n + 1} : x \in Nat
    BY <1>9
  <2>2. n + 1 \in T
    BY <1>1, <1>10
  <2> QED
    BY <2>1, <2>2
<1> HIDE DEF T
<1>3. PICK x \in T : \A y \in T : x <= y
  BY <1>2, LeastExists
<1>4. x \in S \cup {n + 1} /\ x \in Nat /\ Rank(S, x) >= k
  BY <1>2, <1>3 DEF T
<1>5. \A y \in S : y < x => Rank(S, y) < k
  <2> SUFFICES ASSUME NEW y \in S, y < x, ~(Rank(S, y) < k)
               PROVE  FALSE
    OBVIOUS
  <2>1. Rank(S, y) \in Nat /\ Rank(S, y) >= k
    BY <1>1
  <2>2. y \in T
    BY <2>1 DEF T
  <2>3. y \in Nat /\ x <= y
    BY <1>3, <1>9, <2>2
  <2> QED
    BY <1>4, <2>3
<1> DEFINE F == {y \in S : y < x}
<1>6. Rank(S, x) <= k
  <2>1. CASE F = {}
    BY <2>1, FS_EmptySet DEF Rank
  <2>2. CASE F # {}
    <3>1. F \subseteq 0 .. n
      <4>1. \A y \in S : y \in 0 .. n
        BY <1>9
      <4> QED
        BY <4>1
    <3>2. PICK m \in F : \A y \in F : y <= m
      <4> HIDE DEF F
      <4> QED
        BY <2>2, <3>1, GreatestExists
    <3>3. m \in S /\ m < x /\ m \in Nat
      BY <3>2
    <3> DEFINE G == {y \in S : y < m}
    <3>4. F = G \cup {m} /\ m \notin G
      <4>1. \A y \in S : y < x => y <= m
        BY <3>2
      <4>2. \A y \in S : y < x <=> y < m \/ y = m
        BY <1>4, <1>9, <3>3, <4>1
      <4>3. m \in S /\ ~(m < m)
        BY <3>3
      <4> QED
        BY <4>2, <4>3
    <3>5. Rank(S, x) = Cardinality(F) /\ Rank(S, m) = Cardinality(G) /\ IsFiniteSet(G)
      BY PlacesFinite DEF Rank
    <3>6. Rank(S, m) < k
      BY <1>5, <3>3
    <3> HIDE DEF F, G
    <3>7. Cardinality(F) = Cardinality(G) + 1
      BY <3>4, <3>5, FS_AddElement
    <3>8. Rank(S, m) \in Nat
      BY <1>1
    <3> QED
      BY <3>5, <3>6, <3>7, <3>8
  <2> QED
    BY <2>1, <2>2
<1>7. Rank(S, x) = k
  BY <1>1, <1>4, <1>6
<1>8. x # n + 1
  <2> SUFFICES ASSUME x = n + 1
               PROVE  FALSE
    OBVIOUS
  <2> QED
    BY <1>1, <1>7, <1>10
<1> QED
  BY <1>4, <1>7, <1>8

(* So InOrder gives elements of the set, as many as there are. *)
LEMMA InOrderIs ==
  ASSUME NEW n \in Nat, NEW S, S \subseteq 1 .. n
  PROVE  /\ Cardinality(S) \in Nat /\ Cardinality(S) <= n
         /\ DOMAIN InOrder(S) = 1 .. Cardinality(S) /\ Len(InOrder(S)) = Cardinality(S)
         /\ \A k \in 1 .. Cardinality(S) : InOrder(S)[k] \in S
<1>1. Cardinality(S) \in Nat /\ Cardinality(S) <= n
  BY PlacesFinite
<1>2. DOMAIN InOrder(S) = 1 .. Cardinality(S) /\ Len(InOrder(S)) = Cardinality(S)
  BY <1>1 DEF InOrder
<1>3. ASSUME NEW k \in 1 .. Cardinality(S)
      PROVE  InOrder(S)[k] \in S
  <2>1. k - 1 \in Nat /\ k - 1 < Cardinality(S)
    BY <1>1
  <2>2. \E x \in S : Rank(S, x) = k - 1
    BY <2>1, RankExists
  <2>3. InOrder(S)[k] = CHOOSE x \in S : Rank(S, x) = k - 1
    BY DEF InOrder, Rank
  <2> QED
    BY <2>2, <2>3
<1> QED
  BY <1>1, <1>2, <1>3

(* Of an interval that starts at 1 it gives each element at its own place. *)
LEMMA InOrderOfAll ==
  ASSUME NEW n \in Nat
  PROVE  /\ Len(InOrder(1 .. n)) = n /\ DOMAIN InOrder(1 .. n) = 1 .. n
         /\ \A k \in 1 .. n : InOrder(1 .. n)[k] = k
<1>1. Cardinality(1 .. n) = n
  BY FS_Interval
<1>2. Len(InOrder(1 .. n)) = n /\ DOMAIN InOrder(1 .. n) = 1 .. n
  BY <1>1, InOrderIs
<1>3. ASSUME NEW k \in 1 .. n
      PROVE  InOrder(1 .. n)[k] = k
  <2>1. \A x \in 1 .. n : Rank(1 .. n, x) = x - 1
    <3> SUFFICES ASSUME NEW x \in 1 .. n
                 PROVE  Rank(1 .. n, x) = x - 1
      OBVIOUS
    <3> DEFINE m == x - 1
    <3>1. {y \in 1 .. n : y < x} = 1 .. m /\ m \in Nat
      OBVIOUS
    <3> HIDE DEF m
    <3>2. Cardinality(1 .. m) = m
      BY <3>1, FS_Interval
    <3> QED
      BY <3>1, <3>2 DEF Rank, m
  <2>2. InOrder(1 .. n)[k] = CHOOSE x \in 1 .. n : Rank(1 .. n, x) = k - 1
    BY <1>1 DEF InOrder, Rank
  <2>3. \A x \in 1 .. n : Rank(1 .. n, x) = k - 1 <=> x = k
    BY <2>1
  <2> QED
    BY <2>2, <2>3
<1> QED
  BY <1>2, <1>3

-----------------------------------------------------------------------------
(***************************************************************************)
(* What save writes.                                                       *)
(***************************************************************************)

(* A file is a sequence of groups. *)
LEMMA FileIs ==
  ASSUME NEW f, IsFile(f)
  PROVE  /\ Len(f) \in Nat /\ DOMAIN f = 1 .. Len(f)
         /\ \A i \in 1 .. Len(f) : f[i].name \in Names
  BY DEF IsFile

(* The groups that save keeps, and their places: each is one of the file. *)
LEMMA KeptIs ==
  ASSUME NEW f, IsFile(f)
  PROVE  /\ Len(KeptPlaces(f)) \in Nat /\ Len(KeptPlaces(f)) <= Len(f)
         /\ DOMAIN KeptPlaces(f) = 1 .. Len(KeptPlaces(f))
         /\ \A k \in 1 .. Len(KeptPlaces(f)) : KeptPlaces(f)[k] \in 1 .. Len(f)
         /\ Len(Pruned(f)) \in Nat
         /\ \A k \in 1 .. Len(Pruned(f)) : \E j \in 1 .. Len(f) : Pruned(f)[k] = f[j]
<1> DEFINE firsts == {i \in DOMAIN f : \A j \in 1 .. i - 1 : f[j].name # f[i].name}
           named  == {i \in DOMAIN f : f[i].name # None}
<1>1. /\ Len(f) \in Nat
      /\ firsts \subseteq 1 .. Len(f) /\ named \subseteq 1 .. Len(f)
  BY FileIs
<1>2. /\ KeptPlaces(f) = InOrder(firsts)
      /\ Pruned(f) = [k \in DOMAIN InOrder(named) |-> f[InOrder(named)[k]]]
  BY DEF KeptPlaces, Pruned
<1> HIDE DEF firsts, named
<1>3. /\ Cardinality(firsts) \in Nat /\ Cardinality(firsts) <= Len(f)
      /\ DOMAIN InOrder(firsts) = 1 .. Cardinality(firsts)
      /\ Len(InOrder(firsts)) = Cardinality(firsts)
      /\ \A k \in 1 .. Cardinality(firsts) : InOrder(firsts)[k] \in firsts
  BY <1>1, InOrderIs
<1>4. /\ Cardinality(named) \in Nat
      /\ DOMAIN InOrder(named) = 1 .. Cardinality(named)
      /\ \A k \in 1 .. Cardinality(named) : InOrder(named)[k] \in named
  BY <1>1, InOrderIs
<1> DEFINE n == Cardinality(named)
           e == InOrder(named)
<1>5. n \in Nat /\ Pruned(f) = [k \in 1 .. n |-> f[e[k]]]
  BY <1>2, <1>4
<1>6. \A k \in 1 .. n : e[k] \in 1 .. Len(f)
  BY <1>1, <1>4
<1> HIDE DEF n, e
<1>7. Len(Pruned(f)) = n
  BY <1>5
<1>8. \A k \in 1 .. n : Pruned(f)[k] = f[e[k]]
  BY <1>5
<1> QED
  BY <1>1, <1>2, <1>3, <1>5, <1>6, <1>7, <1>8

(* If save does not fail there is at most one group of the platform. *)
LEMMA PlacesAre ==
  ASSUME NEW f, IsFile(f), NEW platform, ~SaveFails(f, platform)
  PROVE  /\ Places(f, platform) \subseteq 1 .. Len(f)
         /\ \A i, j \in Places(f, platform) : i = j
         /\ Places(f, platform) # {} => Place(f, platform) \in Places(f, platform)
<1> DEFINE S == Places(f, platform)
<1>1. S \subseteq 1 .. Len(f) /\ Len(f) \in Nat
  BY FileIs DEF Places
<1>2. ~(Cardinality(S) > 1)
  BY DEF SaveFails
<1>3. S # {} => Place(f, platform) \in S
  BY DEF Place
<1> HIDE DEF S
<1>4. IsFiniteSet(S) /\ Cardinality(S) \in Nat
  BY <1>1, PlacesFinite
<1>5. \A i, j \in S : i = j
  <2>1. CASE Cardinality(S) = 0
    BY <1>4, <2>1, FS_EmptySet
  <2>2. CASE Cardinality(S) = 1
    BY <1>4, <2>2, FS_Singleton
  <2> QED
    BY <1>2, <1>4, <2>1, <2>2
<1> QED
  BY <1>1, <1>3, <1>5 DEF S

(* The names that save writes: those of the file, and the platform if it is new. *)
LEMMA NamesAre ==
  ASSUME NEW f, IsFile(f), NEW platform \in Platforms
  PROVE  /\ Len(NamesToWrite(f, platform)) \in Nat
         /\ DOMAIN NamesToWrite(f, platform) = 1 .. Len(NamesToWrite(f, platform))
         /\ \A i \in 1 .. Len(f) : NamesToWrite(f, platform)[i] = f[i].name
         /\ Places(f, platform) # {} => Len(NamesToWrite(f, platform)) = Len(f)
         /\ Places(f, platform) = {} =>
              /\ Len(NamesToWrite(f, platform)) = Len(f) + 1
              /\ NamesToWrite(f, platform)[Len(f) + 1] = platform
         /\ Len(NamesToWrite(f, platform)) >= 1
         /\ \A i \in 1 .. Len(NamesToWrite(f, platform)) :
              NamesToWrite(f, platform)[i] \in Names
<1> DEFINE names == NamesOf(f)
           n == Len(f)
<1>1. n \in Nat /\ DOMAIN f = 1 .. n /\ \A i \in 1 .. n : f[i].name \in Names
  BY FileIs
<1>2. names = [i \in 1 .. n |-> f[i].name]
  BY <1>1 DEF NamesOf
<1>3. platform \in Names
  BY DEF Names
<1> HIDE DEF n, names
<1>4. /\ names \in Seq(Names) /\ Len(names) = n /\ DOMAIN names = 1 .. n
      /\ \A i \in 1 .. n : names[i] = f[i].name
  BY <1>1, <1>2
<1>5. CASE Places(f, platform) = {}
  <2> DEFINE w == Append(names, platform)
  <2>1. /\ Len(w) = n + 1 /\ DOMAIN w = 1 .. n + 1
        /\ \A i \in 1 .. n : w[i] = names[i]
        /\ w[n + 1] = platform
    BY <1>1, <1>3, <1>4, AppendProperties
  <2>2. NamesToWrite(f, platform) = w
    BY <1>5 DEF NamesToWrite, names
  <2> HIDE DEF w
  <2>3. \A i \in 1 .. n + 1 : i \in 1 .. n \/ i = n + 1
    BY <1>1
  <2> QED
    BY <1>1, <1>3, <1>4, <1>5, <2>1, <2>2, <2>3 DEF n
<1>6. CASE Places(f, platform) # {}
  <2>1. NamesToWrite(f, platform) = names
    BY <1>6 DEF NamesToWrite, names
  <2>2. n >= 1
    <3>1. PICK i : i \in Places(f, platform)
      BY <1>6
    <3>2. i \in 1 .. n
      BY <1>1, <3>1 DEF Places
    <3> QED
      BY <1>1, <3>2
  <2> QED
    BY <1>1, <1>4, <1>6, <2>1, <2>2 DEF n
<1> QED
  BY <1>5, <1>6

(* The values that are written at place i, and the number of groups that are written. *)
ValuesAt(f, obj, i) ==
  IF i \in Unfilled(f, obj.platform) THEN <<>>
  ELSE IF i = Place(f, obj.platform) THEN obj.values
  ELSE Pruned(f)[KeptPlaces(f)[i]].values

LastPlace(f, platform) ==
  Min(Unfilled(f, platform) \cup {Len(NamesToWrite(f, platform))})

(* What save writes, place by place. *)
LEMMA WrittenIs ==
  ASSUME NEW f, IsFile(f), NEW obj, obj.platform \in Platforms
  PROVE  /\ LastPlace(f, obj.platform) \in Nat
         /\ LastPlace(f, obj.platform) <= Len(NamesToWrite(f, obj.platform))
         /\ Unfilled(f, obj.platform) = {} =>
              LastPlace(f, obj.platform) = Len(NamesToWrite(f, obj.platform))
         /\ Written(f, obj) =
              [i \in 1 .. LastPlace(f, obj.platform) |->
                 [name |-> NamesToWrite(f, obj.platform)[i], values |-> ValuesAt(f, obj, i)]]
<1> DEFINE m == Len(NamesToWrite(f, obj.platform))
           E == Unfilled(f, obj.platform) \cup {m}
<1>1. m \in Nat /\ DOMAIN NamesToWrite(f, obj.platform) = 1 .. m
  BY NamesAre
<1>2. E \subseteq Nat /\ m \in E
  BY <1>1 DEF Unfilled
<1>3. \E x \in E : \A y \in E : x <= y
  <2> HIDE DEF E, m
  <2> QED
    BY <1>2, LeastExists
<1>4. LastPlace(f, obj.platform) = Min(E)
  BY DEF LastPlace
<1>5. Unfilled(f, obj.platform) = {} => E = {m}
  OBVIOUS
<1> HIDE DEF E, m
<1>6. Min(E) \in E /\ \A y \in E : Min(E) <= y
  BY <1>3 DEF Min
<1>7. Written(f, obj) =
        [i \in 1 .. LastPlace(f, obj.platform) |->
           [name |-> NamesToWrite(f, obj.platform)[i], values |-> ValuesAt(f, obj, i)]]
  BY DEF Written, LastPlace, ValuesAt
<1> QED
  BY <1>1, <1>2, <1>4, <1>5, <1>6, <1>7 DEF m

(* What save writes reads as a file again; a group of the platform has the values of the
   object or, where saveFile stopped, none. *)
LEMMA WrittenFile ==
  ASSUME NEW f, IsFile(f), NEW obj, obj.platform \in Platforms, DOMAIN obj.values = Fields,
         ~SaveFails(f, obj.platform)
  PROVE  /\ IsFile(Written(f, obj))
         /\ \A i \in DOMAIN Written(f, obj) :
              Written(f, obj)[i].name = obj.platform =>
                Written(f, obj)[i].values \in {obj.values, <<>>}
<1> DEFINE p == obj.platform
           last == LastPlace(f, p)
           names == NamesToWrite(f, p)
           places == KeptPlaces(f)
           pruned == Pruned(f)
           g == Written(f, obj)
<1>1. /\ last \in Nat /\ last <= Len(names)
      /\ g = [i \in 1 .. last |-> [name |-> names[i], values |-> ValuesAt(f, obj, i)]]
  BY WrittenIs
<1>2. /\ Len(names) \in Nat /\ DOMAIN names = 1 .. Len(names) /\ p \in Platforms
      /\ \A i \in 1 .. Len(names) : names[i] \in Names
  BY NamesAre
<1>3. /\ Len(places) \in Nat /\ Len(places) <= Len(f) /\ DOMAIN places = 1 .. Len(places)
      /\ \A k \in 1 .. Len(places) : places[k] \in 1 .. Len(f)
      /\ Len(pruned) \in Nat
      /\ \A k \in 1 .. Len(pruned) : \E j \in 1 .. Len(f) : pruned[k] = f[j]
  BY KeptIs
<1>4. \A k \in 1 .. Len(places) : places[k] <= Len(pruned)
  BY <1>3 DEF SaveFails
<1>5. /\ Len(f) \in Nat /\ DOMAIN f = 1 .. Len(f)
      /\ \A j \in 1 .. Len(f) : DOMAIN f[j].values \subseteq Fields \cup {"Version"}
  BY FileIs DEF IsFile
<1>6. Unfilled(f, p) = {i \in 1 .. Len(names) : i # Place(f, p) /\ i > Len(places)}
  BY <1>2 DEF Unfilled
<1>7. \A i \in 1 .. Len(names) :
        ValuesAt(f, obj, i) =
          IF i \in Unfilled(f, p) THEN <<>>
          ELSE IF i = Place(f, p) THEN obj.values ELSE pruned[places[i]].values
  BY DEF ValuesAt
<1> HIDE DEF p, last, names, places, pruned, g
<1>8. ASSUME NEW i \in 1 .. last
      PROVE  /\ g[i] = [name |-> g[i].name, values |-> g[i].values]
             /\ g[i].name = names[i] /\ g[i].name \in Names
             /\ g[i].values = ValuesAt(f, obj, i)
             /\ DOMAIN g[i].values \subseteq Fields \cup {"Version"}
  <2>1. i \in 1 .. Len(names) /\ i \in Nat /\ i >= 1
    BY <1>1, <1>2
  <2>2. g[i] = [name |-> names[i], values |-> ValuesAt(f, obj, i)]
    BY <1>1
  <2>3. DOMAIN ValuesAt(f, obj, i) \subseteq Fields \cup {"Version"}
    <3>1. CASE i \in Unfilled(f, p)
      BY <1>7, <2>1, <3>1
    <3>2. CASE i \notin Unfilled(f, p) /\ i = Place(f, p)
      BY <1>7, <2>1, <3>2
    <3>3. CASE i \notin Unfilled(f, p) /\ i # Place(f, p)
      <4>1. i \in 1 .. Len(places)
        BY <1>3, <1>6, <2>1, <3>3
      <4>2. places[i] \in 1 .. Len(pruned)
        BY <1>3, <1>4, <1>5, <4>1
      <4>3. PICK j \in 1 .. Len(f) : pruned[places[i]] = f[j]
        BY <1>3, <4>2
      <4>4. ValuesAt(f, obj, i) = f[j].values
        BY <1>7, <2>1, <3>3, <4>3
      <4> QED
        BY <1>5, <4>4
    <3> QED
      BY <3>1, <3>2, <3>3
  <2> QED
    BY <1>2, <2>1, <2>2, <2>3
<1>9. DOMAIN g = 1 .. last
  BY <1>1
<1>10. IsFile(g)
  <2>1. g \in Seq({g[i] : i \in DOMAIN g})
    <3>1. g = [i \in 1 .. last |-> g[i]]
      BY <1>1, <1>9
    <3> QED
      BY <1>1, <1>9, <3>1
  <2> QED
    BY <1>8, <1>9, <2>1 DEF IsFile
<1>11. ASSUME NEW i \in 1 .. last, g[i].name = p
       PROVE  g[i].values \in {obj.values, <<>>}
  <2>1. i \in 1 .. Len(names) /\ i \in Nat /\ names[i] = p /\ g[i].values = ValuesAt(f, obj, i)
    BY <1>1, <1>2, <1>8, <1>11
  <2>2. ASSUME i \notin Unfilled(f, p)
        PROVE  i = Place(f, p)
    <3>1. CASE Places(f, p) = {}
      <4>1. /\ \A k \in 1 .. Len(f) : names[k] = f[k].name
            /\ Len(names) = Len(f) + 1
        BY <1>2, <3>1, NamesAre DEF names
      <4>2. \A k \in 1 .. Len(f) : names[k] # p
        BY <1>5, <3>1, <4>1 DEF Places
      <4>3. i = Len(f) + 1
        BY <1>5, <2>1, <4>1, <4>2
      <4>4. i > Len(places)
        BY <1>3, <1>5, <4>3
      <4> QED
        BY <1>6, <2>1, <2>2, <4>4
    <3>2. CASE Places(f, p) # {}
      <4>1. names[i] = f[i].name /\ i \in 1 .. Len(f)
        BY <1>2, <2>1, <3>2, NamesAre DEF names
      <4>2. i \in Places(f, p)
        BY <1>5, <2>1, <4>1 DEF Places
      <4> QED
        BY <3>2, <4>2, PlacesAre DEF p
    <3> QED
      BY <3>1, <3>2
  <2> QED
    BY <1>7, <2>1, <2>2
<1> QED
  BY <1>9, <1>10, <1>11 DEF g, p

(* A well-formed file loses no group when it is saved, and keeps all the groups of other
   names, in their places. *)
LEMMA WellFormedSave ==
  ASSUME NEW f, IsFile(f), WellFormed(f), NEW obj, obj.platform \in Platforms,
         DOMAIN obj.values = Fields
  PROVE  /\ ~SaveFails(f, obj.platform) /\ Unfilled(f, obj.platform) = {}
         /\ WellFormed(Written(f, obj)) /\ DOMAIN f \subseteq DOMAIN Written(f, obj)
         /\ \A i \in DOMAIN f : f[i].name # obj.platform => Written(f, obj)[i] = f[i]
         /\ \E i \in DOMAIN Written(f, obj) :
              Written(f, obj)[i] = [name |-> obj.platform, values |-> obj.values]
<1> DEFINE p == obj.platform
           n == Len(f)
           names == NamesToWrite(f, p)
           g == Written(f, obj)
<1>1. n \in Nat /\ DOMAIN f = 1 .. n
  BY FileIs
<1>2. \A i \in 1 .. n : f[i].name # None
  BY FileIs DEF WellFormed, Has
<1>3. \A i, j \in 1 .. n : f[i].name = f[j].name => i = j
  BY FileIs DEF WellFormed, Distinct
<1>4. \A i \in 1 .. n : f[i] = [name |-> f[i].name, values |-> f[i].values]
  BY FileIs DEF IsFile
<1> HIDE DEF n, names, g, p
<1>5. /\ Len(KeptPlaces(f)) = n /\ DOMAIN KeptPlaces(f) = 1 .. n
      /\ \A k \in 1 .. n : KeptPlaces(f)[k] = k
  <2> DEFINE firsts == {i \in DOMAIN f : \A j \in 1 .. i - 1 : f[j].name # f[i].name}
  <2>1. firsts = 1 .. n
    <3>2. ASSUME NEW i \in 1 .. n, NEW j \in 1 .. i - 1
          PROVE  f[j].name # f[i].name
      <4>1. j \in 1 .. n /\ j # i
        BY <1>1
      <4> QED
        BY <1>3, <4>1
    <3> QED
      BY <1>1, <3>2
  <2> HIDE DEF firsts
  <2>2. KeptPlaces(f) = InOrder(1 .. n)
    BY <2>1 DEF KeptPlaces, firsts
  <2> QED
    BY <1>1, <2>2, InOrderOfAll
<1>6. Len(Pruned(f)) = n /\ \A k \in 1 .. n : Pruned(f)[k] = f[k]
  <2> DEFINE named == {i \in DOMAIN f : f[i].name # None}
  <2>1. named = 1 .. n
    BY <1>1, <1>2
  <2>2. Pruned(f) = [k \in DOMAIN InOrder(named) |-> f[InOrder(named)[k]]]
    BY DEF Pruned
  <2> HIDE DEF named
  <2>3. DOMAIN InOrder(named) = 1 .. n /\ \A k \in 1 .. n : InOrder(named)[k] = k
    BY <1>1, <2>1, InOrderOfAll
  <2>4. Pruned(f) = [k \in 1 .. n |-> f[k]]
    BY <2>2, <2>3
  <2> HIDE DEF named
  <2>5. Len([k \in 1 .. n |-> f[k]]) = n
    BY <1>1
  <2>6. \A k \in 1 .. n : [l \in 1 .. n |-> f[l]][k] = f[k]
    OBVIOUS
  <2> QED
    BY <2>4, <2>5, <2>6
<1>7. /\ Places(f, p) \subseteq 1 .. n
      /\ \A i, j \in Places(f, p) : i = j
      /\ ~(Cardinality(Places(f, p)) > 1)
  <2> DEFINE S == Places(f, p)
  <2>1. S \subseteq 1 .. n /\ \A i, j \in S : i = j
    BY <1>1, <1>3 DEF Places
  <2> HIDE DEF S
  <2>2. CASE S = {}
    <3>1. Cardinality(S) = 0
      BY <2>2, FS_EmptySet
    <3> QED
      BY <2>1, <3>1 DEF S
  <2>3. CASE S # {}
    <3>1. PICK x : x \in S
      BY <2>3
    <3>2. S = {x}
      BY <2>1, <3>1
    <3>3. Cardinality(S) = 1
      BY <3>2, FS_Singleton
    <3> QED
      BY <2>1, <3>3 DEF S
  <2> QED
    BY <2>2, <2>3
<1>8. ~SaveFails(f, p)
  BY <1>1, <1>5, <1>6, <1>7 DEF SaveFails
<1>9. /\ Len(names) \in Nat /\ DOMAIN names = 1 .. Len(names) /\ p \in Platforms
      /\ \A i \in 1 .. n : names[i] = f[i].name
      /\ Places(f, p) # {} => Len(names) = n /\ Place(f, p) \in Places(f, p)
      /\ Places(f, p) = {} =>
           Len(names) = n + 1 /\ names[n + 1] = p /\ Place(f, p) = n + 1
  <2>1. Places(f, p) # {} => Place(f, p) \in Places(f, p)
    BY DEF Place
  <2>2. Places(f, p) = {} => Place(f, p) = n + 1
    BY <1>5 DEF Place
  <2> QED
    BY <2>1, <2>2, NamesAre DEF n, names, p
<1>10. Unfilled(f, p) = {}
  <2>1. ASSUME NEW i \in 1 .. Len(names), i > n
        PROVE  i = Place(f, p)
    <3>1. CASE Places(f, p) = {}
      <4>1. Len(names) = n + 1 /\ Place(f, p) = n + 1
        BY <1>9, <3>1
      <4> QED
        BY <1>1, <2>1, <4>1
    <3>2. CASE Places(f, p) # {}
      <4>1. Len(names) = n
        BY <1>9, <3>2
      <4> QED
        BY <1>1, <2>1, <4>1
    <3> QED
      BY <3>1, <3>2
  <2> QED
    BY <1>5, <1>9, <2>1 DEF Unfilled, names
<1>11. /\ DOMAIN g = 1 .. Len(names)
      /\ \A i \in 1 .. Len(names) :
           g[i] = [name |-> names[i],
                   values |-> IF i = Place(f, p) THEN obj.values ELSE Pruned(f)[KeptPlaces(f)[i]].values]
  <2>1. g = [i \in 1 .. Len(names) |-> [name |-> names[i], values |-> ValuesAt(f, obj, i)]]
    BY <1>10, WrittenIs DEF g, names, p
  <2>2. \A i : ValuesAt(f, obj, i) =
                 IF i = Place(f, p) THEN obj.values ELSE Pruned(f)[KeptPlaces(f)[i]].values
    BY <1>10 DEF ValuesAt, p
  <2> QED
    BY <2>1, <2>2
<1>12. ASSUME NEW i \in 1 .. n, f[i].name # p
      PROVE  i \in DOMAIN g /\ g[i] = f[i]
  <2>1. i \in 1 .. Len(names)
    BY <1>1, <1>9
  <2>2. i # Place(f, p)
    BY <1>1, <1>9, <1>12 DEF Places
  <2>3. g[i] = [name |-> f[i].name, values |-> f[i].values]
    BY <1>5, <1>6, <1>9, <1>11, <2>1, <2>2
  <2> QED
    BY <1>11, <1>4, <2>1, <2>3
<1>13. /\ Place(f, p) \in 1 .. Len(names) /\ names[Place(f, p)] = p
       /\ \A i \in 1 .. Len(names) : names[i] = p => i = Place(f, p)
  <2>1. CASE Places(f, p) = {}
    <3>1. \A i \in 1 .. n : f[i].name # p
      BY <1>1, <2>1 DEF Places
    <3> QED
      BY <1>1, <1>9, <2>1, <3>1
  <2>2. CASE Places(f, p) # {}
    <3>1. \A i \in 1 .. n : i \in Places(f, p) <=> f[i].name = p
      BY <1>1 DEF Places
    <3> QED
      BY <1>1, <1>7, <1>9, <2>2, <3>1
  <2> QED
    BY <2>1, <2>2
<1>14. g[Place(f, p)] = [name |-> p, values |-> obj.values]
  BY <1>11, <1>13
<1>15. WellFormed(g)
  <2>1. \A i \in 1 .. Len(names) : names[i] # None /\ g[i].name = names[i]
    <3>1. p # None
      BY <1>9, SettingsAssumption
    <3>2. ASSUME NEW i \in 1 .. Len(names)
          PROVE  names[i] # None
      <4>1. CASE i \in 1 .. n
        <5>1. names[i] = f[i].name
          BY <1>9, <4>1
        <5> QED
          BY <1>2, <4>1, <5>1
      <4>2. CASE i \notin 1 .. n
        <5>1. Places(f, p) = {}
          BY <1>9, <4>2
        <5>2. Len(names) = n + 1 /\ names[n + 1] = p
          BY <1>9, <5>1
        <5>3. i = n + 1
          BY <1>1, <4>2, <5>2
        <5> QED
          BY <3>1, <5>2, <5>3
      <4> QED
        BY <4>1, <4>2
    <3>3. \A i \in 1 .. Len(names) : g[i].name = names[i]
      BY <1>11
    <3> QED
      BY <3>2, <3>3
  <2>2. \A i, j \in 1 .. Len(names) : names[i] = names[j] => i = j
    <3> SUFFICES ASSUME NEW i \in 1 .. Len(names), NEW j \in 1 .. Len(names),
                        names[i] = names[j]
                 PROVE  i = j
      OBVIOUS
    <3>1. CASE names[i] = p
      BY <1>13, <3>1
    <3>2. CASE names[i] # p
      <4>1. ASSUME NEW k \in 1 .. Len(names), names[k] # p
            PROVE  k \in 1 .. n
        <5>1. CASE Places(f, p) = {}
          <6>1. Len(names) = n + 1 /\ names[n + 1] = p
            BY <1>9, <5>1
          <6> QED
            BY <1>1, <4>1, <6>1
        <5>2. CASE Places(f, p) # {}
          BY <1>9, <4>1, <5>2
        <5> QED
          BY <5>1, <5>2
      <4>2. i \in 1 .. n /\ j \in 1 .. n
        BY <3>2, <4>1
      <4>3. names[i] = f[i].name /\ names[j] = f[j].name
        BY <1>9, <4>2
      <4>4. f[i].name = f[j].name
        BY <4>3
      <4> QED
        BY <1>3, <4>2, <4>4
    <3> QED
      BY <3>1, <3>2
  <2> QED
    BY <1>11, <2>1, <2>2 DEF WellFormed, Distinct, Has
<1>16. DOMAIN f \subseteq DOMAIN g
  <2>1. Len(names) = n \/ Len(names) = n + 1
    BY <1>9
  <2>2. \A i \in 1 .. n : i \in 1 .. Len(names)
    BY <1>1, <2>1
  <2> QED
    BY <1>1, <1>11, <2>2
<1> QED
  BY <1>1, <1>8, <1>10, <1>11, <1>12, <1>13, <1>14, <1>15, <1>16 DEF g, p

(* The first group of a name is a group of the name, and the only one in a file without
   duplicates. *)
LEMMA GroupIs ==
  ASSUME NEW f, IsFile(f), NEW name
  PROVE  /\ Has(f, name) => \E i \in DOMAIN f : f[i].name = name /\ Group(f, name) = f[i]
         /\ Distinct(f) => \A i \in DOMAIN f : f[i].name = name => Group(f, name) = f[i]
<1>1. Len(f) \in Nat /\ DOMAIN f = 1 .. Len(f)
  BY FileIs
<1> DEFINE First(i) == i \in DOMAIN f /\ f[i].name = name
                       /\ \A j \in 1 .. i - 1 : f[j].name # name
<1>2. ASSUME Has(f, name)
      PROVE  \E i \in DOMAIN f : f[i].name = name /\ Group(f, name) = f[i]
  <2> DEFINE S == {i \in DOMAIN f : f[i].name = name}
  <2>1. S \subseteq Nat /\ S # {}
    BY <1>1, <1>2 DEF Has
  <2>2. PICK i \in S : \A j \in S : i <= j
    <3> HIDE DEF S
    <3> QED
      BY <2>1, LeastExists
  <2>3. \A j \in 1 .. i - 1 : f[j].name # name
    <3> SUFFICES ASSUME NEW j \in 1 .. i - 1, f[j].name = name
                 PROVE  FALSE
      OBVIOUS
    <3>1. j \in DOMAIN f /\ j < i
      BY <1>1
    <3> QED
      BY <1>1, <2>2, <3>1
  <2>4. \E k \in DOMAIN f : f[k].name = name /\ \A j \in 1 .. k - 1 : f[j].name # name
    BY <2>2, <2>3
  <2> QED
    BY <2>4 DEF Group
<1>3. ASSUME Distinct(f), NEW i \in DOMAIN f, f[i].name = name
      PROVE  Group(f, name) = f[i]
  <2>1. Has(f, name)
    BY <1>3 DEF Has
  <2> QED
    BY <1>2, <1>3, <2>1 DEF Distinct
<1> QED
  BY <1>2, <1>3

(* What saving a well-formed file f makes of it: g has the values of the object and all
   the groups of other names. *)
SavedAs(f, obj, g) ==
  /\ IsFile(g) /\ WellFormed(g)
  /\ \A i \in DOMAIN f :
       f[i].name # obj.platform => Has(g, f[i].name) /\ Group(g, f[i].name) = f[i]
  /\ Has(g, obj.platform) /\ Group(g, obj.platform).values = obj.values

LEMMA SaveOnce ==
  ASSUME NEW f, IsFile(f), WellFormed(f), NEW obj, obj.platform \in Platforms,
         DOMAIN obj.values = Fields
  PROVE  /\ SavedAs(f, obj, Written(f, obj))
         /\ \A i \in DOMAIN f : f[i].name # obj.platform =>
              i \in DOMAIN Written(f, obj) /\ Written(f, obj)[i] = f[i]
<1> DEFINE g == Written(f, obj)
<1>1. /\ WellFormed(g) /\ DOMAIN f \subseteq DOMAIN g /\ ~SaveFails(f, obj.platform)
      /\ \A i \in DOMAIN f : f[i].name # obj.platform => g[i] = f[i]
      /\ \E i \in DOMAIN g : g[i] = [name |-> obj.platform, values |-> obj.values]
  BY WellFormedSave
<1>2. IsFile(g)
  BY <1>1, WrittenFile
<1> HIDE DEF g
<1>3. \A name : \A i \in DOMAIN g : g[i].name = name => Has(g, name) /\ Group(g, name) = g[i]
  BY <1>1, <1>2, GroupIs DEF WellFormed, Has
<1>4. PICK k \in DOMAIN g : g[k] = [name |-> obj.platform, values |-> obj.values]
  BY <1>1
<1>5. Has(g, obj.platform) /\ Group(g, obj.platform).values = obj.values
  <2>1. g[k].name = obj.platform /\ g[k].values = obj.values
    BY <1>4
  <2> QED
    BY <1>3, <2>1
<1>6. \A i \in DOMAIN f : f[i].name # obj.platform => i \in DOMAIN g /\ g[i] = f[i]
  BY <1>1
<1>7. \A i \in DOMAIN f :
        f[i].name # obj.platform => Has(g, f[i].name) /\ Group(g, f[i].name) = f[i]
  BY <1>3, <1>6
<1> QED
  BY <1>1, <1>2, <1>5, <1>6, <1>7 DEF SavedAs, g

(* The same holds when the file is saved once more. *)
LEMMA SaveTwice ==
  ASSUME NEW f, IsFile(f), WellFormed(f), NEW obj, obj.platform \in Platforms,
         DOMAIN obj.values = Fields
  PROVE  SavedAs(f, obj, Written(Written(f, obj), obj))
<1> DEFINE g == Written(f, obj)
           h == Written(g, obj)
<1>1. /\ SavedAs(f, obj, g)
      /\ \A i \in DOMAIN f : f[i].name # obj.platform => i \in DOMAIN g /\ g[i] = f[i]
  BY SaveOnce
<1>2. IsFile(g) /\ WellFormed(g)
  BY <1>1 DEF SavedAs
<1> HIDE DEF g
<1>3. SavedAs(g, obj, h)
  BY <1>2, SaveOnce
<1> HIDE DEF h
<1>4. /\ \A i \in DOMAIN g :
            g[i].name # obj.platform => Has(h, g[i].name) /\ Group(h, g[i].name) = g[i]
      /\ IsFile(h) /\ WellFormed(h)
      /\ Has(h, obj.platform) /\ Group(h, obj.platform).values = obj.values
  BY <1>3 DEF SavedAs
<1>5. ASSUME NEW i \in DOMAIN f, f[i].name # obj.platform
      PROVE  Has(h, f[i].name) /\ Group(h, f[i].name) = f[i]
  <2>1. i \in DOMAIN g /\ g[i] = f[i]
    BY <1>1, <1>5
  <2>2. g[i].name # obj.platform
    BY <1>5, <2>1
  <2>3. Has(h, g[i].name) /\ Group(h, g[i].name) = g[i]
    BY <1>4, <2>1, <2>2
  <2> QED
    BY <2>1, <2>3
<1> QED
  BY <1>4, <1>5 DEF SavedAs, g, h

(* A well-formed file has at most a group for each name. *)
LEMMA GroupsAreFew ==
  ASSUME NEW f, IsFile(f), Distinct(f)
  PROVE  Len(f) <= Cardinality(Platforms) + 2
<1> DEFINE n == Len(f)
<1>1. n \in Nat /\ DOMAIN f = 1 .. n /\ \A i \in 1 .. n : f[i].name \in Names
  BY FileIs
<1>2. /\ IsFiniteSet(Names) /\ Cardinality(Names) <= Cardinality(Platforms) + 2
      /\ Cardinality(Names) \in Nat /\ Cardinality(Platforms) \in Nat
  <2>1. /\ IsFiniteSet(Platforms) /\ Cardinality(Platforms) \in Nat
        /\ IsFiniteSet({"Common", None}) /\ Cardinality({"Common", None}) <= 2
        /\ Cardinality({"Common", None}) \in Nat
    <3>1. IsFiniteSet({None}) /\ Cardinality({None}) = 1
      BY FS_Singleton
    <3>2. {"Common", None} = {None} \cup {"Common"}
      OBVIOUS
    <3>3. IsFiniteSet({None} \cup {"Common"}) /\
          Cardinality({None} \cup {"Common"}) \in {1, 2}
      BY <3>1, FS_AddElement
    <3>4. IsFiniteSet(Platforms)
      BY SettingsAssumption
    <3>5. Cardinality(Platforms) \in Nat
      BY <3>4, FS_CardinalityType
    <3> QED
      BY <3>2, <3>3, <3>4, <3>5
  <2>2. Names = Platforms \cup {"Common", None}
    BY DEF Names
  <2>3. /\ IsFiniteSet(Names)
        /\ Cardinality(Names) = Cardinality(Platforms) + Cardinality({"Common", None})
                                - Cardinality(Platforms \cap {"Common", None})
        /\ Cardinality(Platforms \cap {"Common", None}) \in Nat
    <3> DEFINE E == {"Common", None}
    <3> HIDE DEF E
    <3>1. IsFiniteSet(Platforms) /\ IsFiniteSet(E) /\ Names = Platforms \cup E
      BY <2>1, <2>2 DEF E
    <3>2. /\ IsFiniteSet(Platforms \cup E)
          /\ Cardinality(Platforms \cup E) =
               Cardinality(Platforms) + Cardinality(E) - Cardinality(Platforms \cap E)
      BY <3>1, FS_Union
    <3>3. IsFiniteSet(Platforms \cap E)
      BY <3>1, FS_Intersection
    <3>4. Cardinality(Platforms \cap E) \in Nat
      BY <3>3, FS_CardinalityType
    <3> QED
      BY <3>1, <3>2, <3>4 DEF E
  <2> DEFINE c == Cardinality(Platforms)
             e == Cardinality({"Common", None})
             b == Cardinality(Platforms \cap {"Common", None})
             m == Cardinality(Names)
  <2>4. c \in Nat /\ e \in Nat /\ e <= 2 /\ b \in Nat /\ m = c + e - b
    BY <2>1, <2>3
  <2>5. m \in Nat
    BY <2>3, FS_CardinalityType
  <2> HIDE DEF c, e, b, m
  <2>6. m <= c + 2
    BY <2>4, <2>5
  <2> QED
    BY <2>3, <2>4, <2>5, <2>6 DEF c, m
<1>3. SUFFICES ASSUME ~(n <= Cardinality(Names))
               PROVE  FALSE
  <2> HIDE DEF n
  <2> QED
    BY <1>1, <1>2 DEF n
<1> DEFINE F == [i \in 1 .. n |-> f[i].name]
<1>4. F \in [1 .. n -> Names]
  BY <1>1
<1>5. IsFiniteSet(1 .. n) /\ Cardinality(1 .. n) = n
  BY <1>1, FS_Interval
<1>6. Cardinality(Names) < n
  <2> HIDE DEF n
  <2> QED
    BY <1>1, <1>2, <1>3
<1> HIDE DEF n, F
<1>7. \E i, j \in 1 .. n : i # j /\ F[i] = F[j]
  BY <1>2, <1>4, <1>5, <1>6, FS_PigeonHole
<1>8. \A i, j \in 1 .. n : F[i] = F[j] => i = j
  BY <1>1 DEF Distinct, F
<1> QED
  BY <1>7, <1>8

-----------------------------------------------------------------------------
(***************************************************************************)
(* The inductive invariant.                                                *)
(***************************************************************************)

(* An object has these properties. *)
IsObject(x) ==
  /\ DOMAIN x = {"platform", "values", "version", "dirty"}
  /\ x.platform \in Platforms
  /\ x.values \in [Fields -> Texts]
  /\ x.dirty \in BOOLEAN

(* The domains of the variables. *)
WellTyped ==
  /\ IsFile(file)
  /\ writer \in Objects \cup {"nobody"} /\ stale \subseteq Objects
  /\ object = [o \in Objects |-> object[o]]
  /\ \A o \in Objects : Alive(o) => IsObject(object[o])
  /\ unsaved \in [Objects -> SUBSET Fields] /\ kept \in [Objects -> SUBSET Fields]
  /\ changes \in 0 .. MaxChanges /\ writable \in BOOLEAN

(* An object that knows the file has its values, but for those that were set in it and
   those that it did not take. *)
Knows(f, obj, free) ==
  \A a \in Fields \ free :
    Has(f, obj.platform) /\ a \in DOMAIN Group(f, obj.platform).values =>
      obj.values[a] = Group(f, obj.platform).values[a]

InSync ==
  \A o \in Objects :
    Alive(o) /\ o \notin stale => Knows(file, object[o], unsaved[o] \cup kept[o])

(* A text of an object that is no folder was set, or not replaced by the last reload. *)
HasFolders(obj, free) == \A a \in Fields \ free : obj.values[a] \in Folders

OthersAreFolders ==
  \A o \in Objects : Alive(o) => HasFolders(object[o], unsaved[o] \cup kept[o])

(* What was set makes an object dirty, so that its destructor saves it. *)
SetIsDirty == \A o \in Objects : Alive(o) /\ unsaved[o] # {} => object[o].dirty

(* All of it, which every step keeps. *)
IInv == WellTyped /\ InSync /\ OthersAreFolders /\ SetIsDirty

(* A loaded object has the values that it found in the file, and is an object still. *)
LEMMA LoadedIs ==
  ASSUME NEW f, NEW x, IsObject(x)
  PROVE  /\ IsObject(Loaded(f, x))
         /\ Knows(f, Loaded(f, x), Fields \ Found(f, x.platform))
         /\ HasFolders(Loaded(f, x), Fields \ Found(f, x.platform))
<1> DEFINE p == x.platform
           y == Loaded(f, x)
           v == [a \in Fields |-> IF a \in Found(f, p) THEN Source(f, p).values[a] ELSE x.values[a]]
           w == IF "Version" \in DOMAIN Group(f, "Common").values
                THEN Group(f, "Common").values["Version"] ELSE x.version
<1>1. /\ DOMAIN x = {"platform", "values", "version", "dirty"}
      /\ p \in Platforms /\ x.values \in [Fields -> Texts]
  BY DEF IsObject
<1>2. y = [x EXCEPT !.values = v, !.version = w, !.dirty = FALSE]
  BY DEF Loaded
<1>3. v \in [Fields -> Texts] /\ \A a \in Found(f, p) : v[a] \in Folders
  <2>1. \A a \in Found(f, p) :
          a \in Fields /\ Source(f, p).values[a] \in Folders /\ Source(f, p).values[a] \in Texts
    BY SettingsAssumption DEF Found
  <2>2. \A a \in Fields : x.values[a] \in Texts
    BY <1>1
  <2> HIDE DEF p
  <2> QED
    BY <2>1, <2>2
<1>4. \A a \in Fields \ (Fields \ Found(f, p)) : Has(f, p) => v[a] = Group(f, p).values[a]
  BY DEF Source
<1> HIDE DEF p, y, v, w
<1>5. /\ DOMAIN y = {"platform", "values", "version", "dirty"}
      /\ y.values = v /\ y.dirty = FALSE
  BY <1>1, <1>2
<1>6. y.platform = p
  BY <1>1, <1>2 DEF p
<1>7. IsObject(y)
  BY <1>1, <1>3, <1>5, <1>6 DEF IsObject
<1>8. Knows(f, y, Fields \ Found(f, p))
  BY <1>4, <1>5, <1>6 DEF Knows
<1>9. HasFolders(y, Fields \ Found(f, p))
  BY <1>3, <1>5 DEF HasFolders
<1> QED
  BY <1>7, <1>8, <1>9 DEF p, y

(* An object is none without properties, and a new one is an object. *)
LEMMA ObjectsAlive ==
  /\ \A x : IsObject(x) => x # Gone
  /\ \A platform \in Platforms : IsObject(Fresh(platform)) /\ Fresh(platform).platform = platform
<1>1. ASSUME NEW x, IsObject(x)
      PROVE  x # Gone
  <2>1. x.platform \in Platforms
    BY <1>1 DEF IsObject
  <2>2. Gone.platform = None
    BY DEF Gone
  <2> QED
    BY <2>1, <2>2, SettingsAssumption
<1>2. ASSUME NEW platform \in Platforms
      PROVE  IsObject(Fresh(platform)) /\ Fresh(platform).platform = platform
  BY SettingsAssumption DEF Fresh, IsObject
<1> QED
  BY <1>1, <1>2

(* What save makes of a file is a file that the object knows. *)
LEMMA AfterSaveIs ==
  ASSUME NEW f, IsFile(f), NEW x, IsObject(x), NEW free, Knows(f, x, free)
  PROVE  IsFile(AfterSave(f, x)) /\ Knows(AfterSave(f, x), x, free)
<1>1. CASE ~Opens(f, x.platform)
  BY <1>1 DEF AfterSave
<1>2. CASE Opens(f, x.platform)
  <2> DEFINE g == Written(f, x)
             p == x.platform
  <2>1. /\ x.platform \in Platforms /\ DOMAIN x.values = Fields /\ ~SaveFails(f, x.platform)
    BY <1>2 DEF IsObject, Opens
  <2>2. /\ IsFile(g)
        /\ \A i \in DOMAIN g : g[i].name = p => g[i].values \in {x.values, <<>>}
    BY <2>1, WrittenFile
  <2>3. AfterSave(f, x) = g
    BY <1>2 DEF AfterSave
  <2> HIDE DEF g, p
  <2>4. Has(g, p) => \E i \in DOMAIN g : g[i].name = p /\ Group(g, p) = g[i]
    BY <2>2, GroupIs
  <2>5. Has(g, p) => Group(g, p).values \in {x.values, <<>>}
    BY <2>2, <2>4
  <2>6. DOMAIN <<>> = {}
    OBVIOUS
  <2>7. \A a : Has(g, p) /\ a \in DOMAIN Group(g, p).values => x.values[a] = Group(g, p).values[a]
    BY <2>5, <2>6
  <2>8. Knows(g, x, free)
    BY <2>7 DEF Knows, p
  <2> QED
    BY <2>2, <2>3, <2>8
<1> QED
  BY <1>1, <1>2

(* A step of o that leaves it as x: all the other objects are as they were, and do not
   know the file if it has changed. *)
StepOf(o, x, u, k) ==
  /\ x = Gone \/ IsObject(x)
  /\ object' = [object EXCEPT ![o] = x]
  /\ unsaved' = [unsaved EXCEPT ![o] = u] /\ kept' = [kept EXCEPT ![o] = k]
  /\ IsFile(file') /\ (file' # file => Objects \ {o} \subseteq stale')
  /\ stale \ {o} \subseteq stale' /\ stale' \subseteq Objects
  /\ writer' \in Objects \cup {"nobody"}
  /\ changes' \in 0 .. MaxChanges /\ writable' \in BOOLEAN
  /\ (x # Gone /\ o \notin stale' => Knows(file', x, u \cup k))
  /\ (x # Gone => HasFolders(x, u \cup k))
  /\ (x # Gone /\ u # {} => x.dirty)

LEMMA StepKeepsIInv ==
  ASSUME IInv, NEW o \in Objects, NEW x, NEW u \in SUBSET Fields, NEW k \in SUBSET Fields,
         StepOf(o, x, u, k)
  PROVE  IInv'
<1>1. /\ object' = [q \in Objects |-> IF q = o THEN x ELSE object[q]]
      /\ unsaved' = [q \in Objects |-> IF q = o THEN u ELSE unsaved[q]]
      /\ kept' = [q \in Objects |-> IF q = o THEN k ELSE kept[q]]
  <2>1. /\ object = [q \in Objects |-> object[q]]
        /\ unsaved \in [Objects -> SUBSET Fields] /\ kept \in [Objects -> SUBSET Fields]
    BY DEF IInv, WellTyped
  <2> QED
    BY <2>1 DEF StepOf
<1>2. WellTyped'
  <2>1. object' = [q \in Objects |-> object'[q]]
    BY <1>1
  <2>2. \A q \in Objects : Alive(q)' => IsObject(object'[q])
    BY <1>1 DEF IInv, WellTyped, Alive, StepOf
  <2>3. /\ unsaved' \in [Objects -> SUBSET Fields] /\ kept' \in [Objects -> SUBSET Fields]
    BY <1>1 DEF IInv, WellTyped
  <2> QED
    BY <2>1, <2>2, <2>3 DEF WellTyped, StepOf, IsObject
<1>3. InSync'
  <2> SUFFICES ASSUME NEW q \in Objects, Alive(q)', q \notin stale'
               PROVE  Knows(file', object'[q], unsaved'[q] \cup kept'[q])
    BY DEF InSync, Knows, Has, Group
  <2>1. CASE q = o
    BY <1>1, <2>1 DEF StepOf, Alive
  <2>2. CASE q # o
    <3>1. object'[q] = object[q] /\ unsaved'[q] = unsaved[q] /\ kept'[q] = kept[q]
      BY <1>1, <2>2
    <3>2. file' = file /\ q \notin stale
      BY <2>2 DEF StepOf
    <3>3. Alive(q)
      BY <3>1 DEF Alive
    <3>4. Knows(file, object[q], unsaved[q] \cup kept[q])
      BY <3>2, <3>3 DEF IInv, InSync
    <3> QED
      BY <3>1, <3>2, <3>4
  <2> QED
    BY <2>1, <2>2
<1>4. SetIsDirty'
  BY <1>1 DEF IInv, SetIsDirty, StepOf, Alive
<1>5. OthersAreFolders'
  <2> SUFFICES ASSUME NEW q \in Objects, Alive(q)'
               PROVE  HasFolders(object'[q], unsaved'[q] \cup kept'[q])
    BY DEF OthersAreFolders, HasFolders
  <2>1. CASE q = o
    BY <1>1, <2>1 DEF StepOf, Alive
  <2>2. CASE q # o
    BY <1>1, <2>2 DEF IInv, OthersAreFolders, Alive
  <2> QED
    BY <2>1, <2>2
<1> QED
  BY <1>2, <1>3, <1>4, <1>5 DEF IInv

(* At first there are no objects, and the file is missing or written by hand. *)
LEMMA InitIInv == Init => IInv
<1> SUFFICES ASSUME Init
             PROVE  IInv
  OBVIOUS
<1>1. IsFile(file)
  <2>1. IsFile(Missing)
    BY DEF IsFile, Missing
  <2> QED
    BY <2>1, SettingsAssumption DEF Init
<1>2. \A o \in Objects : ~Alive(o)
  BY DEF Init, Alive
<1>3. WellTyped
  BY <1>1, <1>2, SettingsAssumption DEF Init, WellTyped
<1> QED
  BY <1>2, <1>3 DEF IInv, InSync, OthersAreFolders, SetIsDirty

(* An object that reloads is an object that knows the file. *)
LEMMA ReloadKeepsIInv ==
  ASSUME IInv, NEW o \in Objects, NEW x, IsObject(x), ReloadOf(o, x),
         changes' \in 0 .. MaxChanges
  PROVE  IInv'
<1> DEFINE y == Loaded(file, x)
           k == Fields \ Found(file, x.platform)
<1>1. IsObject(y) /\ Knows(file, y, k) /\ HasFolders(y, k)
  BY LoadedIs
<1>2. /\ object' = [object EXCEPT ![o] = y] /\ unsaved' = [unsaved EXCEPT ![o] = {}]
      /\ kept' = [kept EXCEPT ![o] = k] /\ stale' = stale \ {o}
      /\ file' = file /\ writable' = writable /\ writer' = writer
  BY DEF ReloadOf
<1>3. k \in SUBSET Fields
  OBVIOUS
<1> HIDE DEF y, k
<1>4. /\ IsFile(file) /\ stale \subseteq Objects /\ writer \in Objects \cup {"nobody"}
      /\ writable \in BOOLEAN
  BY DEF IInv, WellTyped
<1>5. {} \cup k = k
  OBVIOUS
<1>6. StepOf(o, y, {}, k)
  BY <1>1, <1>2, <1>4, <1>5 DEF StepOf
<1> QED
  BY <1>3, <1>6, StepKeepsIInv

(* Every step keeps the invariant. *)
LEMMA NextIInv == IInv /\ [Next]_vars => IInv'
<1> SUFFICES ASSUME IInv, [Next]_vars
             PROVE  IInv'
  OBVIOUS
<1>1. /\ IsFile(file) /\ stale \subseteq Objects /\ writer \in Objects \cup {"nobody"}
      /\ writable \in BOOLEAN /\ changes \in 0 .. MaxChanges /\ MaxChanges \in Nat
      /\ object = [o \in Objects |-> object[o]]
      /\ unsaved \in [Objects -> SUBSET Fields] /\ kept \in [Objects -> SUBSET Fields]
  BY SettingsAssumption DEF IInv, WellTyped
<1>2. \A o \in Objects : Alive(o) => IsObject(object[o])
  BY DEF IInv, WellTyped
<1>3. \A o \in Objects :
        /\ unsaved = [unsaved EXCEPT ![o] = unsaved[o]] /\ kept = [kept EXCEPT ![o] = kept[o]]
        /\ unsaved[o] \in SUBSET Fields /\ kept[o] \in SUBSET Fields
        /\ object = [object EXCEPT ![o] = object[o]]
  BY <1>1
<1>4. ASSUME Change
      PROVE  changes' \in 0 .. MaxChanges
  BY <1>1, <1>4 DEF Change
<1>5. \A o \in Objects :
        /\ Alive(o) /\ o \notin stale => Knows(file, object[o], unsaved[o] \cup kept[o])
        /\ Alive(o) => HasFolders(object[o], unsaved[o] \cup kept[o])
        /\ Alive(o) /\ unsaved[o] # {} => object[o].dirty
  BY DEF IInv, InSync, OthersAreFolders, SetIsDirty
<1>6. ASSUME NEW o \in Objects, Construct(o)
      PROVE  IInv'
  <2>1. IsObject(Fresh(Host))
    BY ObjectsAlive, SettingsAssumption
  <2>2. StepOf(o, Fresh(Host), {}, Fields)
    BY <1>1, <1>6, <2>1 DEF Construct, StepOf, HasFolders
  <2> QED
    BY <2>2, StepKeepsIInv
<1>7. ASSUME NEW o \in Objects, Open(o)
      PROVE  IInv'
  <2>1. PICK platform \in Platforms : ReloadOf(o, Fresh(platform))
    BY <1>7 DEF Open
  <2>2. IsObject(Fresh(platform)) /\ changes' \in 0 .. MaxChanges
    BY <1>1, <1>7, ObjectsAlive DEF Open
  <2> QED
    BY <2>1, <2>2, ReloadKeepsIInv
<1>8. ASSUME NEW o \in Objects, Reload(o)
      PROVE  IInv'
  <2>1. IsObject(object[o]) /\ ReloadOf(o, object[o]) /\ changes' \in 0 .. MaxChanges
    BY <1>1, <1>2, <1>8 DEF Reload
  <2> QED
    BY <2>1, ReloadKeepsIInv
<1>9. ASSUME NEW o \in Objects, SetPlatform(o)
      PROVE  IInv'
  <2>1. PICK platform \in Platforms :
          LET obj == [object[o] EXCEPT !.platform = platform]
          IN  IF Loads(file) THEN ReloadOf(o, obj)
              ELSE /\ object' = [object EXCEPT ![o] = obj]
                   /\ stale' = stale \cup {o}
                   /\ UNCHANGED <<file, writable, writer, unsaved, kept>>
    BY <1>9 DEF SetPlatform
  <2> DEFINE x == [object[o] EXCEPT !.platform = platform]
  <2>2. IsObject(object[o]) /\ Alive(o)
    BY <1>2, <1>9 DEF SetPlatform
  <2>3. IsObject(x) /\ x.dirty = object[o].dirty
    BY <2>2 DEF IsObject
  <2>4. changes' \in 0 .. MaxChanges
    BY <1>4, <1>9 DEF SetPlatform
  <2>5. CASE Loads(file)
    <3>1. ReloadOf(o, x)
      BY <2>1, <2>5
    <3> HIDE DEF x
    <3> QED
      BY <2>3, <2>4, <3>1, ReloadKeepsIInv
  <2>6. CASE ~Loads(file)
    <3>1. /\ object' = [object EXCEPT ![o] = x] /\ stale' = stale \cup {o}
          /\ UNCHANGED <<file, writable, writer, unsaved, kept>>
      BY <2>1, <2>6
    <3>2. HasFolders(x, unsaved[o] \cup kept[o])
      BY <1>5, <2>2 DEF HasFolders, IsObject
    <3> HIDE DEF x
    <3>3. StepOf(o, x, unsaved[o], kept[o])
      BY <1>1, <1>3, <1>5, <2>2, <2>3, <2>4, <3>1, <3>2 DEF StepOf
    <3> QED
      BY <1>3, <3>3, StepKeepsIInv
  <2> QED
    BY <2>5, <2>6
<1>10. ASSUME NEW o \in Objects, SetField(o)
       PROVE  IInv'
  <2>1. PICK a \in Fields, value \in Texts :
          /\ object' = [object EXCEPT ![o].values[a] = value,
                                      ![o].dirty = DirtyAfter(object[o], a, value)]
          /\ unsaved' = [unsaved EXCEPT ![o] = @ \cup {a}]
    BY <1>10 DEF SetField
  <2> DEFINE x == [object[o] EXCEPT !.values[a] = value, !.dirty = TRUE]
             u == unsaved[o] \cup {a}
  <2>2. IsObject(object[o]) /\ Alive(o)
    BY <1>2, <1>10 DEF SetField
  <2>3. /\ DOMAIN x = {"platform", "values", "version", "dirty"}
        /\ x.platform = object[o].platform /\ x.values = [object[o].values EXCEPT ![a] = value]
        /\ x.dirty = TRUE
    BY <2>2 DEF IsObject
  <2>4. object' = [object EXCEPT ![o] = x] /\ unsaved' = [unsaved EXCEPT ![o] = u]
    BY <1>1, <2>1 DEF DirtyAfter
  <2> HIDE DEF x
  <2>5. IsObject(x)
    BY <2>2, <2>3 DEF IsObject
  <2>6. /\ changes' \in 0 .. MaxChanges /\ u \in SUBSET Fields
        /\ file' = file /\ writable' = writable /\ writer' = writer /\ kept' = kept
        /\ stale' = stale
    BY <1>3, <1>4, <1>10 DEF SetField
  <2>7. o \notin stale => Knows(file, x, u \cup kept[o])
    <3> SUFFICES ASSUME o \notin stale, NEW b \in Fields, b \notin u \cup kept[o],
                        Has(file, object[o].platform),
                        b \in DOMAIN Group(file, object[o].platform).values
                 PROVE  x.values[b] = Group(file, object[o].platform).values[b]
      BY <2>3 DEF Knows
    <3>1. b # a /\ b \notin unsaved[o] \cup kept[o]
      OBVIOUS
    <3>2. x.values[b] = object[o].values[b]
      BY <2>2, <2>3, <3>1 DEF IsObject
    <3>3. object[o].values[b] = Group(file, object[o].platform).values[b]
      BY <1>5, <2>2, <3>1 DEF Knows
    <3> QED
      BY <3>2, <3>3
  <2>8. HasFolders(x, u \cup kept[o])
    <3> SUFFICES ASSUME NEW b \in Fields, b \notin u \cup kept[o]
                 PROVE  x.values[b] \in Folders
      BY DEF HasFolders
    <3>1. b # a /\ b \notin unsaved[o] \cup kept[o]
      OBVIOUS
    <3>2. x.values[b] = object[o].values[b]
      BY <2>2, <2>3, <3>1 DEF IsObject
    <3> QED
      BY <1>5, <2>2, <3>1, <3>2 DEF HasFolders
  <2> HIDE DEF u
  <2>9. StepOf(o, x, u, kept[o])
    BY <1>1, <1>3, <2>3, <2>4, <2>5, <2>6, <2>7, <2>8 DEF StepOf
  <2> QED
    BY <1>3, <2>6, <2>9, StepKeepsIInv
<1>11. ASSUME NEW o \in Objects, Alive(o), NEW new, WriteFile(o, new)
       PROVE  /\ file' = new /\ (file' # file => Objects \ {o} \subseteq stale')
              /\ stale \subseteq stale' /\ stale' \subseteq Objects
              /\ (o \notin stale' => o \notin stale)
              /\ writer' \in Objects \cup {"nobody"}
  BY <1>1, <1>11 DEF WriteFile
<1>12. ASSUME NEW o \in Objects, Forget(o), IsFile(file'),
              file' # file => Objects \ {o} \subseteq stale',
              stale \ {o} \subseteq stale', stale' \subseteq Objects,
              writer' \in Objects \cup {"nobody"}
       PROVE  IInv'
  <2>1. StepOf(o, Gone, {}, Fields)
    BY <1>1, <1>12 DEF Forget, StepOf
  <2> QED
    BY <2>1, StepKeepsIInv
<1>13. ASSUME NEW o \in Objects, Save(o)
       PROVE  IInv'
  <2> DEFINE x == object[o]
             new == AfterSave(file, x)
  <2>1. Alive(o) /\ IsObject(x) /\ WriteFile(o, new)
    BY <1>2, <1>13 DEF Save
  <2>2. /\ changes' = changes /\ writable' = writable /\ object' = object
        /\ unsaved' = unsaved /\ kept' = kept
    BY <1>13 DEF Save
  <2>3. ASSUME NEW free, Knows(file, x, free)
        PROVE  IsFile(new) /\ Knows(new, x, free)
    BY <1>1, <2>1, <2>3, AfterSaveIs
  <2>4. IsFile(new)
    <3>1. Knows(file, x, Fields)
      BY DEF Knows
    <3> QED
      BY <2>3, <3>1
  <2>5. o \notin stale => Knows(new, x, unsaved[o] \cup kept[o])
    BY <1>5, <2>1, <2>3
  <2> HIDE DEF new
  <2>6. /\ file' = new /\ (file' # file => Objects \ {o} \subseteq stale')
        /\ stale \subseteq stale' /\ stale' \subseteq Objects
        /\ (o \notin stale' => o \notin stale)
        /\ writer' \in Objects \cup {"nobody"}
    BY <1>11, <2>1
  <2>7. StepOf(o, x, unsaved[o], kept[o])
    <3>1. unsaved[o] # {} => x.dirty
      BY <1>5, <2>1
    <3>2. object' = [object EXCEPT ![o] = x] /\ HasFolders(x, unsaved[o] \cup kept[o])
      BY <1>3, <1>5, <2>1, <2>2
    <3> HIDE DEF x
    <3> QED
      BY <1>1, <1>3, <2>1, <2>2, <2>4, <2>5, <2>6, <3>1, <3>2 DEF StepOf
  <2> QED
    BY <1>3, <2>7, StepKeepsIInv
<1>14. ASSUME NEW o \in Objects, Alive(o), NEW f, IsFile(f)
       PROVE  IsFile(AfterSave(f, object[o]))
  <2>1. Knows(f, object[o], Fields)
    BY DEF Knows
  <2> QED
    BY <1>2, <1>14, <2>1, AfterSaveIs
<1>15. ASSUME NEW o \in Objects, Delete(o)
       PROVE  IInv'
  <2>1. Alive(o) /\ Forget(o)
    BY <1>15 DEF Delete
  <2>2. CASE object[o].dirty
    <3>1. WriteFile(o, AfterSave(file, object[o])) /\ IsFile(AfterSave(file, object[o]))
      BY <1>1, <1>14, <1>15, <2>1, <2>2 DEF Delete
    <3> QED
      BY <1>11, <1>12, <2>1, <3>1
  <2>3. CASE ~object[o].dirty
    BY <1>1, <1>12, <1>15, <2>1, <2>3 DEF Delete
  <2> QED
    BY <2>2, <2>3
<1>16. ASSUME NEW o \in Objects, OK(o)
       PROVE  IInv'
  <2> DEFINE saved == AfterSave(file, object[o])
             new == IF object[o].dirty THEN AfterSave(saved, object[o]) ELSE saved
  <2>1. Alive(o) /\ Forget(o) /\ WriteFile(o, new)
    BY <1>16 DEF OK
  <2>2. IsFile(new)
    BY <1>1, <1>14, <2>1
  <2> HIDE DEF new
  <2> QED
    BY <1>11, <1>12, <2>1, <2>2
<1>17. ASSUME NEW o \in Objects, Reset(o)
       PROVE  IInv'
  <2>1. /\ file' = <<[name |-> "Common", values |-> [v \in {"Version"} |-> object[o].version]]>>
        /\ stale' = stale \cup Objects /\ writer' = "nobody"
        /\ writable' = writable /\ object' = object /\ unsaved' = unsaved /\ kept' = kept
        /\ Alive(o)
    BY <1>17 DEF Reset
  <2>2. IsFile(file')
    <3> DEFINE w == [v \in {"Version"} |-> object[o].version]
    <3>1. DOMAIN w = {"Version"}
      OBVIOUS
    <3> HIDE DEF w
    <3>2. "Common" \in Names
      BY DEF Names
    <3> QED
      BY <2>1, <3>1, <3>2 DEF IsFile, w
  <2>3. changes' \in 0 .. MaxChanges
    BY <1>4, <1>17 DEF Reset
  <2>4. StepOf(o, object[o], unsaved[o], kept[o])
    BY <1>1, <1>2, <1>3, <1>5, <2>1, <2>2, <2>3 DEF StepOf
  <2> QED
    BY <1>3, <2>4, StepKeepsIInv
<1>18. CASE EditFile
  <2>1. /\ IsFile(file') /\ writable' \in BOOLEAN /\ stale' = Objects
        /\ writer' \in Objects \cup {"nobody"} /\ changes' \in 0 .. MaxChanges
        /\ object' = object /\ unsaved' = unsaved /\ kept' = kept
    <3>1. IsFile(Missing)
      BY DEF IsFile, Missing
    <3> QED
      BY <1>1, <1>4, <1>18, <3>1, SettingsAssumption DEF EditFile
  <2>2. WellTyped'
    BY <1>1, <1>2, <2>1 DEF WellTyped, Alive, IsObject
  <2>3. InSync'
    BY <2>1 DEF InSync
  <2>4. SetIsDirty'
    BY <1>5, <2>1 DEF SetIsDirty, Alive
  <2>5. OthersAreFolders'
    BY <1>5, <2>1 DEF OthersAreFolders, HasFolders, Alive
  <2> QED
    BY <2>2, <2>3, <2>4, <2>5 DEF IInv
<1>19. CASE UNCHANGED vars
  BY <1>19 DEF vars, IInv, WellTyped, InSync, OthersAreFolders, SetIsDirty, Alive, IsObject,
               Knows, HasFolders, Has, Group
<1> QED
  BY <1>6, <1>7, <1>8, <1>9, <1>10, <1>13, <1>15, <1>16, <1>17, <1>18, <1>19 DEF Next

(* So it holds in every state. *)
LEMMA Invariance == Spec => []IInv
<1> QED
  BY InitIInv, NextIInv, PTL DEF Spec

(* Every state is well-typed: above all what save writes reads as a file again, and a
   text of an object that is no folder was set in it, not taken from the file. *)
THEOREM TypeCorrect == Spec => []TypeOK
<1>1. IInv => TypeOK
  <2> SUFFICES ASSUME IInv
               PROVE  TypeOK
    OBVIOUS
  <2>1. Distinct(file) => Len(file) <= Cardinality(Platforms) + 2
    BY GroupsAreFew DEF IInv, WellTyped
  <2> QED
    BY <2>1 DEF IInv, WellTyped, OthersAreFolders, HasFolders, IsObject, TypeOK
<1> QED
  BY <1>1, Invariance, PTL

-----------------------------------------------------------------------------
(***************************************************************************)
(* What a step does that saves an object.                                  *)
(***************************************************************************)

(* The file of a step that saves x: save and the destructor write it once, the OK button
   once or twice. *)
IsSaved(f, x, g) == g = Written(f, x) \/ g = Written(Written(f, x), x)

(* A file that was saved to can be saved to again. *)
LEMMA OpensAgain ==
  ASSUME NEW f, IsFile(f), WellFormed(f), NEW x, IsObject(x), Opens(f, x.platform)
  PROVE  AfterSave(f, x) = Written(f, x) /\ AfterSave(Written(f, x), x) = Written(Written(f, x), x)
<1>1. x.platform \in Platforms /\ DOMAIN x.values = Fields
  BY DEF IsObject
<1>2. IsFile(Written(f, x)) /\ WellFormed(Written(f, x))
  BY <1>1, SaveOnce DEF SavedAs
<1>3. ~SaveFails(Written(f, x), x.platform)
  BY <1>1, <1>2, WellFormedSave
<1> QED
  BY <1>3 DEF Opens, AfterSave

(* Only save, the destructor and the OK button can be a step in which an object writes
   another file. *)
LEMMA SavesAre ==
  ASSUME IInv, [Next]_vars, WellFormed(file), NEW o \in Objects, Saves(o)
  PROVE  Alive(o) /\ IsObject(object[o]) /\ IsSaved(file, object[o], file')
<1>1. /\ IsFile(file) /\ o # "nobody"
      /\ \A q \in Objects : Alive(q) => IsObject(object[q])
  BY SettingsAssumption DEF IInv, WellTyped
<1>2. file' # file /\ writer' = o
  BY DEF Saves
<1>3. ASSUME NEW q \in Objects, Alive(q), NEW new, WriteFile(q, new),
             ~Opens(file, object[q].platform) => new = file
      PROVE  q = o /\ file' = new /\ Opens(file, object[q].platform)
  BY <1>2, <1>3 DEF WriteFile
<1>4. ASSUME NEW q \in Objects, Alive(q), WriteFile(q, AfterSave(file, object[q]))
      PROVE  Alive(o) /\ IsObject(object[o]) /\ IsSaved(file, object[o], file')
  <2>1. ~Opens(file, object[q].platform) => AfterSave(file, object[q]) = file
    BY DEF AfterSave
  <2>2. q = o /\ file' = AfterSave(file, object[q]) /\ Opens(file, object[q].platform)
    BY <1>3, <1>4, <2>1
  <2>3. IsObject(object[o])
    BY <1>1, <1>4, <2>2
  <2>4. AfterSave(file, object[o]) = Written(file, object[o])
    BY <2>2 DEF AfterSave
  <2> QED
    BY <1>4, <2>2, <2>3, <2>4 DEF IsSaved
<1>5. ASSUME NEW q \in Objects, OK(q)
      PROVE  Alive(o) /\ IsObject(object[o]) /\ IsSaved(file, object[o], file')
  <2> DEFINE saved == AfterSave(file, object[q])
             new == IF object[q].dirty THEN AfterSave(saved, object[q]) ELSE saved
  <2>1. Alive(q) /\ WriteFile(q, new)
    BY <1>5 DEF OK
  <2>2. ~Opens(file, object[q].platform) => new = file
    BY DEF AfterSave
  <2>3. q = o /\ file' = new /\ Opens(file, object[q].platform)
    <3> HIDE DEF new
    <3> QED
      BY <1>3, <2>1, <2>2
  <2>4. IsObject(object[o])
    BY <1>1, <2>1, <2>3
  <2>5. /\ AfterSave(file, object[o]) = Written(file, object[o])
        /\ AfterSave(Written(file, object[o]), object[o])
             = Written(Written(file, object[o]), object[o])
    BY <1>1, <2>3, <2>4, OpensAgain
  <2> QED
    BY <2>1, <2>3, <2>4, <2>5 DEF IsSaved
<1>6. ASSUME NEW q \in Objects,
             Construct(q) \/ Open(q) \/ Reload(q) \/ SetPlatform(q) \/ SetField(q)
      PROVE  file' = file
  BY <1>6 DEF Construct, Open, Reload, SetPlatform, SetField, ReloadOf
<1>7. ASSUME NEW q \in Objects, Save(q)
      PROVE  Alive(o) /\ IsObject(object[o]) /\ IsSaved(file, object[o], file')
  BY <1>4, <1>7 DEF Save
<1>8. ASSUME NEW q \in Objects, Delete(q)
      PROVE  Alive(o) /\ IsObject(object[o]) /\ IsSaved(file, object[o], file')
  BY <1>2, <1>4, <1>8 DEF Delete
<1>9. ASSUME (\E q \in Objects : Reset(q)) \/ EditFile
      PROVE  writer' = "nobody"
  BY <1>9 DEF Reset, EditFile
<1>10. CASE UNCHANGED vars
  BY <1>2, <1>10 DEF vars
<1> QED
  BY <1>1, <1>2, <1>5, <1>6, <1>7, <1>8, <1>9, <1>10 DEF Next

(* What they make of a well-formed file. *)
LEMMA SavedIs ==
  ASSUME NEW f, IsFile(f), WellFormed(f), NEW x, IsObject(x), NEW g, IsSaved(f, x, g)
  PROVE  SavedAs(f, x, g)
<1>1. x.platform \in Platforms /\ DOMAIN x.values = Fields
  BY DEF IsObject
<1> QED
  BY <1>1, SaveOnce, SaveTwice DEF IsSaved

(* Saving an object leaves the groups of all other platforms and Common as they are. *)
THEOREM OthersStay == Spec => OtherGroupsKept
<1>1. ASSUME IInv, [Next]_vars, NEW o \in Objects, Saves(o), WellFormed(file),
             NEW i \in DOMAIN file, file[i].name # object[o].platform
      PROVE  Has(file', file[i].name) /\ Group(file', file[i].name) = file[i]
  <2>1. IsFile(file)
    BY <1>1 DEF IInv, WellTyped
  <2>2. IsObject(object[o]) /\ IsSaved(file, object[o], file')
    BY <1>1, SavesAre
  <2>3. SavedAs(file, object[o], file')
    BY <1>1, <2>1, <2>2, SavedIs
  <2> QED
    BY <1>1, <2>3 DEF SavedAs
<1>2. IInv /\ [Next]_vars =>
        [\A o \in Objects : Saves(o) /\ WellFormed(file) =>
           \A i \in DOMAIN file :
             file[i].name # object[o].platform =>
               Has(file', file[i].name) /\ Group(file', file[i].name) = file[i]]_vars
  BY <1>1
<1> QED
  BY <1>2, Invariance, PTL DEF Spec, OtherGroupsKept

(* A folder in the file that changes when an object is saved was set in the object, or
   not taken from the file by its last reload, or the object did not know the file. *)
THEOREM NoOtherUpdateIsLost == Spec => UpdatesKept
<1>1. ASSUME IInv, [Next]_vars, NEW o \in Objects, Saves(o), WellFormed(file),
             Has(file, object[o].platform),
             NEW a \in Fields \cap DOMAIN Group(file, object[o].platform).values,
             Group(file, object[o].platform).values[a]
               # Group(file', object[o].platform).values[a]
      PROVE  a \in unsaved[o] \cup kept[o] \/ o \in stale
  <2>1. IsFile(file)
    BY <1>1 DEF IInv, WellTyped
  <2>2. Alive(o) /\ IsObject(object[o]) /\ IsSaved(file, object[o], file')
    BY <1>1, SavesAre
  <2>3. SavedAs(file, object[o], file')
    BY <1>1, <2>1, <2>2, SavedIs
  <2>4. Group(file', object[o].platform).values = object[o].values
    BY <2>3 DEF SavedAs
  <2>5. o \notin stale => Knows(file, object[o], unsaved[o] \cup kept[o])
    BY <1>1, <2>2 DEF IInv, InSync
  <2> QED
    BY <1>1, <2>4, <2>5 DEF Knows
<1>2. IInv /\ [Next]_vars =>
        [\A o \in Objects : Saves(o) /\ WellFormed(file) /\ Has(file, object[o].platform) =>
           LET old == Group(file, object[o].platform).values
               new == Group(file', object[o].platform).values
           IN  \A a \in Fields \cap DOMAIN old :
                 old[a] # new[a] => a \in unsaved[o] \cup kept[o] \/ o \in stale]_vars
  BY <1>1
<1> QED
  BY <1>2, Invariance, PTL DEF Spec, UpdatesKept

(* What was set in an object is in the file when the object is gone, after OK and after
   Cancel. *)
THEOREM ChangesGetSaved == Spec => SetValuesReachFile
<1>1. ASSUME IInv, [Next]_vars, NEW o \in Objects, Goes(o), writable, WellFormed(file),
             NEW a \in unsaved[o]
      PROVE  /\ Has(file', object[o].platform)
             /\ Group(file', object[o].platform).values[a] = object[o].values[a]
  <2>1. /\ IsFile(file) /\ Alive(o) /\ IsObject(object[o]) /\ object[o].dirty
        /\ object = [q \in Objects |-> object[q]]
        /\ \A q \in Objects : Alive(q) => IsObject(object[q])
    BY <1>1 DEF IInv, WellTyped, SetIsDirty, Goes
  <2>2. object[o].platform \in Platforms /\ DOMAIN object[o].values = Fields
    BY <2>1 DEF IsObject
  <2>3. Opens(file, object[o].platform)
    BY <1>1, <2>1, <2>2, WellFormedSave DEF Opens
  <2>4. object'[o] = Gone
    BY <1>1 DEF Goes, Alive
  <2>5. \A x : IsObject(x) => x # Gone
    BY ObjectsAlive
  <2>6. /\ AfterSave(file, object[o]) = Written(file, object[o])
        /\ AfterSave(Written(file, object[o]), object[o])
             = Written(Written(file, object[o]), object[o])
    BY <1>1, <2>1, <2>3, OpensAgain
  <2>7. ASSUME NEW q \in Objects, q # o, NEW x, object' = [object EXCEPT ![q] = x]
        PROVE  FALSE
    BY <2>1, <2>4, <2>7 DEF Alive
  <2>8. ASSUME object' = object
        PROVE  FALSE
    BY <2>1, <2>4, <2>8 DEF Alive
  <2>9. ASSUME NEW x, IsObject(x), NEW q \in Objects, object' = [object EXCEPT ![q] = x]
        PROVE  FALSE
    BY <2>1, <2>4, <2>5, <2>7, <2>9
  <2>10. IsSaved(file, object[o], file')
    <3>1. ASSUME NEW q \in Objects, Construct(q)
          PROVE  FALSE
      <4>1. IsObject(Fresh(Host)) /\ object' = [object EXCEPT ![q] = Fresh(Host)]
        BY <3>1, ObjectsAlive, SettingsAssumption DEF Construct
      <4> QED
        BY <2>9, <4>1
    <3>2. ASSUME NEW q \in Objects, NEW x, IsObject(x), ReloadOf(q, x)
          PROVE  FALSE
      <4>1. IsObject(Loaded(file, x)) /\ object' = [object EXCEPT ![q] = Loaded(file, x)]
        BY <3>2, LoadedIs DEF ReloadOf
      <4> QED
        BY <2>9, <4>1
    <3>3. ASSUME NEW q \in Objects, Open(q)
          PROVE  FALSE
      BY <3>2, <3>3, ObjectsAlive DEF Open
    <3>4. ASSUME NEW q \in Objects, Reload(q)
          PROVE  FALSE
      BY <2>1, <3>2, <3>4 DEF Reload
    <3>5. ASSUME NEW q \in Objects, SetPlatform(q)
          PROVE  FALSE
      <4>1. PICK platform \in Platforms :
              LET obj == [object[q] EXCEPT !.platform = platform]
              IN  ReloadOf(q, obj) \/ object' = [object EXCEPT ![q] = obj]
        BY <3>5 DEF SetPlatform
      <4> DEFINE x == [object[q] EXCEPT !.platform = platform]
      <4>2. IsObject(object[q])
        BY <2>1, <3>5 DEF SetPlatform
      <4>3. IsObject(x)
        BY <4>2 DEF IsObject
      <4>4. ReloadOf(q, x) \/ object' = [object EXCEPT ![q] = x]
        BY <4>1
      <4> HIDE DEF x
      <4> QED
        BY <2>9, <3>2, <4>3, <4>4
    <3>6. ASSUME NEW q \in Objects, SetField(q)
          PROVE  FALSE
      <4>1. PICK b \in Fields, value \in Texts :
              object' = [object EXCEPT ![q].values[b] = value,
                                       ![q].dirty = DirtyAfter(object[q], b, value)]
        BY <3>6 DEF SetField
      <4> DEFINE x == [object[q] EXCEPT !.values[b] = value, !.dirty = TRUE]
      <4>2. IsObject(object[q])
        BY <2>1, <3>6 DEF SetField
      <4>3. IsObject(x)
        BY <4>2 DEF IsObject
      <4>4. object' = [object EXCEPT ![q] = x]
        BY <2>1, <4>1 DEF DirtyAfter
      <4> HIDE DEF x
      <4> QED
        BY <2>9, <4>3, <4>4
    <3>7. ASSUME NEW q \in Objects, Save(q) \/ Reset(q)
          PROVE  FALSE
      BY <2>8, <3>7 DEF Save, Reset
    <3>8. ASSUME NEW q \in Objects, Delete(q)
          PROVE  IsSaved(file, object[o], file')
      <4>1. q = o
        BY <2>7, <3>8 DEF Delete, Forget
      <4>2. file' = AfterSave(file, object[o])
        BY <2>1, <3>8, <4>1 DEF Delete, WriteFile
      <4> QED
        BY <2>6, <4>2 DEF IsSaved
    <3>9. ASSUME NEW q \in Objects, OK(q)
          PROVE  IsSaved(file, object[o], file')
      <4>1. q = o
        BY <2>7, <3>9 DEF OK, Forget
      <4>2. file' = AfterSave(AfterSave(file, object[o]), object[o])
        BY <2>1, <3>9, <4>1 DEF OK, WriteFile
      <4> QED
        BY <2>6, <4>2 DEF IsSaved
    <3>10. ~EditFile /\ ~UNCHANGED vars
      BY <2>8 DEF EditFile, vars
    <3> QED
      BY <1>1, <3>1, <3>3, <3>4, <3>5, <3>6, <3>7, <3>8, <3>9, <3>10 DEF Next
  <2>11. SavedAs(file, object[o], file')
    BY <1>1, <2>1, <2>10, SavedIs
  <2> QED
    BY <2>11 DEF SavedAs
<1>2. IInv /\ [Next]_vars =>
        [\A o \in Objects : Goes(o) /\ writable /\ WellFormed(file) =>
           \A a \in unsaved[o] :
             /\ Has(file', object[o].platform)
             /\ Group(file', object[o].platform).values[a] = object[o].values[a]]_vars
  BY <1>1
<1> QED
  BY <1>2, Invariance, PTL DEF Spec, SetValuesReachFile
=============================================================================
