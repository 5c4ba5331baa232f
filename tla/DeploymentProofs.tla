--------------------------- MODULE DeploymentProofs ---------------------------
(***************************************************************************)
(* Proofs about the way from the model to the real-time target, for all    *)
(* files and contents and any number of changes: when the program exits at *)
(* its start, and that its ports carry their signals if it runs.           *)
(***************************************************************************)
EXTENDS Deployment, WellFoundedInduction, SequenceTheorems, TLAPS

(***************************************************************************)
(* The configuration in the workspace is that of its ECIC file, as long as *)
(* no file is changed.                                                     *)
(***************************************************************************)
WorkspaceIsRight ==
  workspace.ecic # NoPath /\ "workspace" \notin outdated =>
    workspace.icds = Listed(disk[workspace.ecic], disk)

(* While the build runs, its code is that of the file in the mask. *)
BuildIsRight ==
  building =>
    /\ workspace.ecic = configured /\ code.name = configured[2]
    /\ "code" \notin outdated =>
         disk[configured] # NoFile /\ code.ports = SignalsOf(disk[configured], disk)

(***************************************************************************)
(* What was packed, against the files of the host at that moment: the ECIC *)
(* file and its ICDs under their names, with no others in their place; and *)
(* if nothing was changed before, exactly those that are listed.           *)
(***************************************************************************)
PackedIsRight ==
  "code" \notin app.outdated /\ ~app.collide =>
    LET ecic == app.host[app.ecic]
    IN  /\ app.ports = SignalsOf(ecic, app.host)
        /\ app.name \in DOMAIN app.misc /\ app.misc[app.name] = ecic
        /\ \A s \in WithIcd(ecic) :
             /\ s.icd[2] \in DOMAIN app.misc => app.misc[s.icd[2]] = app.host[s.icd]
             /\ app.outdated = {} =>
                  (s.icd[2] \in DOMAIN app.misc <=> s.icd \in Listed(ecic, app.host))

ApplicationIsRight ==
  app.made =>
    /\ app.host \in [Paths -> Contents \cup {NoFile}] /\ \A p \in Paths : MayHold(p, app.host[p])
    /\ app.ecic \in EcicPaths /\ app.name = app.ecic[2]
    /\ PackedIsRight

(* What the program has found at its start. *)
TargetIsRight ==
  /\ target.state = "off" <=> target = Off
  /\ target # Off => app.made
  /\ target.state = "exited" => Exits
  /\ target.state = "running" => ~Exits /\ target.signals = SignalsOf(Ecic, OnTarget)

DeploymentInv ==
  TypeOK /\ WorkspaceIsRight /\ BuildIsRight /\ ApplicationIsRight /\ TargetIsRight

-----------------------------------------------------------------------------
(***************************************************************************)
(* Numbers and paths.                                                      *)
(***************************************************************************)

(* A set of natural numbers has a least element. *)
LEMMA LeastExists ==
  ASSUME NEW S, S \subseteq Nat, S # {}
  PROVE  \E x \in S : \A y \in S : x <= y
<1> DEFINE R == OpToRel(<, Nat)
<1>1. IsWellFoundedOn(R, Nat)
  BY NatLessThanWellFounded
<1>2. \A x, y \in Nat : x < y => <<x, y>> \in R
  BY DEF OpToRel
<1> HIDE DEF R
<1>3. PICK x \in S : \A y \in S : ~(<<y, x>> \in R)
  BY <1>1, WFMin
<1>4. x \in Nat /\ \A y \in S : y \in Nat
  OBVIOUS
<1>5. \A y \in S : ~(y < x)
  BY <1>2, <1>3, <1>4
<1>6. \A y \in S : x <= y
  BY <1>4, <1>5
<1> QED
  BY <1>6

(* One with a bound has a greatest element. *)
LEMMA GreatestExists ==
  ASSUME NEW n \in Nat, NEW S, S \subseteq 0 .. n, S # {}
  PROVE  \E x \in S : \A y \in S : y <= x
<1> DEFINE T == {n - x : x \in S}
<1>0. \A x \in S : x \in 0 .. n /\ n - x \in Nat
  OBVIOUS
<1>1. T \subseteq Nat /\ T # {}
  BY <1>0
<1>2. PICK t \in T : \A y \in T : t <= y
  <2> HIDE DEF T
  <2> QED
    BY <1>1, LeastExists
<1>3. PICK x \in S : t = n - x
  OBVIOUS
<1>4. \A y \in S : n - x <= n - y
  BY <1>2, <1>3
<1> QED
  BY <1>0, <1>3, <1>4

(* A path is a folder and a name, and has its place in the order of adding. *)
LEMMA PathsAre ==
  ASSUME NEW p \in Paths
  PROVE  /\ p = <<p[1], p[2]>> /\ p # NoPath /\ Place(p) \in 0 .. Len(AllPaths)
         /\ p # workspace.ecic => Place(p) # 0
<1>1. AllPaths \in Seq(STRING \X STRING) /\ NoPath \notin Paths
  BY DeploymentAssumption
<1>2. Len(AllPaths) \in Nat /\ DOMAIN AllPaths = 1 .. Len(AllPaths)
  BY <1>1, LenProperties
<1>3. PICK i \in DOMAIN AllPaths : AllPaths[i] = p
  BY DEF Paths
<1>4. p \in STRING \X STRING
  BY <1>1, <1>2, <1>3, ElementOfSeq
<1> DEFINE j == CHOOSE k \in DOMAIN AllPaths : AllPaths[k] = p
<1>5. j \in DOMAIN AllPaths
  BY <1>3
<1>6. Place(p) = IF p = workspace.ecic THEN 0 ELSE j
  BY DEF Place
<1> HIDE DEF j
<1> QED
  BY <1>1, <1>2, <1>4, <1>5, <1>6

(* Of the files of one name, one is added last. *)
LEMMA LastNamedIs ==
  ASSUME NEW paths \in SUBSET Paths, NEW p \in paths
  PROVE  LastNamed(paths, p[2]) \in paths /\ LastNamed(paths, p[2])[2] = p[2]
<1> DEFINE named == {q \in paths : q[2] = p[2]}
           places == {Place(q) : q \in named}
           IsLast(r) == r[2] = p[2] /\ \A q \in paths : q[2] = p[2] => Place(q) <= Place(r)
<1>1. Len(AllPaths) \in Nat
  BY DeploymentAssumption, LenProperties
<1>2. places \subseteq 0 .. Len(AllPaths) /\ places # {}
  BY PathsAre
<1>3. PICK x \in places : \A y \in places : y <= x
  <2> HIDE DEF places
  <2> QED
    BY <1>1, <1>2, GreatestExists
<1>4. PICK r \in named : x = Place(r)
  OBVIOUS
<1>5. r \in paths /\ IsLast(r)
  BY <1>3, <1>4
<1>6. LastNamed(paths, p[2]) = CHOOSE q \in paths : IsLast(q)
  BY DEF LastNamed
<1>7. LastNamed(paths, p[2]) \in paths /\ IsLast(LastNamed(paths, p[2]))
  <2> HIDE DEF IsLast
  <2> QED
    BY <1>5, <1>6
<1> QED
  BY <1>7

(* The signals are the same if the streams with an ICD find the same messages. *)
LEMMA SameSignals ==
  ASSUME NEW content, NEW found, NEW other,
         \A s \in WithIcd(content) : found[s.icd] = other[s.icd]
  PROVE  SignalsOf(content, found) = SignalsOf(content, other)
<1> DEFINE list(f) == [i \in DOMAIN Streams(content) |-> MessagesOf(Streams(content)[i], f)]
<1>1. ASSUME NEW i \in DOMAIN Streams(content)
      PROVE  MessagesOf(Streams(content)[i], found) = MessagesOf(Streams(content)[i], other)
  <2> DEFINE s == Streams(content)[i]
  <2>1. CASE s.type = "ASSISTANT"
    BY <2>1 DEF MessagesOf
  <2>2. CASE s.type # "ASSISTANT"
    <3>1. s \in WithIcd(content)
      BY <2>2 DEF WithIcd, Range
    <3> HIDE DEF s
    <3>2. found[s.icd] = other[s.icd]
      BY <3>1
    <3> QED
      BY <3>2 DEF MessagesOf, s
  <2> QED
    BY <2>1, <2>2
<1>2. list(found) = list(other)
  BY <1>1
<1>3. \A f : SignalsOf(content, f) = FlattenSeq(list(f))
  BY DEF SignalsOf
<1> HIDE DEF list
<1> QED
  BY <1>2, <1>3

(* A stream with an ICD names a file that is no ECIC file. *)
LEMMA IcdsAre ==
  ASSUME NEW content \in Contents \cup {NoFile}, NEW s \in WithIcd(content)
  PROVE  IsEcic(content) /\ s.icd \in Paths \ EcicPaths
<1>1. s \in Range(Streams(content)) /\ s.type # "ASSISTANT"
  BY DEF WithIcd
<1>2. PICK i \in DOMAIN Streams(content) : s = Streams(content)[i]
  BY <1>1 DEF Range
<1>3. IsEcic(content)
  <2>1. SUFFICES ASSUME ~IsEcic(content)
                 PROVE  FALSE
    OBVIOUS
  <2>2. Streams(content) = <<>> /\ DOMAIN <<>> = {}
    BY <2>1 DEF Streams
  <2> QED
    BY <1>2, <2>2
<1>4. content.streams[i] = s /\ i \in DOMAIN content.streams /\ content \in EcicContents
  BY <1>2, <1>3 DEF Streams, IsEcic
<1> QED
  BY <1>1, <1>3, <1>4, DeploymentAssumption

-----------------------------------------------------------------------------
(***************************************************************************)
(* Packing.                                                                *)
(***************************************************************************)

(* What is packed are files of the host that exist; each under its own name, unless two
   of them have one. *)
LEMMA MiscIs ==
  ASSUME TypeOK, BuildIsRight, building
  PROVE  /\ XmlPaths \subseteq Paths /\ Added(XmlPaths) \subseteq XmlPaths
         /\ \A n \in DOMAIN Misc(Added(XmlPaths)) : Misc(Added(XmlPaths))[n] \in Contents
         /\ \A n : n \in DOMAIN Misc(Added(XmlPaths)) <=> \E p \in Added(XmlPaths) : p[2] = n
         /\ \A p \in Added(XmlPaths) :
              (\A q \in XmlPaths : p # q => p[2] # q[2]) => Misc(Added(XmlPaths))[p[2]] = disk[p]
<1> DEFINE added == Added(XmlPaths)
           misc == Misc(added)
<1>1. workspace.ecic \in Paths /\ workspace.icds \subseteq Paths
  BY DeploymentAssumption DEF TypeOK, BuildIsRight
<1>2. XmlPaths \subseteq Paths
  BY <1>1 DEF XmlPaths
<1>3. added \subseteq XmlPaths
  BY DEF Added
<1>4. \A p \in added : disk[p] # NoFile
  <2>1. \A p \in XmlPaths : Place(p) <= Place(p)
    BY <1>2, PathsAre
  <2> QED
    BY <2>1 DEF Added
<1>5. \A p \in added : disk[p] \in Contents
  BY <1>2, <1>3, <1>4 DEF TypeOK
<1> HIDE DEF added
<1>6. DOMAIN misc = {p[2] : p \in added} /\ \A n \in DOMAIN misc : misc[n] = disk[LastNamed(added, n)]
  BY DEF Misc
<1>7. \A p \in added : LastNamed(added, p[2]) \in added /\ LastNamed(added, p[2])[2] = p[2]
  BY <1>2, <1>3, LastNamedIs
<1> HIDE DEF misc
<1>8. \A n : n \in DOMAIN misc <=> \E p \in added : p[2] = n
  BY <1>6
<1>9. \A n \in DOMAIN misc : misc[n] \in Contents
  BY <1>5, <1>6, <1>7, <1>8
<1>10. ASSUME NEW p \in added, \A q \in XmlPaths : p # q => p[2] # q[2]
       PROVE  misc[p[2]] = disk[p]
  <2>1. LastNamed(added, p[2]) = p
    BY <1>3, <1>7, <1>10
  <2> QED
    BY <1>6, <1>8, <2>1
<1> QED
  BY <1>2, <1>3, <1>8, <1>9, <1>10 DEF added, misc

(* Packing makes the application right. *)
LEMMA PackIsRight ==
  ASSUME DeploymentInv, Pack
  PROVE  ApplicationIsRight'
<1> DEFINE added == Added(XmlPaths)
           misc == Misc(added)
           ecic == disk[configured]
<1>1. TypeOK /\ WorkspaceIsRight /\ BuildIsRight /\ building
  BY DEF DeploymentInv, Pack
<1>2. app' = [made |-> TRUE, name |-> code.name, ports |-> code.ports, misc |-> misc,
              outdated |-> outdated, host |-> disk, ecic |-> configured, collide |-> NamesCollide]
  BY DEF Pack
<1>3. workspace.ecic = configured /\ code.name = configured[2] /\ configured \in EcicPaths
  BY <1>1 DEF BuildIsRight, TypeOK
<1>4. /\ XmlPaths \subseteq Paths /\ added \subseteq XmlPaths
      /\ \A n : n \in DOMAIN misc <=> \E p \in added : p[2] = n
      /\ \A p \in added : (\A q \in XmlPaths : p # q => p[2] # q[2]) => misc[p[2]] = disk[p]
  BY <1>1, MiscIs
<1>5. added = {p \in XmlPaths : \A q \in XmlPaths : Place(q) <= Place(p) => disk[q] # NoFile}
  BY DEF Added
<1> HIDE DEF added, misc
<1>6. ASSUME "code" \notin outdated, ~NamesCollide
      PROVE  /\ code.ports = SignalsOf(ecic, disk)
             /\ code.name \in DOMAIN misc /\ misc[code.name] = ecic
             /\ \A s \in WithIcd(ecic) :
                  /\ s.icd[2] \in DOMAIN misc => misc[s.icd[2]] = disk[s.icd]
                  /\ outdated = {} => (s.icd[2] \in DOMAIN misc <=> s.icd \in Listed(ecic, disk))
  <2>1. ecic # NoFile /\ code.ports = SignalsOf(ecic, disk)
    BY <1>1, <1>6 DEF BuildIsRight
  <2>2. XmlPaths = {configured} \cup workspace.icds
    BY <1>3, <2>1 DEF XmlPaths
  <2>3. /\ \A p, q \in XmlPaths : p # q => p[2] # q[2]
        /\ \A s \in WithIcd(ecic) : \A p \in XmlPaths : p # s.icd => p[2] # s.icd[2]
    BY <1>6 DEF NamesCollide
  <2>4. configured \in added
    <3>1. \A q \in XmlPaths : Place(q) <= Place(configured) => q = configured
      <4>1. Place(configured) = 0
        BY <1>3 DEF Place
      <4>2. \A q \in XmlPaths : Place(q) \in Nat /\ (q # configured => Place(q) # 0)
        <5>1. \A q \in XmlPaths : q \in Paths
          BY <1>4
        <5>2. Len(AllPaths) \in Nat
          BY LenProperties, DeploymentAssumption
        <5>3. \A q \in XmlPaths : Place(q) \in 0 .. Len(AllPaths) /\ (q # configured => Place(q) # 0)
          BY <1>3, <5>1, PathsAre
        <5> QED
          BY <5>2, <5>3
      <4> QED
        BY <4>1, <4>2
    <3> QED
      BY <1>5, <2>1, <2>2, <3>1
  <2>5. misc[configured[2]] = ecic /\ configured[2] \in DOMAIN misc
    BY <1>4, <2>3, <2>4
  <2>6. ASSUME NEW s \in WithIcd(ecic)
        PROVE  s.icd[2] \in DOMAIN misc <=> s.icd \in added
    BY <1>4, <2>3
  <2>7. ASSUME NEW s \in WithIcd(ecic), s.icd[2] \in DOMAIN misc
        PROVE  misc[s.icd[2]] = disk[s.icd]
    BY <1>4, <2>3, <2>6, <2>7
  <2>8. ASSUME NEW s \in WithIcd(ecic), outdated = {}
        PROVE  s.icd[2] \in DOMAIN misc <=> s.icd \in Listed(ecic, disk)
    <3>1. workspace.icds = Listed(ecic, disk)
      <4>1. workspace.ecic # NoPath
        BY <1>3, PathsAre, DeploymentAssumption
      <4> QED
        BY <1>1, <1>3, <2>8, <4>1 DEF WorkspaceIsRight
    <3>2. \A p \in workspace.icds : disk[p] # NoFile
      BY <3>1 DEF Listed
    <3>3. added = XmlPaths
      BY <1>5, <2>1, <2>2, <3>2
    <3>4. s.icd # configured
      <4>1. ecic \in Contents \cup {NoFile}
        BY <1>1, <1>3, DeploymentAssumption DEF TypeOK
      <4> QED
        BY <1>3, <4>1, IcdsAre
    <3> QED
      BY <2>2, <2>6, <3>1, <3>3, <3>4
  <2> QED
    BY <1>3, <2>1, <2>5, <2>7, <2>8
<1>7. PackedIsRight'
  <2>1. /\ app'.outdated = outdated /\ app'.collide = NamesCollide /\ app'.host = disk
        /\ app'.ecic = configured /\ app'.ports = code.ports /\ app'.name = code.name
        /\ app'.misc = misc
    BY <1>2
  <2> QED
    BY <1>6, <2>1 DEF PackedIsRight
<1>8. /\ app'.host = disk /\ app'.ecic = configured /\ app'.name = configured[2]
  BY <1>2, <1>3
<1> QED
  BY <1>1, <1>3, <1>7, <1>8 DEF ApplicationIsRight, TypeOK

-----------------------------------------------------------------------------
(***************************************************************************)
(* The invariant.                                                          *)
(***************************************************************************)

(* Saving keeps the workspace right, and makes it that of the file. *)
LEMMA SaveIsRight ==
  ASSUME TypeOK, WorkspaceIsRight, NEW e \in EcicPaths, Save(e), disk' = disk,
         outdated' \subseteq outdated, "workspace" \notin outdated' => "workspace" \in UpToDateAfterSave(e)
                                                                    \/ "workspace" \notin outdated
  PROVE  /\ WorkspaceIsRight' /\ workspace'.ecic = e
         /\ workspace' \in [ecic : EcicPaths \cup {NoPath}, icds : SUBSET Paths]
<1>1. CASE workspace.ecic = e
  <2>1. workspace' = workspace /\ UpToDateAfterSave(e) = {}
    BY <1>1 DEF Save, UpToDateAfterSave
  <2>2. WorkspaceIsRight'
    BY <2>1 DEF WorkspaceIsRight
  <2> QED
    BY <1>1, <2>1, <2>2 DEF TypeOK
<1>2. CASE workspace.ecic # e
  <2>1. workspace' = [ecic |-> e, icds |-> Listed(disk[e], disk)]
    BY <1>2 DEF Save
  <2>2. Listed(disk[e], disk) \subseteq Paths
    <3>1. disk[e] \in Contents \cup {NoFile}
      BY DeploymentAssumption DEF TypeOK
    <3>2. \A s \in WithIcd(disk[e]) : s.icd \in Paths
      BY <3>1, IcdsAre
    <3> QED
      BY <3>2 DEF Listed
  <2>3. WorkspaceIsRight'
    BY <2>1 DEF WorkspaceIsRight
  <2> QED
    BY <2>1, <2>2, <2>3
<1> QED
  BY <1>1, <1>2

(* What depends on the application alone. *)
LEMMA SameApplication ==
  ASSUME app' = app
  PROVE  /\ ApplicationIsRight' <=> ApplicationIsRight
         /\ Exits' <=> Exits
         /\ Ecic' = Ecic /\ OnTarget' = OnTarget
  BY DEF ApplicationIsRight, PackedIsRight, Exits, Ecic, OnTarget

(* Every step keeps the invariant. *)
LEMMA DeploymentStep == DeploymentInv /\ [Next]_vars => DeploymentInv'
<1> SUFFICES ASSUME DeploymentInv, [Next]_vars
             PROVE  DeploymentInv'
  OBVIOUS
<1>1. TypeOK /\ WorkspaceIsRight /\ BuildIsRight /\ ApplicationIsRight /\ TargetIsRight
  BY DEF DeploymentInv
<1> DEFINE Files == disk \in [Paths -> Contents \cup {NoFile}] /\ \A p \in Paths : MayHold(p, disk[p])
           Build == edits \in 0 .. MaxEdits /\ configured \in EcicPaths /\ building \in BOOLEAN
           Work == workspace \in [ecic : EcicPaths \cup {NoPath}, icds : SUBSET Paths]
           Packed == app.made => \A n \in DOMAIN app.misc : app.misc[n] \in Contents
           Program == target.state \in {"off", "exited", "running"}
           Old == outdated \subseteq {"workspace", "code"}
<1>2. TypeOK <=> Files /\ Build /\ Work /\ Packed /\ Program /\ Old
  BY DEF TypeOK
<1>3. TypeOK' <=> Files' /\ Build' /\ Work' /\ Packed' /\ Program' /\ Old'
  BY DEF TypeOK
<1>4. Files /\ Build /\ Work /\ Packed /\ Program /\ Old
  BY <1>1, <1>2
<1>5. MaxEdits \in Nat
  BY DeploymentAssumption
<1>6. ASSUME target' = target, app' = app
      PROVE  Packed' /\ Program' /\ ApplicationIsRight' /\ TargetIsRight'
  BY <1>1, <1>4, <1>6, SameApplication DEF TargetIsRight
<1>7. CASE EditFile
  <2>1. PICK p \in Paths, c \in Contents \cup {NoFile} :
          MayHold(p, c) /\ disk' = [disk EXCEPT ![p] = c]
    BY <1>7 DEF EditFile
  <2>2. /\ edits < MaxEdits /\ edits' = edits + 1 /\ outdated' = {"workspace", "code"}
        /\ configured' = configured /\ workspace' = workspace /\ code' = code
        /\ building' = building /\ app' = app /\ target' = target
    BY <1>7 DEF EditFile
  <2>3. Files'
    BY <1>4, <2>1
  <2>4. Build' /\ Work' /\ Old'
    BY <1>4, <1>5, <2>2
  <2>5. WorkspaceIsRight'
    BY <2>2 DEF WorkspaceIsRight
  <2>6. BuildIsRight'
    BY <1>1, <2>2 DEF BuildIsRight
  <2> HIDE DEF Files, Build, Work, Packed, Program, Old
  <2> QED
    BY <1>3, <1>6, <2>2, <2>3, <2>4, <2>5, <2>6 DEF DeploymentInv
<1>8. CASE SetFileName
  <2>1. PICK e \in EcicPaths : configured' = e /\ Save(e) /\ outdated' = outdated \ UpToDateAfterSave(e)
    BY <1>8 DEF SetFileName
  <2>2. /\ ~building /\ disk' = disk /\ edits' = edits /\ code' = code
        /\ building' = building /\ app' = app /\ target' = target
    BY <1>8 DEF SetFileName
  <2>3. WorkspaceIsRight' /\ Work'
    BY <1>1, <2>1, <2>2, SaveIsRight
  <2>4. Files' /\ Build' /\ Old'
    BY <1>4, <2>1, <2>2
  <2>5. BuildIsRight'
    BY <2>2 DEF BuildIsRight
  <2> HIDE DEF Files, Build, Work, Packed, Program, Old
  <2> QED
    BY <1>3, <1>6, <2>2, <2>3, <2>4, <2>5 DEF DeploymentInv
<1>9. CASE Generate
  <2>1. /\ disk[configured] # NoFile /\ Save(configured) /\ building' = TRUE
        /\ code' = [name |-> configured[2], ports |-> SignalsOf(disk[configured], disk)]
        /\ outdated' = outdated \ ({"code"} \cup UpToDateAfterSave(configured))
        /\ disk' = disk /\ edits' = edits /\ configured' = configured /\ app' = app /\ target' = target
    BY <1>9 DEF Generate
  <2>2. WorkspaceIsRight' /\ Work' /\ workspace'.ecic = configured
    BY <1>1, <1>4, <2>1, SaveIsRight
  <2>3. Files' /\ Build' /\ Old'
    BY <1>4, <2>1
  <2>4. BuildIsRight'
    BY <2>1, <2>2 DEF BuildIsRight
  <2> HIDE DEF Files, Build, Work, Packed, Program, Old
  <2> QED
    BY <1>3, <1>6, <2>1, <2>2, <2>3, <2>4 DEF DeploymentInv
<1>10. CASE Pack
  <2>1. /\ building /\ target = Off /\ building' = FALSE
        /\ disk' = disk /\ edits' = edits /\ configured' = configured /\ workspace' = workspace
        /\ code' = code /\ target' = target /\ outdated' = outdated
    BY <1>10 DEF Pack
  <2>2. app'.made = TRUE /\ app'.misc = Misc(Added(XmlPaths))
    BY <1>10 DEF Pack
  <2>3. Packed'
    BY <1>1, <2>1, <2>2, MiscIs
  <2>4. ApplicationIsRight'
    BY <1>10, PackIsRight
  <2>5. Files' /\ Build' /\ Work' /\ Program' /\ Old'
    BY <1>4, <2>1
  <2>6. WorkspaceIsRight' /\ BuildIsRight'
    BY <1>1, <2>1 DEF WorkspaceIsRight, BuildIsRight
  <2>7. TargetIsRight'
    BY <2>1 DEF TargetIsRight, Off
  <2> HIDE DEF Files, Build, Work, Packed, Program, Old
  <2> QED
    BY <1>3, <2>3, <2>4, <2>5, <2>6, <2>7 DEF DeploymentInv
<1>11. ASSUME app' = app, disk' = disk, edits' = edits, configured' = configured,
              workspace' = workspace, code' = code, building' = building, outdated' = outdated
       PROVE  /\ Files' /\ Build' /\ Work' /\ Packed' /\ Old'
              /\ WorkspaceIsRight' /\ BuildIsRight' /\ ApplicationIsRight'
  BY <1>1, <1>4, <1>11, SameApplication DEF WorkspaceIsRight, BuildIsRight
<1>12. CASE StartTarget
  <2>1. /\ app.made /\ app' = app /\ disk' = disk /\ edits' = edits /\ configured' = configured
        /\ workspace' = workspace /\ code' = code /\ building' = building /\ outdated' = outdated
    BY <1>12 DEF StartTarget
  <2>2. TargetIsRight' /\ Program'
    <3>1. CASE Exits
      <4>1. target' = [state |-> "exited", signals |-> <<>>]
        BY <1>12, <3>1 DEF StartTarget
      <4> QED
        BY <2>1, <3>1, <4>1, SameApplication DEF TargetIsRight, Off
    <3>2. CASE ~Exits
      <4>1. target' = [state |-> "running", signals |-> SignalsOf(Ecic, OnTarget)]
        BY <1>12, <3>2 DEF StartTarget
      <4> QED
        BY <2>1, <3>2, <4>1, SameApplication DEF TargetIsRight, Off
    <3> QED
      BY <3>1, <3>2
  <2> HIDE DEF Files, Build, Work, Packed, Program, Old
  <2> QED
    BY <1>3, <1>11, <2>1, <2>2 DEF DeploymentInv
<1>13. CASE StopTarget
  <2>1. /\ target' = Off /\ app' = app /\ disk' = disk /\ edits' = edits /\ configured' = configured
        /\ workspace' = workspace /\ code' = code /\ building' = building /\ outdated' = outdated
    BY <1>13 DEF StopTarget
  <2>2. TargetIsRight' /\ Program'
    BY <2>1 DEF TargetIsRight, Off
  <2> HIDE DEF Files, Build, Work, Packed, Program, Old
  <2> QED
    BY <1>3, <1>11, <2>1, <2>2 DEF DeploymentInv
<1>14. CASE UNCHANGED vars
  <2>1. /\ target' = target /\ app' = app /\ disk' = disk /\ edits' = edits /\ configured' = configured
        /\ workspace' = workspace /\ code' = code /\ building' = building /\ outdated' = outdated
    BY <1>14 DEF vars
  <2> HIDE DEF Files, Build, Work, Packed, Program, Old
  <2> QED
    BY <1>3, <1>6, <1>11, <2>1 DEF DeploymentInv
<1> QED
  BY <1>7, <1>8, <1>9, <1>10, <1>12, <1>13, <1>14 DEF Next

(* At the start nothing is made. *)
LEMMA InitInv == Init => DeploymentInv
<1> SUFFICES ASSUME Init
             PROVE  DeploymentInv
  OBVIOUS
<1> USE DEF Init
<1>1. TypeOK
  <2>1. disk \in [Paths -> Contents \cup {NoFile}] /\ \A p \in Paths : MayHold(p, disk[p])
    OBVIOUS
  <2>2. edits \in 0 .. MaxEdits /\ configured \in EcicPaths /\ building \in BOOLEAN
    <3>1. MaxEdits \in Nat
      BY DeploymentAssumption
    <3>2. 0 \in 0 .. MaxEdits
      BY <3>1
    <3>3. edits \in 0 .. MaxEdits
      BY <3>2
    <3>4. configured \in EcicPaths /\ building \in BOOLEAN
      OBVIOUS
    <3> QED
      BY <3>3, <3>4
  <2>3. workspace \in [ecic : EcicPaths \cup {NoPath}, icds : SUBSET Paths]
    OBVIOUS
  <2>4. ~app.made /\ target.state = "off" /\ outdated = {}
    BY DEF Off
  <2> QED
    BY <2>1, <2>2, <2>3, <2>4 DEF TypeOK
<1>2. WorkspaceIsRight /\ BuildIsRight /\ ApplicationIsRight
  BY DEF WorkspaceIsRight, BuildIsRight, ApplicationIsRight
<1>3. TargetIsRight
  BY DEF TargetIsRight, Off
<1> QED
  BY <1>1, <1>2, <1>3 DEF DeploymentInv

(* The invariant, for all files and any number of changes. *)
THEOREM DeploymentInvariant == Spec => []DeploymentInv
<1> QED
  BY InitInv, DeploymentStep, PTL DEF Spec

(* The domains of the variables; above all, an application only has files that existed
   when it was packed (addXmlFile stops at the first that does not). *)
THEOREM TypeCorrect == Spec => []TypeOK
<1>1. DeploymentInv => TypeOK
  BY DEF DeploymentInv
<1> QED
  BY <1>1, DeploymentInvariant, PTL

(* What the program finds on the target if the code was not outdated and no two files
   have one name: its ECIC file, and each of the ICDs in the folder of this file. *)
LEMMA FoundOnTarget ==
  ASSUME DeploymentInv, target # Off, "code" \notin app.outdated, ~app.collide
  PROVE  LET ecic == app.host[app.ecic]
         IN  /\ Ecic = ecic /\ Ecic # NoFile /\ app.ports = SignalsOf(ecic, app.host)
             /\ \A s \in WithIcd(ecic) :
                  /\ OnTarget[s.icd] # NoFile => /\ OnTarget[s.icd] = app.host[s.icd]
                                                 /\ s.icd[1] = "" /\ s.icd[2] \in DOMAIN app.misc
                  /\ s.icd[1] = "" /\ s.icd[2] \in DOMAIN app.misc => OnTarget[s.icd] # NoFile
                  /\ app.outdated = {} =>
                       (s.icd[2] \in DOMAIN app.misc <=> s.icd \in Listed(ecic, app.host))
<1> DEFINE ecic == app.host[app.ecic]
<1>1. app.made /\ ApplicationIsRight
  BY DEF DeploymentInv, TargetIsRight
<1>2. /\ app.host \in [Paths -> Contents \cup {NoFile}]
      /\ app.ecic \in EcicPaths /\ app.name = app.ecic[2]
      /\ PackedIsRight
  BY <1>1 DEF ApplicationIsRight
<1>3. /\ app.ports = SignalsOf(ecic, app.host)
      /\ app.name \in DOMAIN app.misc /\ app.misc[app.name] = ecic
      /\ \A s \in WithIcd(ecic) :
           /\ s.icd[2] \in DOMAIN app.misc => app.misc[s.icd[2]] = app.host[s.icd]
           /\ app.outdated = {} => (s.icd[2] \in DOMAIN app.misc <=> s.icd \in Listed(ecic, app.host))
  BY <1>2 DEF PackedIsRight
<1>4. \A n \in DOMAIN app.misc : app.misc[n] \in Contents
  BY <1>1 DEF DeploymentInv, TypeOK
<1>5. NoFile \notin Contents /\ app.ecic \in Paths /\ app.ecic[1] = ""
  BY <1>2, DeploymentAssumption
<1>6. <<"", app.name>> = app.ecic
  BY <1>2, <1>5, PathsAre
<1>7. ecic \in Contents \cup {NoFile} /\ \A s \in WithIcd(ecic) : s.icd \in Paths
  <2>1. ecic \in Contents \cup {NoFile}
    BY <1>2, <1>5
  <2> QED
    BY <2>1, IcdsAre
<1>8. \A p \in Paths : OnTarget[p] = IF p[1] = "" /\ p[2] \in DOMAIN app.misc THEN app.misc[p[2]]
                                     ELSE NoFile
  BY DEF OnTarget
<1>9. Ecic = OnTarget[app.ecic]
  BY <1>6 DEF Ecic
<1> HIDE DEF ecic
<1>10. Ecic = ecic /\ Ecic # NoFile
  BY <1>2, <1>3, <1>4, <1>5, <1>8, <1>9
<1>11. \A s \in WithIcd(ecic) :
         /\ OnTarget[s.icd] # NoFile => /\ OnTarget[s.icd] = app.host[s.icd]
                                        /\ s.icd[1] = "" /\ s.icd[2] \in DOMAIN app.misc
         /\ s.icd[1] = "" /\ s.icd[2] \in DOMAIN app.misc => OnTarget[s.icd] # NoFile
  BY <1>3, <1>4, <1>5, <1>7, <1>8
<1> QED
  BY <1>3, <1>10, <1>11 DEF ecic

(* A program that nobody has changed a file for exits at its start, in fileexists, exactly
   if an ICD is in another folder than the ECIC file or is not listed by the gateway. *)
THEOREM ExitIsExact == Spec => []ExitsExactly
<1>1. DeploymentInv => ExitsExactly
  <2> SUFFICES ASSUME DeploymentInv, target.state # "off", app.outdated = {}, ~app.collide
               PROVE  target.state = "exited" <=>
                        \E s \in WithIcd(app.host[app.ecic]) :
                          s.icd[1] # "" \/ s.icd \notin Listed(app.host[app.ecic], app.host)
    BY DEF ExitsExactly
  <2> DEFINE ecic == app.host[app.ecic]
  <2>1. target # Off /\ (target.state = "exited" <=> Exits)
    BY DEF DeploymentInv, TypeOK, TargetIsRight
  <2>2. /\ Ecic = ecic /\ Ecic # NoFile
        /\ \A s \in WithIcd(ecic) :
             /\ OnTarget[s.icd] # NoFile <=> s.icd[1] = "" /\ s.icd[2] \in DOMAIN app.misc
             /\ s.icd[2] \in DOMAIN app.misc <=> s.icd \in Listed(ecic, app.host)
    BY <2>1, FoundOnTarget
  <2>3. Exits <=> \E s \in WithIcd(ecic) : OnTarget[s.icd] = NoFile
    BY <2>2 DEF Exits
  <2> QED
    BY <2>1, <2>2, <2>3
<1> QED
  BY <1>1, DeploymentInvariant, PTL

(* If it runs, each port carries the signal that the code was generated for, unless a
   file was changed while the build was running or two files have one name. *)
THEOREM PortsStayRight == Spec => []RunningPortsAreRight
<1>1. DeploymentInv => RunningPortsAreRight
  <2> SUFFICES ASSUME DeploymentInv, target.state = "running",
                      "code" \notin app.outdated, ~app.collide
               PROVE  target.signals = app.ports
    BY DEF RunningPortsAreRight
  <2> DEFINE ecic == app.host[app.ecic]
  <2>1. target # Off /\ ~Exits /\ target.signals = SignalsOf(Ecic, OnTarget)
    BY DEF DeploymentInv, TargetIsRight
  <2>2. /\ Ecic = ecic /\ app.ports = SignalsOf(ecic, app.host)
        /\ \A s \in WithIcd(ecic) : OnTarget[s.icd] # NoFile => OnTarget[s.icd] = app.host[s.icd]
    BY <2>1, FoundOnTarget
  <2>3. \A s \in WithIcd(ecic) : OnTarget[s.icd] = app.host[s.icd]
    BY <2>1, <2>2 DEF Exits
  <2> HIDE DEF ecic
  <2>4. SignalsOf(ecic, OnTarget) = SignalsOf(ecic, app.host)
    BY <2>3, SameSignals
  <2> QED
    BY <2>1, <2>2, <2>4
<1> QED
  BY <1>1, DeploymentInvariant, PTL
=============================================================================
