------------------------------- MODULE Settings -------------------------------
(***************************************************************************)
(* ed247.Configuration: handle objects on one settings file, and the       *)
(* dialog ConfigurationUI, which holds such an object while it is open.    *)
(*                                                                         *)
(* The file is a sequence of groups with a name: Common, and one for each  *)
(* platform.  Objects read it on reload and write it on save, on reset and *)
(* when they are deleted with changes.  The folders are the fields of a    *)
(* platform; Version stands for all the fields of the Common group.        *)
(***************************************************************************)
EXTENDS Integers, Sequences, FiniteSets, FiniteSetsExt

CONSTANTS
  Objects,
  Platforms,
  Host,       (* the platform of this computer                              *)
  Fields,     (* ED247, LibXML2, QNXLib, MinGW                              *)
  Texts,      (* the texts that may be set: with or without such a folder   *)
  Folders,    (* those that are existing folders                            *)
  Contents,   (* files that somebody may write by hand                      *)
  MaxChanges  (* bound: values set, platforms set, resets, edits by hand    *)

(* No platform, no folder, no version; the name of a group may be empty, too. *)
None == ""

Names == Platforms \cup {"Common", None}

(* A sequence of groups, each with a name and some values. *)
IsFile(f) ==
  /\ f \in Seq({f[i] : i \in DOMAIN f})
  /\ \A i \in DOMAIN f : /\ f[i] = [name |-> f[i].name, values |-> f[i].values]
                         /\ f[i].name \in Names
                         /\ DOMAIN f[i].values \subseteq Fields \cup {"Version"}

ASSUME SettingsAssumption ==
  /\ IsFiniteSet(Platforms) /\ Host \in Platforms
  /\ None \notin Platforms /\ "Common" \notin Platforms
  /\ Folders \subseteq Texts /\ None \in Texts \ Folders /\ "nobody" \notin Objects
  /\ \A c \in Contents : IsFile(c)
  /\ MaxChanges \in Nat

VARIABLES
  file,
  writable,   (* fopen succeeds                                             *)
  changes,    (* history: number of these changes                           *)
  writer,     (* history: the object that wrote the file last by save       *)
  object,     (* the properties of each object, Gone without one            *)
  unsaved,    (* history: the fields set in an object since it was loaded   *)
  kept,       (* history: the fields that its last reload did not replace   *)
  stale       (* history: the objects that do not know the present file     *)

vars == <<file, writable, changes, writer, object, unsaved, kept, stale>>

(* There is no file, which reads like one without a group. *)
Missing == <<>>

(* There is no object. *)
Gone == [platform |-> None]

Alive(o) == object[o] # Gone

-----------------------------------------------------------------------------
Change == changes < MaxChanges /\ changes' = changes + 1

NamesOf(f) == [i \in DOMAIN f |-> f[i].name]
Has(f, name) == \E i \in DOMAIN f : f[i].name = name

(* The first group of this name. *)
Group(f, name) ==
  f[CHOOSE i \in DOMAIN f : f[i].name = name /\ \A j \in 1 .. i - 1 : f[j].name # name]

(* reload is an error without a Common group; of several it takes the first. *)
Loads(f) == Has(f, "Common")

(* The group of the platform; if there is none, the first one. *)
Source(f, platform) == IF Has(f, platform) THEN Group(f, platform) ELSE f[1]

(* Mistake: no test that the folder exists. *)
FoundAnywhere(f, platform) == DOMAIN Source(f, platform).values \cap Fields

Found(f, platform) ==
  {a \in DOMAIN Source(f, platform).values \cap Fields : Source(f, platform).values[a] \in Folders}

(* Mistake: one of the fields is not read. *)
LoadedButForOne(f, obj) ==
  LET read == Found(f, obj.platform) \ {CHOOSE b \in Fields : TRUE}
  IN  [obj EXCEPT
         !.values = [a \in Fields |-> IF a \in read THEN Source(f, obj.platform).values[a] ELSE @[a]],
         !.dirty  = FALSE]

(* reload: folders that exist replace those of the object, others do not. *)
Loaded(f, obj) ==
  [obj EXCEPT
     !.values  = [a \in Fields |-> IF a \in Found(f, obj.platform)
                                   THEN Source(f, obj.platform).values[a] ELSE @[a]],
     !.version = IF "Version" \in DOMAIN Group(f, "Common").values
                 THEN Group(f, "Common").values["Version"] ELSE @,
     !.dirty   = FALSE]

-----------------------------------------------------------------------------
(* The elements of a set of places, in their order. *)
InOrder(S) ==
  [k \in 1 .. Cardinality(S) |-> CHOOSE x \in S : Cardinality({y \in S : y < x}) = k - 1]

(* save, up to the call of saveFile: the places of the groups that are kept are those
   in the list of names, which keeps its duplicates and empty names. *)
KeptPlaces(f) ==
  InOrder({i \in DOMAIN f : \A j \in 1 .. i - 1 : f[j].name # f[i].name})

Pruned(f) ==
  LET named == InOrder({i \in DOMAIN f : f[i].name # None})
  IN  [k \in DOMAIN named |-> f[named[k]]]

Places(f, platform) == {i \in DOMAIN f : f[i].name = platform}

SaveFails(f, platform) ==
  \/ \E i \in DOMAIN KeptPlaces(f) : KeptPlaces(f)[i] > Len(Pruned(f))
  \/ Cardinality(Places(f, platform)) > 1

(* Mistake: whether the platform has a group is taken for its place. *)
PlaceOfMask(f, platform) == IF Places(f, platform) = {} THEN Len(KeptPlaces(f)) + 1 ELSE 1

(* Where the values of the platform go: its place in the list of names. *)
Place(f, platform) ==
  IF Places(f, platform) = {} THEN Len(KeptPlaces(f)) + 1
  ELSE CHOOSE i \in Places(f, platform) : TRUE

NamesToWrite(f, platform) ==
  IF Places(f, platform) = {} THEN Append(NamesOf(f), platform) ELSE NamesOf(f)

(* The names for which there are no values: saveFile stops with an error at the
   first of them, behind its header. *)
Unfilled(f, platform) ==
  {i \in DOMAIN NamesToWrite(f, platform) : i # Place(f, platform) /\ i > Len(KeptPlaces(f))}

Written(f, obj) ==
  LET unfilled == Unfilled(f, obj.platform)
      values(i) == IF i \in unfilled THEN <<>>
                   ELSE IF i = Place(f, obj.platform) THEN obj.values
                   ELSE Pruned(f)[KeptPlaces(f)[i]].values
      last == Min(unfilled \cup {Len(NamesToWrite(f, obj.platform))})
  IN  [i \in 1 .. last |-> [name |-> NamesToWrite(f, obj.platform)[i], values |-> values(i)]]

Opens(f, platform) == writable /\ ~SaveFails(f, platform)

(* What save makes of the file. *)
AfterSave(f, obj) == IF Opens(f, obj.platform) THEN Written(f, obj) ELSE f

(* save ends with an error, which keeps the dialog open. *)
Errs(f, platform) == SaveFails(f, platform) \/ (writable /\ Unfilled(f, platform) # {})

(* Others do not know the new file. *)
WriteFile(o, new) ==
  /\ file' = new
  /\ writer' = IF Opens(file, object[o].platform) THEN o ELSE writer
  /\ stale' = IF new = file THEN stale ELSE stale \cup (Objects \ {o})

-----------------------------------------------------------------------------
Fresh(platform) ==
  [platform |-> platform, values |-> [a \in Fields |-> None], version |-> None, dirty |-> FALSE]

(* The constructor alone. *)
Construct(o) ==
  /\ ~Alive(o)
  /\ object' = [object EXCEPT ![o] = Fresh(Host)]
  /\ unsaved' = [unsaved EXCEPT ![o] = {}]
  /\ kept' = [kept EXCEPT ![o] = Fields]
  /\ stale' = stale \cup {o}
  /\ UNCHANGED <<file, writable, changes, writer>>

(* What a reload of an object in state obj does. *)
ReloadOf(o, obj) ==
  /\ object' = [object EXCEPT ![o] = Loaded(file, obj)]
  /\ unsaved' = [unsaved EXCEPT ![o] = {}]
  /\ kept' = [kept EXCEPT ![o] = Fields \ Found(file, obj.platform)]
  /\ stale' = stale \ {o}
  /\ UNCHANGED <<file, writable, writer>>

(* default, forFolder, and ConfigurationUI.open: without a file to load there is no
   object, even if default was given the values. *)
Open(o) ==
  /\ ~Alive(o) /\ Loads(file)
  /\ UNCHANGED changes
  /\ \E platform \in Platforms : ReloadOf(o, Fresh(platform))

Reload(o) == Alive(o) /\ Loads(file) /\ ReloadOf(o, object[o]) /\ UNCHANGED changes

(* set.Platform reloads; if that fails, the platform has changed nevertheless. *)
SetPlatform(o) ==
  /\ Alive(o) /\ Change
  /\ \E platform \in Platforms :
       LET obj == [object[o] EXCEPT !.platform = platform]
       IN  IF Loads(file) THEN ReloadOf(o, obj)
           ELSE /\ object' = [object EXCEPT ![o] = obj]
                /\ stale' = stale \cup {o}
                /\ UNCHANGED <<file, writable, writer, unsaved, kept>>

(* Mistake: one of the set methods does not mark the object. *)
DirtyButForOne(obj, a, value) == obj.dirty \/ a # CHOOSE b \in Fields : TRUE

(* isdirty_ after an assignment. *)
DirtyAfter(obj, a, value) == TRUE

(* set.ED247, ..., and the edit fields and buttons of the dialog: any text is stored,
   whether there is such a folder or not. *)
SetField(o) ==
  /\ Alive(o) /\ Change
  /\ \E a \in Fields, value \in Texts :
       /\ object' = [object EXCEPT ![o].values[a] = value,
                                   ![o].dirty = DirtyAfter(object[o], a, value)]
       /\ unsaved' = [unsaved EXCEPT ![o] = @ \cup {a}]
  /\ UNCHANGED <<file, writable, writer, kept, stale>>

(* save; the object stays dirty. *)
Save(o) ==
  /\ Alive(o)
  /\ WriteFile(o, AfterSave(file, object[o]))
  /\ UNCHANGED <<writable, changes, object, unsaved, kept>>

Forget(o) ==
  /\ object' = [object EXCEPT ![o] = Gone]
  /\ unsaved' = [unsaved EXCEPT ![o] = {}]
  /\ kept' = [kept EXCEPT ![o] = Fields]
  /\ UNCHANGED <<writable, changes>>

(* The destructor; also the Cancel button of the dialog and the closing of its
   window, with which the object goes. *)
Delete(o) ==
  /\ Alive(o)
  /\ IF object[o].dirty THEN WriteFile(o, AfterSave(file, object[o]))
     ELSE UNCHANGED <<file, writer, stale>>
  /\ Forget(o)

(* The OK button: save, and the destructor; with an error it is the save alone. *)
OK(o) ==
  /\ Alive(o) /\ ~Errs(file, object[o].platform)
  /\ LET saved == AfterSave(file, object[o])
     IN  WriteFile(o, IF object[o].dirty THEN AfterSave(saved, object[o]) ELSE saved)
  /\ Forget(o)

(* reset: the file has a Common group only, from the object. *)
Reset(o) ==
  /\ Alive(o) /\ writable /\ Change
  /\ file' = <<[name |-> "Common", values |-> [v \in {"Version"} |-> object[o].version]]>>
  /\ stale' = stale \cup Objects
  /\ writer' = "nobody"
  /\ UNCHANGED <<writable, object, unsaved, kept>>

(* Somebody changes the file by hand, or its access rights. *)
EditFile ==
  /\ Change
  /\ file' \in Contents \cup {Missing}
  /\ writable' \in BOOLEAN
  /\ stale' = stale \cup Objects
  /\ writer' = "nobody"
  /\ UNCHANGED <<object, unsaved, kept>>

Init ==
  /\ file \in Contents \cup {Missing}
  /\ writable = TRUE
  /\ changes = 0
  /\ writer = "nobody"
  /\ object = [o \in Objects |-> Gone]
  /\ unsaved = [o \in Objects |-> {}]
  /\ kept = [o \in Objects |-> Fields]
  /\ stale = {}

Next ==
  \/ \E o \in Objects :
       \/ Construct(o) \/ Open(o) \/ Reload(o) \/ SetPlatform(o) \/ SetField(o)
       \/ Save(o) \/ Delete(o) \/ OK(o) \/ Reset(o)
  \/ EditFile

Spec == Init /\ [][Next]_vars

-----------------------------------------------------------------------------
Distinct(f) == \A i, j \in DOMAIN f : f[i].name = f[j].name => i = j
WellFormed(f) == Distinct(f) /\ ~Has(f, None)

(* The domains of the variables; above all, what save writes reads as a file again, and
   a text of an object that is no folder was set there: reload takes none from the file,
   and keeps those that it has nothing for.  A well-formed file has at most the groups of
   the platforms, Common and one without a name. *)
TypeOK ==
  /\ IsFile(file)
  /\ Distinct(file) => Len(file) <= Cardinality(Platforms) + 2
  /\ writer \in Objects \cup {"nobody"} /\ stale \subseteq Objects
  /\ \A o \in Objects : Alive(o) =>
       /\ object[o].platform \in Platforms
       /\ object[o].values \in [Fields -> Texts]
       /\ \A a \in Fields \ (unsaved[o] \cup kept[o]) : object[o].values[a] \in Folders
       /\ object[o].dirty \in BOOLEAN
  /\ unsaved \in [Objects -> SUBSET Fields] /\ kept \in [Objects -> SUBSET Fields]
  /\ changes \in 0 .. MaxChanges /\ writable \in BOOLEAN

(* A step in which o writes another file: save, OK, or a destructor. *)
Saves(o) == file' # file /\ writer' = o

Goes(o) == Alive(o) /\ ~Alive(o)'

(* Saving an object, also when it is deleted, leaves the groups of all other
   platforms and Common as they are, whatever the other objects have done to the file. *)
OtherGroupsKept ==
  [][\A o \in Objects : Saves(o) /\ WellFormed(file) =>
       \A i \in DOMAIN file :
         file[i].name # object[o].platform =>
           Has(file', file[i].name) /\ Group(file', file[i].name) = file[i]]_vars

(* No update is lost but for three reasons: a folder in the file that changes when an
   object is saved was set in this object, or the object did not take it from the
   file when it was loaded (no such folder), or it does not know the present file. *)
UpdatesKept ==
  [][\A o \in Objects : Saves(o) /\ WellFormed(file) /\ Has(file, object[o].platform) =>
       LET old == Group(file, object[o].platform).values
           new == Group(file', object[o].platform).values
       IN  \A a \in Fields \cap DOMAIN old :
             old[a] # new[a] => a \in unsaved[o] \cup kept[o] \/ o \in stale]_vars

(* What was set in an object is in the file when it is gone: saved or not, after OK
   and after Cancel.  Only loading it again, or another platform, drops it. *)
SetValuesReachFile ==
  [][\A o \in Objects : Goes(o) /\ writable /\ WellFormed(file) =>
       \A a \in unsaved[o] :
         /\ Has(file', object[o].platform)
         /\ Group(file', object[o].platform).values[a] = object[o].values[a]]_vars
=============================================================================
