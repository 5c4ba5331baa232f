------------------------------ MODULE Deployment ------------------------------
(***************************************************************************)
(* From the model to the real-time target: code is generated for the       *)
(* signals that the connector found on the host (RTW), the build hook      *)
(* addXmlFile packs the configuration files into the application, and the  *)
(* generated code (ConfigureStart) reads these files again on the target.  *)
(*                                                                         *)
(* An ECIC file names its streams; those with an ICD name the file that    *)
(* has their messages, relative to the folder of the ECIC file.  A path is *)
(* a folder and a name, "" being the folder of the ECIC files.  All names  *)
(* end in .xml, and all the signals are received.                          *)
(***************************************************************************)
EXTENDS Naturals, Sequences, SequencesExt

CONSTANTS
  AllPaths,      (* the paths, in the order in which unique sorts them      *)
  EcicPaths,     (* those of ECIC files                                     *)
  EcicContents,  (* what an ECIC file may contain                           *)
  IcdContents,   (* what an ICD file may contain                            *)
  NoFile,
  MaxEdits       (* bound: changes of files on the host                     *)

Paths == {AllPaths[i] : i \in DOMAIN AllPaths}
NoPath == <<"", "">>
Contents == EcicContents \cup IcdContents

ASSUME DeploymentAssumption ==
  /\ AllPaths \in Seq(STRING \X STRING) /\ NoPath \notin Paths
  /\ EcicPaths \subseteq {p \in Paths : p[1] = ""}
  /\ \A c \in EcicContents : \A i \in DOMAIN c.streams :
       /\ c.streams[i].type \in {"ASSISTANT", "A429", "A664"}
       /\ c.streams[i].type # "ASSISTANT" => c.streams[i].icd \in Paths \ EcicPaths
  /\ NoFile \notin Contents
  /\ MaxEdits \in Nat

VARIABLES
  disk,        (* the files of the host                                     *)
  edits,       (* history: number of changes                                *)
  configured,  (* the ECIC file in the mask of the Configure block          *)
  workspace,   (* ED247Configuration: the ECIC file and its list of ICDs    *)
  code,        (* the generated code: name of the ECIC file, and the signal *)
               (*   that each port was made for                             *)
  building,    (* code is generated, the application is not yet packed      *)
  app,         (* the application: its code and the files in /misc; with    *)
               (*   the files of the host and the rest as history           *)
  target,      (* the program on the target, and the signals it has read    *)
  outdated     (* history: what was made before the last change of a file   *)

Off == [state |-> "off", signals |-> <<>>]   (* no program on the target *)

vars == <<disk, edits, configured, workspace, code, building, app, target, outdated>>

IsEcic(content) == content \in EcicContents
MayHold(p, content) == content = NoFile \/ (IsEcic(content) <=> p \in EcicPaths)

-----------------------------------------------------------------------------
(* readED247Configuration, where found has the content of each path.  Streams whose ICD
   cannot be read have no signals; a file that is no ECIC is not loaded. *)
MessagesOf(stream, found) ==
  IF stream.type = "ASSISTANT" THEN stream.signals
  ELSE IF found[stream.icd] \in IcdContents THEN found[stream.icd].messages ELSE <<>>

Streams(content) == IF IsEcic(content) THEN content.streams ELSE <<>>

SignalsOf(content, found) ==
  FlattenSeq([i \in DOMAIN Streams(content) |-> MessagesOf(Streams(content)[i], found)])

WithIcd(content) == {s \in Range(Streams(content)) : s.type # "ASSISTANT"}

(* The file names that mexFunction returns: a stream gets its name when its ICD has been
   read; an A429 stream only exists from its first message on. *)
Listed(content, found) ==
  {s.icd : s \in {t \in WithIcd(content) :
                    found[t.icd] # NoFile /\ (t.type = "A429" => MessagesOf(t, found) # <<>>)}}

-----------------------------------------------------------------------------
(* Somebody writes, changes or deletes a file. *)
EditFile ==
  /\ edits < MaxEdits
  /\ \E p \in Paths, c \in Contents \cup {NoFile} :
       /\ c # disk[p] /\ MayHold(p, c)
       /\ disk' = [disk EXCEPT ![p] = c]
  /\ edits' = edits + 1
  /\ outdated' = {"workspace", "code"}
  /\ UNCHANGED <<configured, workspace, code, building, app, target>>

(* saveConfigurationInModelWorkspace: read again only for another file name. *)
Save(e) ==
  workspace' = IF workspace.ecic = e THEN workspace
               ELSE [ecic |-> e, icds |-> Listed(disk[e], disk)]

UpToDateAfterSave(e) == IF workspace.ecic = e THEN {} ELSE {"workspace"}

(* Another file is chosen in the mask. *)
SetFileName ==
  /\ ~building
  /\ \E e \in EcicPaths :
       /\ IsEcic(disk[e])
       /\ configured' = e
       /\ Save(e)
       /\ outdated' = outdated \ UpToDateAfterSave(e)
  /\ UNCHANGED <<disk, edits, code, building, app, target>>

(* slbuild: InitFcn and mdlInitializeSizes of the Configure block, and RTW.  Without
   the ECIC file there is an error. *)
Generate ==
  /\ ~building /\ disk[configured] # NoFile
  /\ Save(configured)
  /\ code' = [name |-> configured[2], ports |-> SignalsOf(disk[configured], disk)]
  /\ building' = TRUE
  /\ outdated' = outdated \ ({"code"} \cup UpToDateAfterSave(configured))
  /\ UNCHANGED <<disk, edits, configured, app, target>>

(* The files of the configuration in the workspace, if its ECIC file is still there. *)
XmlPaths ==
  IF disk[workspace.ecic] = NoFile THEN {} ELSE {workspace.ecic} \cup workspace.icds

(* They are added one after the other, the ECIC file first. *)
Place(p) == IF p = workspace.ecic THEN 0 ELSE CHOOSE i \in DOMAIN AllPaths : AllPaths[i] = p

(* Mistake: a file that does not exist is added all the same. *)
AddedAll(paths) == paths

(* A file that does not exist is an error, when those before it have been added. *)
Added(paths) == {p \in paths : \A q \in paths : Place(q) <= Place(p) => disk[q] # NoFile}

(* Mistake: the ICD files are forgotten. *)
MiscWithoutIcds(paths) ==
  [n \in {p[2] : p \in paths \cap {workspace.ecic}} |-> disk[workspace.ecic]]

(* /misc is flat: of two files with one name the later one stays. *)
LastNamed(paths, n) ==
  CHOOSE p \in paths : p[2] = n /\ \A q \in paths : q[2] = n => Place(q) <= Place(p)

Misc(paths) == [n \in {p[2] : p \in paths} |-> disk[LastNamed(paths, n)]]

(* One name for two of the files that are packed or that the ECIC file refers to now. *)
NamesCollide ==
  LET files == XmlPaths \cup {s.icd : s \in WithIcd(disk[configured])}
  IN  \E p, q \in files : p # q /\ p[2] = q[2]

(* The end of slbuild: addXmlFile.  (Bound: no program of an older build is running; it
   would have its own copy of everything.) *)
Pack ==
  /\ building /\ target = Off
  /\ app' = [made |-> TRUE, name |-> code.name, ports |-> code.ports,
             misc |-> Misc(Added(XmlPaths)),
             outdated |-> outdated, host |-> disk, ecic |-> configured,
             collide |-> NamesCollide]
  /\ building' = FALSE
  /\ UNCHANGED <<disk, edits, configured, workspace, code, target, outdated>>

-----------------------------------------------------------------------------
(* What the target finds for a path relative to /misc. *)
OnTarget ==
  [p \in Paths |->
     IF p[1] = "" /\ p[2] \in DOMAIN app.misc THEN app.misc[p[2]] ELSE NoFile]

Ecic == OnTarget[<<"", app.name>>]

(* Mistake: the program goes on, as the connector does on the host. *)
ExitsWithoutEcic == Ecic = NoFile

(* Tools::fileexists on the target: without the file the program exits, whether it is
   the ECIC file or an ICD. *)
Exits == Ecic = NoFile \/ \E s \in WithIcd(Ecic) : OnTarget[s.icd] = NoFile

(* ConfigureStart of the generated code *)
StartTarget ==
  /\ app.made /\ target = Off
  /\ target' = IF Exits THEN [state |-> "exited", signals |-> <<>>]
               ELSE [state |-> "running", signals |-> SignalsOf(Ecic, OnTarget)]
  /\ UNCHANGED <<disk, edits, configured, workspace, code, building, app, outdated>>

StopTarget ==
  /\ target # Off /\ target' = Off
  /\ UNCHANGED <<disk, edits, configured, workspace, code, building, app, outdated>>

Init ==
  /\ disk \in [Paths -> Contents \cup {NoFile}]
  /\ \A p \in Paths : MayHold(p, disk[p])
  /\ edits = 0
  /\ configured \in {p \in EcicPaths : IsEcic(disk[p])}
  /\ workspace = [ecic |-> NoPath, icds |-> {}]
  /\ code = [name |-> "none", ports |-> <<>>]
  /\ building = FALSE
  /\ app = [made |-> FALSE]
  /\ target = Off
  /\ outdated = {}

Next ==
  \/ EditFile \/ SetFileName \/ Generate \/ Pack \/ StartTarget \/ StopTarget

Spec == Init /\ [][Next]_vars

-----------------------------------------------------------------------------
(* The domains of the variables; an application only has files that existed. *)
TypeOK ==
  /\ disk \in [Paths -> Contents \cup {NoFile}] /\ \A p \in Paths : MayHold(p, disk[p])
  /\ edits \in 0 .. MaxEdits /\ configured \in EcicPaths /\ building \in BOOLEAN
  /\ workspace \in [ecic : EcicPaths \cup {NoPath}, icds : SUBSET Paths]
  /\ app.made => \A n \in DOMAIN app.misc : app.misc[n] \in Contents
  /\ target.state \in {"off", "exited", "running"}
  /\ outdated \subseteq {"workspace", "code"}

(* A program that nobody has changed a file for exits at once exactly if an ICD is in a
   folder of its own, or is not listed, which is fine on the host: a file that is not
   there, or an A429 stream without messages. *)
ExitsExactly ==
  target.state # "off" /\ app.outdated = {} /\ ~app.collide =>
    (target.state = "exited" <=>
       \E s \in WithIcd(app.host[app.ecic]) :
         s.icd[1] # "" \/ s.icd \notin Listed(app.host[app.ecic], app.host))

(* If it runs, each port carries the signal that it was made for: an old list of ICD
   files in the workspace makes it exit but never mixes up the ports or leaves one
   without a signal.  Only a file that changes while the build runs, and files with one
   name, do. *)
RunningPortsAreRight ==
  target.state = "running" /\ target.signals # app.ports =>
    "code" \in app.outdated \/ app.collide
=============================================================================
