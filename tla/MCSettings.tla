------------------------------ MODULE MCSettings ------------------------------
(***************************************************************************)
(* Instances of Settings for TLC: two objects, two platforms, two fields.  *)
(* Of the texts that are no folder the empty one is set, for all of them.  *)
(***************************************************************************)
EXTENDS Settings, TLC

Entry(name, values) == [name |-> name, values |-> values]
Common  == Entry("Common", "Version" :> "v1")
Windows == Entry("Windows", "ED247" :> "d1" @@ "LibXML2" :> "d2")
NoXML   == Entry("Windows", "ED247" :> "d1" @@ "LibXML2" :> "nowhere")
Linux   == Entry("Linux", "ED247" :> "d2" @@ "LibXML2" :> "d2")

(* The last two are files of older versions, with a duplicate and without a name.  Files
   with Common in front come from reset and save. *)
Files == {<<Linux, Common, NoXML>>, <<Windows>>,
          <<Common, Windows, NoXML>>, <<Entry("", "ED247" :> "d1"), Common, Linux>>}

(* No property depends on which object is which. *)
ObjectsAreAlike == Permutations(Objects)
=============================================================================
