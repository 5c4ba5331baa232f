----------------------------- MODULE MCDeployment -----------------------------
(***************************************************************************)
(* The instance of Deployment for TLC: two ECIC files in the model folder, *)
(* and ICD files in this folder and in another one, with the same names.   *)
(***************************************************************************)
EXTENDS Deployment

FivePaths == <<<<"", "ecic.xml">>, <<"", "icd.xml">>, <<"", "other.xml">>,
               <<"icd", "ecic.xml">>, <<"icd", "icd.xml">>>>
TwoEcics == {<<"", "ecic.xml">>, <<"", "other.xml">>}

Stream(type, signals, icd) == [type |-> type, signals |-> signals, icd |-> icd]
Nad == Stream("ASSISTANT", <<"n1">>, NoPath)
Ecics ==
  {[streams |-> <<Nad, Stream("A429", <<>>, <<"", "icd.xml">>)>>],
   [streams |-> <<Stream("A664", <<>>, <<"icd", "icd.xml">>), Stream("A429", <<>>, <<"", "icd.xml">>)>>],
   [streams |-> <<Stream("A664", <<>>, <<"", "icd.xml">>), Stream("A664", <<>>, <<"icd", "ecic.xml">>)>>]}

Icds == {[messages |-> <<>>], [messages |-> <<"m1", "m2">>], [messages |-> <<"m2">>]}
=============================================================================
