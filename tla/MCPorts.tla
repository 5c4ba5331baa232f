------------------------------- MODULE MCPorts -------------------------------
(***************************************************************************)
(* Instances of Ports for TLC: two file names, one change on the disk.     *)
(***************************************************************************)
EXTENDS Ports

Stream(kind, direction, messages) ==
  [kind |-> kind, direction |-> direction, messages |-> messages]

Plain(d)  == Stream("ASSISTANT", d, <<d>>)
Plain2(d) == Stream("ASSISTANT", d, <<d, d>>)
Bus429    == Stream("A429", "INOUT", <<"IN", "OUT", "INOUT", "IN">>)
Bus664(d, e) == Stream("A664", d, <<e>>)
Bus825    == Stream("A825", "INOUT", <<"INOUT">>)

(* Mixed files for the runs that pass: all kinds, in several orders. *)
Mixed ==
  {<<Bus429, Plain2("IN"), Bus664("IN", "IN")>>,
   <<Bus825, Plain("IN"), Bus664("OUT", "OUT")>>,
   <<Plain("OUT"), Bus825, Bus825>>,
   <<Plain("IN"), Bus664("OUT", "INOUT"), Bus825>>,
   <<Plain2("OUT"), Bus664("IN", "INVALID")>>}

(* Received signals with refresh on both sides of a plain one. *)
WithoutA825 == {<<Bus429, Plain("IN"), Bus664("IN", "IN")>>, <<Plain2("IN"), Bus429>>}
=============================================================================
