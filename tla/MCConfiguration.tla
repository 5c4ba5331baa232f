-------------------------- MODULE MCConfiguration --------------------------
(***************************************************************************)
(* Instances of ConfigurationReader for TLC: every file of up to four      *)
(* streams out of a few that differ in kind, direction and size.  With     *)
(* three places for streams and four for signals on each side, both limits *)
(* are met before, at and after the last stream.                           *)
(***************************************************************************)
EXTENDS ConfigurationReader

StreamOf(kind, direction, messages) ==
  [kind |-> kind, direction |-> direction, messages |-> messages]

SomeStreams ==
  {StreamOf("ASSISTANT", "IN",    <<"FITS">>),
   StreamOf("ASSISTANT", "INOUT", <<"FITS">>),
   StreamOf("ASSISTANT", "OUT",   <<"FITS", "TOO_MANY_DIMENSIONS", "FITS">>),
   StreamOf("A429",      "INOUT", <<"IN", "OUT", "INOUT", "IN">>),
   StreamOf("A664",      "OUT",   <<"FITS", "FITS">>),
   StreamOf("A825",      "INOUT", <<"FITS", "FITS">>),
   StreamOf("OTHER",     "IN",    <<>>)}

FilesOfUpTo(n) == UNION {[1 .. k -> SomeStreams] : k \in 0 .. n}

FourStreams == FilesOfUpTo(4)
=============================================================================
