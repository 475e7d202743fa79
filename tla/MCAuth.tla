-------------------------------- MODULE MCAuth --------------------------------
(***************************************************************************)
(* Instances of Auth for TLC: two people who both set up the server, one   *)
(* join token, one machine that joins, runs, is deleted and joins again.   *)
(***************************************************************************)
EXTENDS Auth
==============================================================================
