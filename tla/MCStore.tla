------------------------------- MODULE MCStore -------------------------------
(* Instances of Store for TLC: two names, one or two callers, one stream and *)
(* three or four versions.  Their constants are all in the configurations.   *)
EXTENDS Store
==============================================================================
