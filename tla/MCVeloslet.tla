----------------------------- MODULE MCVeloslet -----------------------------
(***************************************************************************)
(* Two containers of one worker, the first never restarted and the second  *)
(* always, and two objects in the course of time, the second of which has  *)
(* an image that is no good.                                               *)
(***************************************************************************)
EXTENDS Veloslet

NeverAlways == [n \in Names |-> IF n = 1 THEN "Never" ELSE "Always"]
=============================================================================
