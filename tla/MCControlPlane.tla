--------------------------- MODULE MCControlPlane ---------------------------
(***************************************************************************)
(* Instances of ControlPlane for TLC: two containers, one of which may be  *)
(* rescheduled, and two workers of one slot each, with leases and a grace  *)
(* period of one tick.                                                     *)
(***************************************************************************)
EXTENDS ControlPlane

OneEach == [c \in Containers |-> 1]
OneSlotEach == [w \in Workers |-> 1]
=============================================================================
