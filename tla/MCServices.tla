------------------------------ MODULE MCServices ------------------------------
(***************************************************************************)
(* Two Services that select one container, over two workers of which one   *)
(* advertises no address, and over two node ports.  Bodies ask for a port  *)
(* by number, for any, or for both; three of them are refused, and one has *)
(* a finalizer.                                                            *)
(***************************************************************************)
EXTENDS Services

Body(ports, selector, finalizer) ==
  [ports |-> ports, selector |-> selector, finalizer |-> finalizer]

Bodies ==
  {Body(p, Containers, FALSE) : p \in {<<0>>, <<0, 1>>, <<3>>, <<1, 1>>}}
    \cup {Body(<<1>>, Containers, TRUE), Body(<<1>>, {}, FALSE)}
==============================================================================
