----------------------------- MODULE MCChannel -----------------------------
(***************************************************************************)
(* Instances of the sockets: two operators and one child; the smallest     *)
(* backlog, 0, lets one connection wait.                                   *)
(***************************************************************************)
EXTENDS Channel

CONSTANTS o1, o2
==========================================================================
