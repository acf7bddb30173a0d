---------------------------- MODULE MCTopoOrder ----------------------------
(***************************************************************************)
(* All configurations of three processes with up to two dependencies each, *)
(* one of which may be a name that is not configured, and some lists with  *)
(* three entries.                                                          *)
(***************************************************************************)
EXTENDS TopoOrder

CONSTANTS a, b, c, x

ShortLists == UNION {[1..k -> {a, b, c, x}] : k \in 0..2}
MCDepLists == ShortLists \cup {<<a, a, b>>, <<b, a, b>>, <<c, c, c>>}
==========================================================================
