---------------------------- MODULE MCRcRunlevel ----------------------------
(* A service and a display manager with every set of links in every level. *)
EXTENDS RcRunlevel

CONSTANTS a, b

MCNumber == [s \in {a, b} |-> IF s = a THEN 10 ELSE 20]
=============================================================================
