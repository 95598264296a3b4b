---------------------------- MODULE MCPortChange ----------------------------
(* Instances of PortChange for TLC; the constants are model values.        *)
EXTENDS PortChange

CONSTANTS t1, p1, p2
=============================================================================
