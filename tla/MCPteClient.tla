---------------------------- MODULE MCPteClient -----------------------------
(* Instances of PteClient for TLC; the constants are model values.         *)
EXTENDS PteClient

CONSTANTS u1, u2, k1, k2, m1, m2
=============================================================================
