-------------------------- MODULE MCNetworkStream --------------------------
\* Finite instances of NetworkStream for TLC; the constants are model values.
EXTENDS NetworkStream
=============================================================================
