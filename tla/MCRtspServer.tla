---------------------------- MODULE MCRtspServer ----------------------------
\* Finite instances of RtspServer for TLC; the constants are model values.
EXTENDS RtspServer
=============================================================================
