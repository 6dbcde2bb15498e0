---------------------------- MODULE MCRdtSession ----------------------------
(* RdtSession for TLC: a counter of six values, which wraps in a session.   *)
EXTENDS RdtSession
=============================================================================
