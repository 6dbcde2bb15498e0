--------------------------- MODULE MCUdpTransport ---------------------------
(* Model checking of UdpTransport. *)
EXTENDS UdpTransport
=============================================================================
