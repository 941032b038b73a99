---------------------------- MODULE MCUdpStreams ----------------------------
(***************************************************************************)
(* Small instances of UdpStreams.                                          *)
(***************************************************************************)
EXTENDS UdpStreams, TLC
=============================================================================
