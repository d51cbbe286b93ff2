---------------------------- MODULE MC_TcpFraming ----------------------------
EXTENDS TcpFraming

(* Lengths at the edges of the two prefix bytes, up to the largest that   *)
(* the 16-bit prefix can express.                                          *)
MCMsgLens == {0, 1, 255, 256, 65535}

=============================================================================
