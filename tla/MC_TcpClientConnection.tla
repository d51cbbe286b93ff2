----------------------- MODULE MC_TcpClientConnection -----------------------
(* Model-checking instance of TcpClientConnection: three calls of send.    *)
EXTENDS TcpClientConnection

MCMaxSends == 3

=============================================================================
