---------------------------- MODULE MCDialRetry ----------------------------
(* Instances of DialRetry for TLC.                                          *)
EXTENDS DialRetry

CONSTANT k1

MCConn == 1 .. Dials * TlsAttempts * TcpAttempts
=============================================================================
