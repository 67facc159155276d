--------------------------- MODULE MCTcpTransport ---------------------------
EXTENDS TcpTransport

=============================================================================
