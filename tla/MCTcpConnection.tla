-------------------------- MODULE MCTcpConnection --------------------------
EXTENDS TcpConnection
=============================================================================
