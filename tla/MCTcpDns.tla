------------------------------ MODULE MCTcpDns ------------------------------
EXTENDS TcpDns, TLC

CONSTANTS k1, k2, k3, x1
=============================================================================
