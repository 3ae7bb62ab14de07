------------------------------- MODULE MCDhcp -------------------------------
EXTENDS Dhcp, TLC

CONSTANTS m1, m2, m3

\* No range, and one that begins outside the network and holds the address of
\* the server.
MCRangos == {<<0, 0>>, <<9, 13>>}

Simetria == Permutations(Macs)
=============================================================================
