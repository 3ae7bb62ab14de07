---------------------------- MODULE MCListUpdate ----------------------------
EXTENDS ListUpdate, TLC

\* "a", "a-", "a.a", "a.a-", "aa"; a hyphen goes before the point, a letter after it
a == 3
MCNombres == {<<a>>, <<a, GUION>>, <<a, PUNTO, a>>, <<a, PUNTO, a, GUION>>, <<a, a>>}
MCPrueba == <<<<a, a, a>>>>
MCPrevia == <<<<a, PUNTO, a>>, <<a, a, PUNTO, a>>>>

\* Every name of five bytes at most.
MCConsultas == {s \in UNION {[1 .. n -> {GUION, PUNTO, a}] : n \in 1 .. 5} : EsNombre(s)}
=============================================================================
