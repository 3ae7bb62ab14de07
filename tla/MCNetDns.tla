------------------------------ MODULE MCNetDns ------------------------------
EXTENDS NetDns, TLC

CONSTANTS ca, cb, cc, fuera

RR(tipo) == [nombre |-> "raiz", tipo |-> tipo, ttl |-> 0, entero |-> TRUE]

Normal == [id |-> 1, letras |-> 1, qr |-> FALSE, opcode |-> OPCODE_QUERY, rcode |-> 0,
           qd |-> 1, an |-> 0, ns |-> 0, ar |-> 1,
           nombre |-> "llano", entera |-> TRUE, rr |-> <<RR(OPT)>>]

\* Two that can be read; one to be left whole, although it is cut; one malformed.
MCPregunta ==
  <<Normal, [Normal EXCEPT !.ar = 0], [Normal EXCEPT !.nombre = "raro", !.entera = FALSE],
    [Normal EXCEPT !.ar = 2, !.rr = @ \o @]>>

Simetria == Permutations(Locales)
=============================================================================
