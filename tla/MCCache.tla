------------------------------ MODULE MCCache -------------------------------
EXTENDS Cache, TLC

CONSTANTS k1, k2, k3, k4, upstream, cliente

\* Three questions share a bucket.
MCHash == [k \in Claves |-> IF k = k4 THEN 1 ELSE 0]

Simetria == Permutations({k1, k2, k3})

RR(tipo, ttl) == [nombre |-> "llano", tipo |-> tipo, ttl |-> ttl, entero |-> TRUE]
Cortado == [RR("A", 1) EXCEPT !.entero = FALSE]

Base == [id |-> upstream, letras |-> upstream, qr |-> TRUE, opcode |-> OPCODE_QUERY,
         rcode |-> DNS_RCODE_NOERROR, qd |-> 1, an |-> 0, ns |-> 0, ar |-> 0,
         nombre |-> "llano", entera |-> TRUE, rr |-> <<>>]

\* An answer whose last record is cut, and a denial; and answers that aren't kept.
Positiva ==
  [Base EXCEPT !.an = 2, !.ar = 3,
     !.rr = <<RR("CNAME", 4), RR("A", 3), RR("A", 0), RR(OPT, 2), Cortado>>]
Negativa ==
  [Base EXCEPT !.rcode = DNS_RCODE_NXDOMAIN, !.ns = 2, !.ar = 1,
     !.rr = <<RR("NS", 3), RR(SOA, 1), RR(OPT, 2)>>]
MCWire ==
  <<Positiva, Negativa,
    [Positiva EXCEPT !.rcode = DNS_RCODE_SERVFAIL],
    [Positiva EXCEPT !.rr[2].ttl = 0],
    [Positiva EXCEPT !.an = 5, !.ar = 0],
    [Positiva EXCEPT !.ar = 4, !.rr = @ \o <<RR("A", 1)>>],
    [Negativa EXCEPT !.rr[2].tipo = "NS"]>>
=============================================================================
