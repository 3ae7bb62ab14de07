------------------------------ MODULE DnsWire -------------------------------
(***************************************************************************)
(* DNS messages as dns_wire.c walks them: a header with its counters, a    *)
(* question, and the records found after it.  The counters are what the    *)
(* message says, the records what there is: fewer than it says, or one     *)
(* that is cut or has a name that cannot be skipped, ends a walk.          *)
(*                                                                         *)
(* The bytes of a name are told apart by what the code does with them:     *)
(*   "llano"    labels of printable characters                             *)
(*   "raro"     a byte that is not printable                               *)
(*   "raiz"     no label                                                   *)
(*   "puntero"  compressed, or longer than 253: it can be skipped, but is  *)
(*              not legal in a client's question                           *)
(*   "roto"     past the end of the message, or with reserved bits         *)
(***************************************************************************)
EXTENDS Integers, Sequences, FiniteSetsExt

OPT == "OPT"
SOA == "SOA"

Nombre == {"llano", "raro", "raiz", "puntero", "roto"}

\* entero: the rest of the record is within the message.
Registro == [nombre : Nombre, tipo : STRING, ttl : Nat, entero : BOOLEAN]

\* id: the transaction id; letras: the case of the letters of the question.
EsMensaje(m) ==
  /\ DOMAIN m = {"id", "letras", "qr", "opcode", "rcode", "qd", "an", "ns", "ar",
                 "nombre", "entera", "rr"}
  /\ {m.qr, m.entera} \subseteq BOOLEAN
  /\ {m.opcode, m.rcode, m.qd, m.an, m.ns, m.ar} \subseteq Nat
  /\ m.nombre \in Nombre
  /\ m.rr \in Seq(Registro)

(***************************************************************************)
(* dns_wire_parse_query                                                    *)
(***************************************************************************)
OPCODE_QUERY == 0

Registros(m) == m.an + m.ns + m.ar

\* skip_name and walk_record
walk_record(m, i) ==
  /\ i \in DOMAIN m.rr
  /\ m.rr[i].nombre # "roto"
  /\ m.rr[i].entero

LosQueSon(m, tipo) == {i \in DOMAIN m.rr : i <= Registros(m) /\ m.rr[i].tipo = tipo}

\* What is left for the upstream to answer is found out before what is wrong
\* with the rest of the message.
NoProcesable(m) ==
  \/ m.opcode # OPCODE_QUERY
  \/ m.qd # 1
  \/ m.nombre \in {"raro", "raiz"}

MalFormada(m) ==
  \/ m.nombre \in {"puntero", "roto"}
  \/ ~m.entera
  \/ \E i \in 1 .. Registros(m) : ~walk_record(m, i)
  \/ Cardinality(LosQueSon(m, OPT)) > 1

dns_wire_parse_query(m) ==
  IF m.qr THEN "MALFORMED"
  ELSE IF NoProcesable(m) THEN "UNSUPPORTED"
  ELSE IF MalFormada(m) THEN "MALFORMED"
  ELSE "OK"

(***************************************************************************)
(* Answers                                                                 *)
(***************************************************************************)
DNS_RCODE_NOERROR == 0
DNS_RCODE_SERVFAIL == 2
DNS_RCODE_NXDOMAIN == 3

walk_questions(m) == m.qd = 0 \/ (m.nombre # "roto" /\ m.entera)

\* Every record up to the i-th can be walked.
SeLlega(m, i) == walk_questions(m) /\ \A j \in 1 .. i : walk_record(m, j)

SinTtl == -1

\* The TTL of the first SOA of the authority, if the walk gets there.
TtlNegativo(m) ==
  LET soas == {i \in LosQueSon(m, SOA) : i <= m.ns}
  IN  IF soas # {} /\ SeLlega(m, Min(soas)) THEN m.rr[Min(soas)].ttl ELSE SinTtl

dns_wire_min_ttl(m) ==
  IF m.an = 0 THEN TtlNegativo(m)
  ELSE IF SeLlega(m, m.an) THEN Min({m.rr[i].ttl : i \in 1 .. m.an})
  ELSE SinTtl

\* Mutant of dns_wire_decrement_ttls: what OPT carries in the place of the TTL
\* is taken for one.
DescuentaTambienOpt(m, elapsed) ==
  [m EXCEPT !.rr = [i \in DOMAIN m.rr |->
     IF i <= Registros(m) /\ SeLlega(m, i)
       THEN [m.rr[i] EXCEPT !.ttl = IF @ > elapsed THEN @ - elapsed ELSE 0]
       ELSE m.rr[i]]]

\* The records before one that cannot be walked have been rewritten already.
dns_wire_decrement_ttls(m, elapsed) ==
  [m EXCEPT !.rr = [i \in DOMAIN m.rr |->
     IF i <= Registros(m) /\ SeLlega(m, i) /\ m.rr[i].tipo # OPT
       THEN [m.rr[i] EXCEPT !.ttl = IF @ > elapsed THEN @ - elapsed ELSE 0]
       ELSE m.rr[i]]]

dns_wire_rewrite_id(m, id) == [m EXCEPT !.id = id]
=============================================================================
