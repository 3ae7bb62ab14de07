------------------------------- MODULE NetDns -------------------------------
(***************************************************************************)
(* What the fast path of net_dns.c remembers of its clients: fastpath, for *)
(* queries over UDP (recv_cb) and over TCP (resolve_en_tcpip) alike, asks  *)
(* the limiter and then writes the registry; the web reads and empties the *)
(* registry by jumping into the same thread, the tcpip thread, so each of  *)
(* these is one step.                                                      *)
(*                                                                         *)
(* The limiter counts milliseconds in 32 bits and the registry seconds: t  *)
(* is the time they are both read from.  A query from outside the local    *)
(* networks, or malformed (dns_wire_parse_query), is dropped before any of *)
(* this; one that is well formed but not for us to process is left whole   *)
(* to the forwarder, and counts as any other.                              *)
(***************************************************************************)
EXTENDS RateLimit, Clients, DnsWire

CONSTANTS Consultas,     \* what clients may send, by name
          Pregunta,      \* the message of each
          Bloqueadas,    \* those whose name is on the block list
          SEGUNDO,       \* ticks in a second
          MaxT,          \* bound: ticks
          MaxTotal       \* bound: queries served

ASSUME NetDnsAssumption ==
  /\ \A q \in Consultas : EsMensaje(Pregunta[q])
  /\ Bloqueadas \subseteq Consultas
  /\ IsFiniteSet(Clientes)
  /\ SEGUNDO \in Nat \ {0}
  /\ MaxT \in Nat /\ MaxTotal \in Nat

VARIABLES t,          \* esp_timer_get_time(), in ticks
          s_rl,       \* the limiter
          s_clients,  \* the registry
          met,        \* MET_TOTAL and MET_BLOQUEADAS
          \* for the properties only:
          ideal,      \* what each client would have if refilled at every tick,
                      \* since it last got a new bucket
          techo,      \* the same for the ceiling
          ultima,     \* when each client last came to the table of buckets
          ordenado,   \* no bucket has been idle for half the clock so far
          olvidadas   \* queries of entries of the registry since dropped

vars == <<t, s_rl, s_clients, met, ideal, techo, ultima, ordenado, olvidadas>>
historia == <<ideal, techo, ultima, ordenado>>

Nunca == -1

Cuenta == [total : Nat, bloqueadas : Nat]

TypeOK ==
  /\ t \in 0 .. MaxT
  /\ s_rl \in LimiteTipo
  /\ s_clients \in [EntSlots -> Ent \cup {Nadie}]
  /\ met \in Cuenta /\ olvidadas \in Cuenta
  /\ ideal \in [Clientes -> 0 .. Tope(ip_burst)]
  /\ techo \in 0 .. Tope(glob_burst)
  /\ ultima \in [Clientes -> 0 .. MaxT \cup {Nunca}]
  /\ ordenado \in BOOLEAN

\* net_dns_start
Init ==
  /\ t = 0
  /\ s_rl = ratelimit_init
  /\ s_clients = clients_init
  /\ met = [total |-> 0, bloqueadas |-> 0]
  /\ olvidadas = [total |-> 0, bloqueadas |-> 0]
  /\ ideal = [c \in Clientes |-> Tope(ip_burst)]
  /\ techo = Tope(glob_burst)
  /\ ultima = [c \in Clientes |-> Nunca]
  /\ ordenado = TRUE

ms_now == t % ClockMod
s_now == t \div SEGUNDO

EnUsoRl == {i \in CuboSlots : s_rl.cubos[i] # Vacio}

(***************************************************************************)
(* fastpath, by what ratelimit_check says                                  *)
(***************************************************************************)
Parse == [q \in Consultas |-> dns_wire_parse_query(Pregunta[q])]

\* The queries of c that get as far as its bucket.
Llegan(c) == {q \in Consultas : policy_is_local(c) /\ Parse[q] # "MALFORMED"}

Descartada(c, q) ==
  /\ q \notin Llegan(c)
  /\ UNCHANGED vars

\* No budget for anybody: the table is not looked at.
SinPresupuesto(c, q) ==
  /\ q \in Llegan(c)
  /\ ~HayTecho(s_rl, ms_now)
  /\ s_rl' = RecargaGlobal(s_rl, ms_now)
  /\ UNCHANGED <<t, s_clients, met, olvidadas, historia>>

\* What the history of the limiter notes when c's bucket is served with gasta.
Anota(c, gasta) ==
  /\ ultima' = [ultima EXCEPT ![c] = t]
  /\ ideal' = [ideal EXCEPT ![c] =
       (IF DelCliente(s_rl, c) = {} THEN Tope(ip_burst) ELSE @) - gasta]
  /\ techo' = techo - gasta
  /\ UNCHANGED ordenado

Agotado(c, q) ==
  /\ q \in Llegan(c)
  /\ HayTecho(s_rl, ms_now)
  /\ ~HayTokens(s_rl, c, ms_now)
  /\ s_rl' = Sirve(s_rl, c, ms_now, 0)
  /\ Anota(c, 0)
  /\ UNCHANGED <<t, s_clients, met, olvidadas>>

Suma2(a, total, bloqueadas) ==
  [total |-> a.total + total, bloqueadas |-> a.bloqueadas + bloqueadas]

\* What an entry of the registry counts.
Cuenta1(e) ==
  IF e = Nadie THEN [total |-> 0, bloqueadas |-> 0]
  ELSE [total |-> e.total, bloqueadas |-> e.blocked]

\* What the registry drops to make room for c.
Desalojo(c) ==
  IF EntDe(s_clients, c) = {}
    THEN Cuenta1(s_clients[CHOOSE i \in EntSlots : EntPara(s_clients, i)])
    ELSE Cuenta1(Nadie)

\* Is q, admitted, answered as blocked (1), or from the cache or left to the
\* forwarder (0)?  Only a query that could be read is looked for in the list, and
\* then its answer fits: 39 bytes more than a question of 271 at most, in 640
\* (net_dns.c:179 is never reached).
PorBloqueo(q) == IF Parse[q] = "OK" /\ q \in Bloqueadas THEN 1 ELSE 0

\* An admitted query.  Each of its paths records it once.
Atiende(c, q) ==
  /\ q \in Llegan(c)
  /\ HayTecho(s_rl, ms_now)
  /\ HayTokens(s_rl, c, ms_now)
  /\ met.total < MaxTotal
  /\ s_rl' = Sirve(s_rl, c, ms_now, MIL)
  /\ Anota(c, MIL)
  /\ met' = Suma2(met, 1, PorBloqueo(q))
  /\ s_clients' = clients_record(s_clients, c, PorBloqueo(q), s_now)
  /\ olvidadas' = Suma2(olvidadas, Desalojo(c).total, Desalojo(c).bloqueadas)
  /\ UNCHANGED t

\* DELETE /api/clients: clients_reset_en_tcpip.
net_dns_clients_reset ==
  /\ s_clients' = clients_init
  /\ olvidadas' = met
  /\ UNCHANGED <<t, s_rl, met, historia>>

Repone(tokens, rate, burst) ==
  IF tokens + rate > Tope(burst) THEN Tope(burst) ELSE tokens + rate

Tick ==
  /\ t < MaxT
  /\ t' = t + 1
  /\ ideal' = [c \in Clientes |-> Repone(ideal[c], ip_rate, ip_burst)]
  /\ techo' = Repone(techo, glob_rate, glob_burst)
  /\ ordenado' = (ordenado /\ \A i \in EnUsoRl :
                    t' - ultima[s_rl.cubos[i].ip] < ClockMod \div 2)
  /\ UNCHANGED <<s_rl, s_clients, met, ultima, olvidadas>>

Next ==
  \/ \E c \in Clientes, q \in Consultas : Descartada(c, q)
  \/ \E c \in Clientes, q \in Consultas : SinPresupuesto(c, q)
  \/ \E c \in Clientes, q \in Consultas : Agotado(c, q)
  \/ \E c \in Clientes, q \in Consultas : Atiende(c, q)
  \/ net_dns_clients_reset
  \/ Tick

Spec == Init /\ [][Next]_vars

-----------------------------------------------------------------------------
(***************************************************************************)
(* Properties                                                              *)
(***************************************************************************)

\* A bucket refilled only when it is looked at, in thousandths and over a clock
\* that wraps, has what one refilled all the time would have ("recarga con resto
\* exacto", ratelimit.h:16): no more through any wrap, so no client and no set of
\* clients ever passes its burst plus its rate; no less while no bucket has been
\* idle for half a turn of the clock.  The budget of everybody is not spent on a
\* query that its client had no token for.
Exacto ==
  /\ TypeOK
  /\ \A i \in EnUsoRl :
       LET b == s_rl.cubos[i]
       IN  /\ EnCubo(b, ms_now) <= ideal[b.ip]
           /\ ordenado => EnCubo(b, ms_now) = ideal[b.ip]
  /\ EnTecho(s_rl, ms_now) <= techo
  /\ ordenado => EnTecho(s_rl, ms_now) = techo

\* A client keeps its bucket, and with it what it has already spent, until as
\* many others as the table holds have come since: a bucket is never won back
\* full by anything less (test_desalojo_lru_de_la_tabla), nor is it ever in two
\* buckets.  It holds while no bucket has been idle for half the clock, when it
\* starts to look recent.
Conserva ==
  /\ \A c \in Locales :
       /\ ordenado /\ ultima[c] # Nunca
       /\ Cardinality({d \in Locales \ {c} : ultima[d] >= ultima[c]}) < RATELIMIT_TABLE
       => DelCliente(s_rl, c) # {}
  /\ \A c \in Locales : Cardinality(DelCliente(s_rl, c)) <= 1

\* The sum of f[0] to f[n - 1].
Sumatorio(f, n) ==
  LET hasta[k \in 0 .. n] == IF k = 0 THEN 0 ELSE hasta[k - 1] + f[k - 1]
  IN  hasta[n]

TotalDe(tabla) == Sumatorio([i \in EntSlots |-> Cuenta1(tabla[i]).total], CLIENTS_TABLE)
BlockedDe(tabla) == Sumatorio([i \in EntSlots |-> Cuenta1(tabla[i]).bloqueadas], CLIENTS_TABLE)

\* Every query of MET_TOTAL, and every one of MET_BLOQUEADAS, is counted once
\* and for its own client in the registry, or was when its entry was dropped or
\* the registry emptied: a client never has two entries, an entry taken from
\* another inherits nothing, and only local clients appear.
Cuadra ==
  /\ met.total = olvidadas.total + TotalDe(s_clients)
  /\ met.bloqueadas = olvidadas.bloqueadas + BlockedDe(s_clients)
  /\ \A i, j \in Vistos(s_clients) : s_clients[i].ip = s_clients[j].ip => i = j
  /\ \A i \in Vistos(s_clients) :
       s_clients[i].blocked <= s_clients[i].total /\ s_clients[i].ip \in Locales
=============================================================================
