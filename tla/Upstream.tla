------------------------------ MODULE Upstream ------------------------------
(***************************************************************************)
(* The forwarder of upstream.c.  Everything it does runs in lwIP's tcpip   *)
(* thread, so each callback is one atomic step:                            *)
(*   submit                the fast path hands over a query it can't answer*)
(*   up_recv_cb            a datagram arrives from an upstream             *)
(*   procesa_expiraciones  the 250 ms timer ran and posted its callback    *)
(* What is concurrent is the outside: clients, upstreams that answer late, *)
(* twice or never, the clock, and the timer, whose callback may be delayed.*)
(*                                                                         *)
(* One tick of the clock is one period of the timer.                       *)
(***************************************************************************)
EXTENDS Pending, Salud, Sequences

CONSTANTS Crudas,        \* questions that can't be parsed: raw passthrough
          RAW_ENTRIES,
          TIMEOUT,       \* ticks an attempt may take (UPSTREAM_TIMEOUT_MS)
          ACTS_CAP,      \* actions one run of the timer handles (s_acts)
          MaxLag,        \* bound: ticks without a run of the timer's callback
          MaxWire,       \* bound: queries in flight
          Nada           \* no question asked

ASSUME UpstreamAssumption ==
  /\ Crudas \cap Keys = {}
  /\ RAW_ENTRIES \in Nat
  /\ TIMEOUT \in Nat \ {0}
  /\ ACTS_CAP \in Nat \ {0}
  /\ MaxLag \in Nat \ {0}
  /\ MaxWire \in Nat
  /\ 2 * TIMEOUT + MaxLag <= ClockMod
  /\ Nada \notin Keys \cup Crudas

EntradaCruda == [txid : Txids, req : Reqs, enviado : Clock]

ASSUME CrudaAssumption == Libre \notin EntradaCruda

VARIABLES now,     \* ms_now(), in ticks
          lag,     \* ticks since the timer's callback last ran
          pend,    \* s_pend
          salud,   \* s_salud
          crudo,   \* s_raw
          wire,    \* queries an upstream may still answer
          pedida,  \* the question of each request its client waits for
          buzon    \* the answers each request has received

vars == <<now, lag, pend, salud, crudo, wire, pedida, buzon>>

RawSlots == 0 .. RAW_ENTRIES - 1

Consulta == [txid : Txids, key : Keys \cup Crudas, up : Ups]

Respuesta == [res : {"respuesta", "servfail"}, key : Keys \cup Crudas]

TypeOK ==
  /\ now \in Clock
  /\ lag \in 0 .. MaxLag
  /\ pend \in [Slots -> Entrada \cup {Libre}]
  /\ salud \in [Ups -> SaludEntrada]
  /\ crudo \in [RawSlots -> EntradaCruda \cup {Libre}]
  /\ wire \subseteq Consulta
  /\ pedida \in [Reqs -> Keys \cup Crudas \cup {Nada}]
  /\ buzon \in [Reqs -> Seq(Respuesta)]

Init ==
  /\ now = 0
  /\ lag = 0
  /\ pend = TablaVacia
  /\ salud = SaludInicial
  /\ crudo = [i \in RawSlots |-> Libre]
  /\ wire = {}
  /\ pedida = [r \in Reqs |-> Nada]
  /\ buzon = [r \in Reqs |-> <<>>]

CrudosEnUso == {i \in RawSlots : crudo[i] # Libre}

\* The requests some entry of either table will answer.
EnTabla == UNION {pend[i].waiters : i \in EnUso(pend)}
EnCrudo == {crudo[i].req : i \in CrudosEnUso}

(***************************************************************************)
(* Sending.  envia_a drops the query when no pbuf is left, and the network *)
(* may lose it.                                                            *)
(***************************************************************************)
Envia(ms) ==
  \E llegan \in SUBSET ms :
    /\ wire' = wire \cup llegan
    /\ Cardinality(wire') <= MaxWire

Entrega(S, resp) ==
  buzon' = [r \in Reqs |-> IF r \in S THEN Append(buzon[r], resp) ELSE buzon[r]]

(***************************************************************************)
(* submit                                                                  *)
(***************************************************************************)
SubmitCrudo(r, k) ==
  /\ k \in Crudas
  /\ pedida[r] = Nada
  /\ pedida' = [pedida EXCEPT ![r] = k]
  /\ \/ /\ CrudosEnUso = RawSlots
        /\ UNCHANGED <<salud, crudo, wire>>
     \/ \E i \in RawSlots, u \in Ups, x \in Txids :
          /\ EsPrimera(RawSlots \ CrudosEnUso, i)
          /\ Elige(salud, u, now)
          /\ salud' = TrasElegir(salud, u, now)
          /\ crudo' = [crudo EXCEPT ![i] = [txid |-> x, req |-> r, enviado |-> now]]
          /\ Envia({[txid |-> x, key |-> k, up |-> u]})
  /\ UNCHANGED <<now, lag, pend, buzon>>

\* elegir runs before the table is looked at, so a query that is only grouped
\* re-arms the back-off of a down upstream too.
SubmitAgrupa(r, k) ==
  /\ k \in Keys
  /\ pedida[r] = Nada
  /\ pedida' = [pedida EXCEPT ![r] = k]
  /\ \E i \in Slots, u \in Ups :
       /\ PuedeAgrupar(pend, k, i)
       /\ pend' = Agrupa(pend, i, r)
       /\ Elige(salud, u, now)
       /\ salud' = TrasElegir(salud, u, now)
  /\ UNCHANGED <<now, lag, crudo, wire, buzon>>

SubmitEnvia(r, k) ==
  /\ k \in Keys
  /\ pedida[r] = Nada
  /\ pedida' = [pedida EXCEPT ![r] = k]
  /\ \E i \in Slots, u \in Ups, x \in TxidsLibres(pend) :
       /\ HuecoPara(pend, k, i)
       /\ Elige(salud, u, now)
       /\ salud' = TrasElegir(salud, u, now)
       /\ pend' = [pend EXCEPT ![i] = NuevaEntrada(r, k, u, now, x)]
       /\ Envia({[txid |-> x, key |-> k, up |-> u]})
  /\ UNCHANGED <<now, lag, crudo, buzon>>

(***************************************************************************)
(* up_recv_cb: the answer of upstream m.up to the query m arrives; it may  *)
(* arrive again.                                                           *)
(***************************************************************************)
Recibe(m) == wire' \in {wire, wire \ {m}}

\* The passthrough slots are looked up first, by txid alone.
RespuestaCruda(m) ==
  /\ \E i \in RawSlots :
       /\ EsPrimera({j \in CrudosEnUso : crudo[j].txid = m.txid}, i)
       /\ Entrega({crudo[i].req}, [res |-> "respuesta", key |-> m.key])
       /\ crudo' = [crudo EXCEPT ![i] = Libre]
  /\ Recibe(m)
  /\ UNCHANGED <<now, lag, pend, salud, pedida>>

\* Mutant of AddrEsUpstream: the origin of the answer is not validated.
CualquierOrigen(desde, idx) == idx < UPSTREAM_COUNT

AddrEsUpstream(desde, idx) == idx < UPSTREAM_COUNT /\ desde = idx

\* The live entry an answer completes.
Casa(m, i) ==
  /\ \A j \in CrudosEnUso : crudo[j].txid # m.txid
  /\ EsPrimera({j \in EnUso(pend) : pend[j].txid = m.txid}, i)
  /\ AddrEsUpstream(m.up, pend[i].upstream_idx)
  /\ PreguntaCasa(pend, i, m.key)

RespuestaCasa(m) ==
  /\ \E i \in Slots :
       /\ Casa(m, i)
       /\ pend' = Libera(pend, i)
       /\ salud' = TrasOk(salud, pend[i].upstream_idx)
       /\ Entrega(pend[i].waiters, [res |-> "respuesta", key |-> m.key])
  /\ Recibe(m)
  /\ UNCHANGED <<now, lag, crudo, pedida>>

\* An answer nobody waits for is dropped, and the network may lose one.
Descarta(m) ==
  /\ wire' = wire \ {m}
  /\ UNCHANGED <<now, lag, pend, salud, crudo, pedida, buzon>>

(***************************************************************************)
(* procesa_expiraciones                                                    *)
(***************************************************************************)
Destino(idx) == idx % UPSTREAM_COUNT

CrudoTrasVencer ==
  [i \in RawSlots |->
    IF crudo[i] # Libre /\ Edad(now, crudo[i].enviado) > 2 * TIMEOUT
      THEN Libre ELSE crudo[i]]

\* SERVFAIL, built from the question of the entry, to each of its waiters
\* (a request waits in one entry only: EsperaUnica).
TrasFallar(fallidas, r) ==
  LET donde == {i \in fallidas : r \in pend[i].waiters}
  IN  IF donde = {} THEN buzon[r]
      ELSE LET i == CHOOSE j \in donde : TRUE
           IN  Append(buzon[r], [res |-> "servfail", key |-> pend[i].key])

ProcesaExpiraciones ==
  LET S == PorVencer(pend, now, TIMEOUT, ACTS_CAP)
      fallidas == AFallar(pend, S)
      fallos == [u \in Ups |-> Cardinality({i \in S : Destino(pend[i].upstream_idx) = u})]
  IN  /\ lag > 0
      /\ lag' = 0
      /\ salud' = TrasFallos(salud, fallos, now)
      /\ crudo' = CrudoTrasVencer
      /\ \E x \in TxidsDeReintento(pend, S) :
           /\ pend' = TrasVencer(pend, S, x, now)
           /\ Envia({[txid |-> x[i], key |-> pend[i].key,
                      up |-> Destino(pend[i].upstream_idx + 1)] : i \in DOMAIN x})
      /\ buzon' = [r \in Reqs |-> TrasFallar(fallidas, r)]
      /\ UNCHANGED <<now, pedida>>

(***************************************************************************)
(* The outside                                                             *)
(***************************************************************************)
Tick ==
  /\ lag < MaxLag
  /\ now' = Suma(now, 1)
  /\ lag' = lag + 1
  /\ UNCHANGED <<pend, salud, crudo, wire, pedida, buzon>>

\* A client reads its answer and may ask again.
Consume(r) ==
  /\ buzon[r] # <<>>
  /\ pedida' = [pedida EXCEPT ![r] = Nada]
  /\ buzon' = [buzon EXCEPT ![r] = <<>>]
  /\ UNCHANGED <<now, lag, pend, salud, crudo, wire>>

\* A client whose request the forwarder no longer holds times out.
Desiste(r) ==
  /\ pedida[r] # Nada
  /\ buzon[r] = <<>>
  /\ r \notin EnTabla \cup EnCrudo
  /\ pedida' = [pedida EXCEPT ![r] = Nada]
  /\ UNCHANGED <<now, lag, pend, salud, crudo, wire, buzon>>

Next ==
  \/ \E r \in Reqs, k \in Crudas : SubmitCrudo(r, k)
  \/ \E r \in Reqs, k \in Keys : SubmitAgrupa(r, k)
  \/ \E r \in Reqs, k \in Keys : SubmitEnvia(r, k)
  \/ \E m \in wire : RespuestaCruda(m)
  \/ \E m \in wire : RespuestaCasa(m)
  \/ \E m \in wire : Descarta(m)
  \/ ProcesaExpiraciones
  \/ Tick
  \/ \E r \in Reqs : Consume(r)
  \/ \E r \in Reqs : Desiste(r)

Spec == Init /\ [][Next]_vars

\* Time passes, the periodic timer keeps running its callback, and a client
\* reads the answer it got.  Nothing makes the network deliver anything.
FairSpec ==
  /\ Spec
  /\ WF_vars(Tick)
  /\ WF_vars(ProcesaExpiraciones)
  /\ \A r \in Reqs : WF_vars(Consume(r))

-----------------------------------------------------------------------------
(***************************************************************************)
(* Properties                                                              *)
(***************************************************************************)

\* Two live entries never share a transaction id, through registrations,
\* evictions and several retries in one run of the timer (txid_unico): the
\* answer to one would be checked against, and end, the other.
TxidUnico ==
  \A i, j \in EnUso(pend) : pend[i].txid = pend[j].txid => i = j

\* A request waits in one place only, under the question it asked, and has
\* not been answered yet: grouping, solo entries, evictions and frees of the
\* slot (pending_register, pending_match, pending_expire) never leave a second
\* waiter that would be answered again.
EsperaTabla ==
  \A i \in EnUso(pend), r \in Reqs : r \in pend[i].waiters =>
    /\ pedida[r] = pend[i].key
    /\ buzon[r] = <<>>
    /\ \A j \in EnUso(pend) : r \in pend[j].waiters => i = j

EsperaCrudo ==
  \A i \in CrudosEnUso :
    /\ pedida[crudo[i].req] \in Crudas
    /\ buzon[crudo[i].req] = <<>>
    /\ \A j \in CrudosEnUso : crudo[i].req = crudo[j].req => i = j

EsperaUnica == EsperaTabla /\ EsperaCrudo

\* A client gets one answer at most, and it is about the question it asked,
\* although ids are reused while late answers to their former owners are still
\* on the wire (the check of the question in pending_match).
RespuestaPropia ==
  \A r \in Reqs :
    /\ Len(buzon[r]) <= 1
    /\ pedida[r] \in Keys /\ buzon[r] # <<>> => buzon[r][1].key = pedida[r]

\* An entry is answered only while a query of its present attempt is in flight:
\* its present id and question, sent to the upstream the attempt went to.  A
\* late answer of the upstream that timed out never passes for the retry's
\* (addr_es_upstream before pending_match).
OrigenValidado ==
  [][\A i \in EnUso(pend) :
       (\E r \in pend[i].waiters : buzon'[r] # <<>> /\ buzon'[r][1].res = "respuesta")
         => [txid |-> pend[i].txid, key |-> pend[i].key,
             up |-> Destino(pend[i].upstream_idx)] \in wire]_vars

\* No attempt outlives its timeout by more than the runs of the timer it takes
\* to reach its slot: s_acts holds ACTS_CAP actions a run and the slots are
\* visited in order.  Only the slots that the timer reaches before the first
\* ones can expire again have such a bound.
IntentoAcotado ==
  \A i \in EnUso(pend) :
    LET espera == MaxLag * (i \div ACTS_CAP)
    IN  espera < TIMEOUT => Edad(now, pend[i].enviado_en) < TIMEOUT + espera + lag

\* With room for every request, each one the forwarder takes is answered or
\* gets SERVFAIL, even if no upstream ever answers: two attempts, then
\* PENDING_ACT_FAIL.
TodosSaben ==
  \A r \in Reqs : pedida[r] \in Keys ~> pedida[r] = Nada

\* pending.h:84 describes pending_upstream_of as the upstream the entry's query
\* was sent to, for the caller to check the origin of the answer: the answer to
\* the attempt in flight, from the upstream it was sent to, completes the entry.
IntentoVigenteCasa ==
  \A m \in wire, i \in EnUso(pend) :
    /\ m.txid = pend[i].txid
    /\ m.key = pend[i].key
    /\ m.up = Destino(pend[i].upstream_idx)
    /\ CrudosEnUso = {}
    => Casa(m, i)

\* A client that asked nothing has received nothing.
LibreSinCorreo == \A r \in Reqs : pedida[r] = Nada => buzon[r] = <<>>

\* The inductive invariant: what one handler leaves for the next.
Invariante == TypeOK /\ TxidUnico /\ EsperaUnica /\ RespuestaPropia /\ LibreSinCorreo

\* The forwarder implements the service its clients see.
Servicio == INSTANCE Reenvio WITH espera <- EnTabla \cup EnCrudo

ImplementaReenvio == Servicio!Spec
=============================================================================
