------------------------------- MODULE TcpDns -------------------------------
(***************************************************************************)
(* The listener of DNS over TCP (tcp_dns.c): one task and a table of       *)
(* connections.  At each turn it waits in select, accepts one connection   *)
(* and visits the table in order: it reads what there is, serves every     *)
(* complete message, and closes what has been idle.  A query that must be  *)
(* forwarded is exchanged with the upstreams there and then, one attempt   *)
(* with each of the first two, over a socket of its own: while it waits,   *)
(* everybody else waits; so they do while a peer doesn't read its answers. *)
(* The instant read after select serves the whole turn, however long.      *)
(*                                                                         *)
(* A connection is made once.  The bytes of a connection are counted in    *)
(* halves of a message; the m-th message of connection k is <<k, m>>.      *)
(***************************************************************************)
EXTENDS Integers, Sequences, FiniteSetsExt, Barrido

CONSTANTS Conex,               \* connections, each made once at most
          Foraneas,            \* those that come from outside the local networks
          TCP_DNS_MAX_CONNS,
          BUF,                 \* halves of a message that fit in conn_t.buf
          TCP_IDLE_TIMEOUT,    \* ticks
          UP_TIMEOUT,          \* ticks an attempt waits for a datagram
          ENVIO,               \* answers that lwIP and the peer's window hold unread
          Txids,
          MaxMedias,           \* bound: halves of messages sent and not yet answered
          Libre

ASSUME TcpDnsAssumption ==
  /\ Foraneas \subseteq Conex
  /\ TCP_DNS_MAX_CONNS \in Nat \ {0}
  /\ BUF \in Nat \ {0, 1}
  /\ TCP_IDLE_TIMEOUT \in Nat \ {0}
  /\ UP_TIMEOUT \in Nat \ {0}
  /\ ENVIO \in Nat \ {0}
  /\ MaxMedias \in Nat
  /\ Txids # {}

Intentos == 1 .. 2

ConnSlots == 0 .. TCP_DNS_MAX_CONNS - 1

Mensaje == Conex \X Nat

\* The n-th half k sends.
Media(k, n) == <<k, n>>

VARIABLES estado,    \* of each connection
          fin,       \* its peer has closed it
          escritas,  \* halves its peer has sent
          sinleer,   \* answers its peer has yet to read
          leidas,    \* halves recv has taken from it
          cola,      \* connections to accept
          conns,     \* the table: connection, buffer, and now - ultimo_ms
          pc, turno, \* where the task is, and the entry it is at
          listos,    \* rfds: the connections select found readable
          retraso,   \* ticks since select returned
          inter,     \* the exchange in course
          enviando,  \* the message whose answer is being sent
          salida     \* history: the answers sent over each connection, by the
                     \* message they answer, until it is closed or they are forgotten

vars == <<estado, fin, escritas, sinleer, leidas, cola, conns, pc, turno, listos, retraso,
          inter, enviando, salida>>
pares == <<estado, fin, escritas, sinleer, cola>>

Datagrama == [de : Mensaje, up : Intentos, txid : Txids]

Conn == [k : Conex, buf : Seq(Conex \X Nat), ocio : 0 .. TCP_IDLE_TIMEOUT + 1]

\* A free entry is told by its socket, -1.
ASSUME LibreAssumption == Libre \notin Conn

\* vuelo: the answers that may still come to the socket.
Intercambio == [intento : Intentos \cup {0}, txid : Txids, tiempo : 0 .. UP_TIMEOUT,
                vuelo : SUBSET Datagrama]

SinIntercambio == [intento |-> 0, txid |-> CHOOSE x \in Txids : TRUE, tiempo |-> 0,
                   vuelo |-> {}]

TypeOK ==
  /\ estado \in [Conex -> {"fuera", "cola", "mesa", "cerrada"}]
  /\ fin \in [Conex -> BOOLEAN]
  /\ escritas \in [Conex -> Nat]
  /\ sinleer \in [Conex -> 0 .. ENVIO]
  /\ leidas \in [Conex -> Nat]
  /\ cola \in Seq(Conex)
  /\ conns \in [ConnSlots -> Conn \cup {Libre}]
  /\ pc \in {"select", "recorre", "mensajes", "espera", "envia"}
  /\ turno \in ConnSlots
  /\ listos \subseteq Conex
  /\ retraso \in 0 .. TCP_IDLE_TIMEOUT + 1
  /\ inter \in Intercambio
  /\ enviando \subseteq Mensaje
  /\ salida \in [Conex -> Seq(Mensaje)]

Init ==
  /\ estado = [k \in Conex |-> "fuera"]
  /\ fin = [k \in Conex |-> FALSE]
  /\ escritas = [k \in Conex |-> 0]
  /\ sinleer = [k \in Conex |-> 0]
  /\ leidas = [k \in Conex |-> 0]
  /\ cola = <<>>
  /\ conns = [i \in ConnSlots |-> Libre]
  /\ pc = "select" /\ turno = 0
  /\ listos = {} /\ retraso = 0
  /\ inter = SinIntercambio
  /\ enviando = {}
  /\ salida = [k \in Conex |-> <<>>]

EnMesa == {i \in ConnSlots : conns[i] # Libre}

Hasta(n) == IF n > TCP_IDLE_TIMEOUT + 1 THEN TCP_IDLE_TIMEOUT + 1 ELSE n

(***************************************************************************)
(* select and accept                                                       *)
(***************************************************************************)
PorLeer(k) == leidas[k] < escritas[k]

Legibles == {k \in Conex : (PorLeer(k) \/ fin[k]) /\ \E i \in EnMesa : conns[i].k = k}

\* The history is of this turn (see Olvida).
Olvidado == \A k \in Conex : salida[k] = <<>>

\* select returns: somebody is ready, or half a second went by.
VuelveSelect ==
  /\ pc = "select"
  /\ Olvidado
  /\ Legibles # {} \/ cola # <<>> \/ retraso > 0
  /\ listos' = Legibles
  /\ retraso' = 0
  /\ pc' = "recorre" /\ turno' = 0

\* Mutant of Envejecida: every turn counts as activity.
SinEnvejecer == conns

\* The table as this turn sees it: now is read again.
Envejecida ==
  [i \in ConnSlots |->
    IF conns[i] = Libre THEN Libre ELSE [conns[i] EXCEPT !.ocio = Hasta(@ + retraso)]]

NadieLlama ==
  /\ VuelveSelect
  /\ cola = <<>>
  /\ conns' = Envejecida
  /\ UNCHANGED <<pares, leidas, inter, enviando, salida>>

Acepta ==
  /\ VuelveSelect
  /\ cola # <<>> /\ Head(cola) \notin Foraneas
  /\ \E i \in ConnSlots :
       /\ EsPrimera(ConnSlots \ EnMesa, i)
       /\ conns' = [Envejecida EXCEPT ![i] = [k |-> Head(cola), buf |-> <<>>, ocio |-> 0]]
  /\ cola' = Tail(cola)
  /\ estado' = [estado EXCEPT ![Head(cola)] = "mesa"]
  /\ UNCHANGED <<fin, escritas, sinleer, leidas, inter, enviando, salida>>

\* No slot, or a foreign origin.
Rechaza ==
  /\ VuelveSelect
  /\ cola # <<>>
  /\ EnMesa = ConnSlots \/ Head(cola) \in Foraneas
  /\ conns' = Envejecida
  /\ cola' = Tail(cola)
  /\ estado' = [estado EXCEPT ![Head(cola)] = "cerrada"]
  /\ fin' = [fin EXCEPT ![Head(cola)] = FALSE]
  /\ escritas' = [escritas EXCEPT ![Head(cola)] = 0]
  /\ UNCHANGED <<sinleer, leidas, inter, enviando, salida>>

(***************************************************************************)
(* The visit of the table                                                  *)
(***************************************************************************)
Yo == conns[turno]

Siguiente ==
  IF turno + 1 \in ConnSlots
    THEN pc' = "recorre" /\ turno' = turno + 1 /\ UNCHANGED listos
    ELSE pc' = "select" /\ turno' = 0 /\ listos' = {}

cierra ==
  /\ conns' = [conns EXCEPT ![turno] = Libre]
  /\ estado' = [estado EXCEPT ![Yo.k] = "cerrada"]
  /\ fin' = [fin EXCEPT ![Yo.k] = FALSE]
  /\ escritas' = [escritas EXCEPT ![Yo.k] = 0]
  /\ sinleer' = [sinleer EXCEPT ![Yo.k] = 0]
  /\ leidas' = [leidas EXCEPT ![Yo.k] = 0]
  /\ salida' = [salida EXCEPT ![Yo.k] = <<>>]
  /\ UNCHANGED cola

\* Mutant of Lista: idle connections are looked for first.
ListaSinDatos == Yo.k \in listos /\ Yo.ocio <= TCP_IDLE_TIMEOUT

\* FD_ISSET
Lista == Yo.k \in listos

Salta ==
  /\ pc = "recorre"
  /\ Yo = Libre \/ (Yo # Libre /\ ~Lista /\ Yo.ocio <= TCP_IDLE_TIMEOUT)
  /\ Siguiente
  /\ UNCHANGED <<pares, leidas, conns, retraso, inter, enviando, salida>>

\* recv gives what there is and fits.
Lee ==
  /\ pc = "recorre"
  /\ Yo # Libre /\ Lista
  /\ PorLeer(Yo.k)
  /\ LET k == Yo.k
         hay == escritas[k] - leidas[k]
         cabe == BUF - Len(Yo.buf)
         n == IF hay < cabe THEN hay ELSE cabe
     IN  /\ conns' = [conns EXCEPT ![turno].ocio = 0,
                        ![turno].buf = @ \o [j \in 1 .. n |-> Media(k, leidas[k] + j)]]
         /\ leidas' = [leidas EXCEPT ![k] = @ + n]
  /\ pc' = "mensajes"
  /\ UNCHANGED <<pares, turno, listos, retraso, inter, enviando, salida>>

\* The peer closed, or reset the connection with bytes of it unread.
CierreRemoto ==
  /\ pc = "recorre"
  /\ Yo # Libre /\ Lista
  /\ fin[Yo.k]
  /\ cierra
  /\ Siguiente
  /\ UNCHANGED <<retraso, inter, enviando>>

Ociosa ==
  /\ pc = "recorre"
  /\ Yo # Libre /\ ~Lista
  /\ Yo.ocio > TCP_IDLE_TIMEOUT
  /\ cierra
  /\ Siguiente
  /\ UNCHANGED <<retraso, inter, enviando>>

(***************************************************************************)
(* The messages in the buffer: procesa_mensaje                             *)
(***************************************************************************)
Completo == Len(Yo.buf) >= 2

\* Mutant of Resto: the bytes of the message stay at the front of the buffer.
RestoSinMover(buf) == SubSeq(buf, 1, Len(buf) - 2)

\* memmove
Resto(buf) == SubSeq(buf, 3, Len(buf))

\* The message at the front of the buffer.
EnCabeza == <<Yo.buf[1][1], Yo.buf[2][2] \div 2>>

\* There is an answer to m, and envia_framed begins.
Contesta(m) ==
  /\ enviando' = {m}
  /\ pc' = "envia"
  /\ UNCHANGED <<pares, leidas, conns, turno, listos, salida>>

\* The message is malformed or dropped by the fast path (too many, for one), or it
\* has no answer to give.
Abandona == cierra /\ Siguiente /\ UNCHANGED enviando

Incompleto ==
  /\ pc = "mensajes"
  /\ ~Completo
  /\ Siguiente
  /\ UNCHANGED <<pares, leidas, conns, retraso, inter, enviando, salida>>

\* A length that is not one, as soon as it can be read, or a query dropped.
Descarta ==
  /\ pc = "mensajes"
  /\ Yo.buf # <<>>
  /\ Abandona
  /\ UNCHANGED <<retraso, inter>>

\* Blocked, or in the cache.
Responde ==
  /\ pc = "mensajes"
  /\ Completo
  /\ Contesta(EnCabeza)
  /\ UNCHANGED <<retraso, inter>>

\* lwip_send waits, without a limit, until there is room for the answer; then the
\* next message.
Envia ==
  /\ pc = "envia"
  /\ sinleer[Yo.k] < ENVIO
  /\ \E m \in enviando : salida' = [salida EXCEPT ![Yo.k] = Append(@, m)]
  /\ sinleer' = [sinleer EXCEPT ![Yo.k] = @ + 1]
  /\ enviando' = {}
  /\ conns' = [conns EXCEPT ![turno].buf = Resto(@)]
  /\ pc' = "mensajes"
  /\ UNCHANGED <<estado, fin, escritas, cola, leidas, turno, listos, retraso, inter>>

\* The connection broke.
NoEnvia ==
  /\ pc = "envia"
  /\ cierra
  /\ Siguiente
  /\ enviando' = {}
  /\ UNCHANGED <<retraso, inter>>

(***************************************************************************)
(* upstream_sync                                                           *)
(***************************************************************************)

\* The query leaves for upstream u under a random id.
Intento(x, u) ==
  \E id \in Txids :
    inter' = [x EXCEPT !.intento = u, !.txid = id, !.tiempo = 0,
                       !.vuelo = @ \cup {[de |-> EnCabeza, up |-> u, txid |-> id]}]

\* With the first upstream, or with the second if the first is not of IPv4 or
\* sendto failed.
Reenvia ==
  /\ pc = "mensajes"
  /\ Completo
  /\ \E u \in Intentos : Intento(inter, u)
  /\ pc' = "espera"
  /\ UNCHANGED <<pares, leidas, conns, turno, listos, retraso, enviando, salida>>

\* lwip_close
Cierra == SinIntercambio

\* The origin and the id of the attempt.
Valida(d) == d.up = inter.intento /\ d.txid = inter.txid

RecibeSuya ==
  /\ pc = "espera"
  /\ \E d \in inter.vuelo : Valida(d) /\ Contesta(d.de)
  /\ inter' = Cierra
  /\ UNCHANGED retraso

\* The attempt failed and left the socket as x.  The next upstream, if there is
\* one; if not SERVFAIL, or nothing at all for a query that was not parsed.
Falla(x) ==
  /\ pc = "espera"
  /\ \/ /\ inter.intento = 1
        /\ Intento(x, 2)
        /\ UNCHANGED <<pares, leidas, conns, pc, turno, listos, enviando, salida>>
     \/ /\ inter' = Cierra
        /\ Contesta(EnCabeza) \/ Abandona
  /\ UNCHANGED retraso

Vence == inter.tiempo = UP_TIMEOUT /\ Falla(inter)

\* A late answer.
RecibeTardia ==
  \E d \in inter.vuelo : ~Valida(d) /\ Falla([inter EXCEPT !.vuelo = @ \ {d}])

\* Anybody else's datagram.
RecibeBasura == Falla(inter)

(***************************************************************************)
(* The outside                                                             *)
(***************************************************************************)
Conecta(k) ==
  /\ estado[k] = "fuera"
  /\ Len(cola) < TCP_DNS_MAX_CONNS
  /\ estado' = [estado EXCEPT ![k] = "cola"]
  /\ cola' = Append(cola, k)
  /\ UNCHANGED <<fin, escritas, sinleer, leidas, conns, pc, turno, listos, retraso, inter,
                 enviando, salida>>

Escribe(k) ==
  /\ estado[k] \in {"cola", "mesa"}
  /\ ~fin[k]
  /\ FoldSet(LAMBDA x, n : n + escritas[x], 0, Conex) < MaxMedias
  /\ escritas' = [escritas EXCEPT ![k] = @ + 1]
  /\ UNCHANGED <<estado, fin, sinleer, leidas, cola, conns, pc, turno, listos, retraso, inter,
                 enviando, salida>>

\* The peer reads an answer.
Recoge(k) ==
  /\ sinleer[k] > 0
  /\ sinleer' = [sinleer EXCEPT ![k] = @ - 1]
  /\ UNCHANGED <<estado, fin, escritas, leidas, cola, conns, pc, turno, listos, retraso, inter,
                 enviando, salida>>

Cuelga(k) ==
  /\ estado[k] \in {"cola", "mesa"}
  /\ ~fin[k]
  /\ fin' = [fin EXCEPT ![k] = TRUE]
  /\ UNCHANGED <<estado, escritas, sinleer, leidas, cola, conns, pc, turno, listos, retraso,
                 inter, enviando, salida>>

\* No step of the code: before select returns, the messages answered are forgotten
\* and those after them counted from one, so that peers may go on for ever within
\* MaxMedias.
Olvida ==
  /\ pc = "select"
  /\ ~Olvidado
  /\ LET ya(k) == 2 * Len(salida[k])
     IN  /\ escritas' = [k \in Conex |-> escritas[k] - ya(k)]
         /\ leidas' = [k \in Conex |-> leidas[k] - ya(k)]
         /\ conns' = [i \in ConnSlots |->
              IF conns[i] = Libre THEN Libre
              ELSE [conns[i] EXCEPT !.buf =
                     [j \in DOMAIN @ |-> Media(conns[i].k, @[j][2] - ya(conns[i].k))]]]
  /\ salida' = [k \in Conex |-> <<>>]
  /\ UNCHANGED <<estado, fin, sinleer, cola, pc, turno, listos, retraso, inter, enviando>>

\* The task takes no time but where it waits.
Tick ==
  /\ \/ pc = "select" /\ retraso = 0 /\ UNCHANGED inter
     \/ pc = "envia" /\ sinleer[Yo.k] = ENVIO /\ UNCHANGED inter
     \/ /\ pc = "espera" /\ inter.tiempo < UP_TIMEOUT
        /\ inter' = [inter EXCEPT !.tiempo = @ + 1]
  /\ retraso' = Hasta(retraso + 1)
  /\ UNCHANGED <<pares, leidas, conns, pc, turno, listos, enviando, salida>>

tarea_tcp ==
  \/ NadieLlama
  \/ Acepta
  \/ Rechaza
  \/ Salta
  \/ Lee
  \/ CierreRemoto
  \/ Ociosa
  \/ Incompleto
  \/ Descarta
  \/ Responde
  \/ Envia
  \/ Reenvia
  \/ Vence

Next ==
  \/ tarea_tcp
  \/ NoEnvia
  \/ RecibeSuya
  \/ RecibeTardia
  \/ RecibeBasura
  \/ \E k \in Conex : Conecta(k)
  \/ \E k \in Conex : Escribe(k)
  \/ \E k \in Conex : Recoge(k)
  \/ \E k \in Conex : Cuelga(k)
  \/ Olvida
  \/ Tick

Spec == Init /\ [][Next]_vars

\* The task runs, but where it sends it waits for room.  Time passes, also while
\* peers that write keep select from waiting.  Nothing makes a peer write, read or
\* hang up, a send fail, or an upstream answer.
FairSpec == Spec /\ WF_vars(tarea_tcp) /\ WF_vars(Olvida) /\ SF_vars(Tick)

-----------------------------------------------------------------------------
(***************************************************************************)
(* Properties                                                              *)
(***************************************************************************)

\* The answers of a connection are to its own messages, one for each and in
\* their order, although messages arrive in pieces and several at once, slots
\* are used again, and late datagrams of another query may be about (memmove, and
\* the socket of its own that each exchange has).  What is in the buffer is what
\* was read and not answered yet.
EnOrden ==
  /\ TypeOK
  /\ \A k \in Conex : \A j \in 1 .. Len(salida[k]) : salida[k][j] = <<k, j>>
  /\ \A i \in EnMesa :
       LET k == conns[i].k
           ya == 2 * Len(salida[k])
       IN  conns[i].buf = [j \in 1 .. leidas[k] - ya |-> Media(k, ya + j)]
  /\ \A i, j \in EnMesa : conns[i].k = conns[j].k => i = j

\* A query is never lost to the idle timeout: where the visit of the table closes a
\* connection whose peer is there, without having read all that came, the rest came
\* after select returned; and whenever the task leaves a connection no complete
\* message of it stays in the buffer (the one `now` of a turn that may be longer
\* than the timeout, the order of the two tests, the loop over the messages).  A
\* message that is dropped closes its connection as well, with whatever came
\* behind it: that is not the timeout's doing.
CierreJusto ==
  [][\A i \in EnMesa :
       LET k == conns[i].k
       IN  /\ conns'[i] = Libre /\ pc = "recorre" /\ ~fin[k] /\ leidas[k] < escritas[k]
                => k \notin listos
           /\ turno = i /\ pc \notin {"select", "recorre"} /\ pc' \in {"select", "recorre"}
                => conns'[i] = Libre \/ Len(conns'[i].buf) < 2]_vars

\* Unless the task is left sending for ever to a peer that doesn't read, whoever
\* calls from the local networks and at last falls silent is accepted or refused
\* and gives its slot back, even if it never hangs up, however busy the others keep
\* the task, whoever is before it in the queue, and if no upstream answers.  Who
\* goes on writing, if only a byte in each timeout, may keep its slot for ever; in
\* the queue nobody reads it, and it cannot go on.
TodosPasan ==
  \A k \in Conex \ Foraneas :
    []<>(pc # "envia") /\ <>[][~Escribe(k)]_vars =>
      (estado[k] = "cola" ~> estado[k] = "cerrada")
=============================================================================
