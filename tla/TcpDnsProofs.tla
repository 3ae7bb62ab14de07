---------------------------- MODULE TcpDnsProofs ----------------------------
(***************************************************************************)
(* The answers of every connection of DNS over TCP go out in the order of  *)
(* its messages, and the visit of the table closes no connection over what *)
(* it had already sent.  The argument counts halves of messages: what is   *)
(* in the buffer of a connection is what was read of it, less two for each *)
(* answer given, so the message at its front is the next to be answered;   *)
(* whatever is under way to the socket of upstream_sync is about that      *)
(* message, and so is the answer being sent.  Forgetting the messages      *)
(* answered (Olvida) takes as much from what was sent, from what was read  *)
(* and from the numbers in the buffer.                                     *)
(***************************************************************************)
EXTENDS TcpDns, SequenceTheorems, TLAPS

USE TcpDnsAssumption, LibreAssumption

-----------------------------------------------------------------------------
(***************************************************************************)
(* The invariant                                                           *)
(***************************************************************************)

\* n halves of k that follow the first m.
Medias(k, m, n) == [j \in 1 .. n |-> Media(k, m + j)]

\* What was read of k and not answered yet.
Respondidas(k) == 2 * Len(salida[k])
Pendientes(k) == leidas[k] - Respondidas(k)

Tabla ==
  /\ \A i \in EnMesa :
       /\ conns[i].buf = Medias(conns[i].k, Respondidas(conns[i].k), Pendientes(conns[i].k))
       /\ Len(conns[i].buf) <= BUF
       /\ estado[conns[i].k] = "mesa"
  /\ \A i, j \in EnMesa : conns[i].k = conns[j].k => i = j

Salidas ==
  \A k \in Conex :
    /\ Respondidas(k) <= leidas[k] /\ leidas[k] <= escritas[k]
    /\ \A j \in 1 .. Len(salida[k]) : salida[k][j] = <<k, j>>

\* The connections at the door: nothing was read of them, and each is there once.
Puerta ==
  /\ \A k \in Conex : estado[k] \in {"fuera", "cola"} => leidas[k] = 0
  /\ \A n \in 1 .. Len(cola) : estado[cola[n]] = "cola"
  /\ \A m, n \in 1 .. Len(cola) : cola[m] = cola[n] => m = n

\* The exchange is about the message at the front of the buffer being served, and so
\* is the answer being sent.
Turno ==
  /\ pc \in {"mensajes", "espera", "envia"} => Yo # Libre
  /\ pc = "espera" => Completo /\ inter.intento # 0 /\ \A d \in inter.vuelo : d.de = EnCabeza
  /\ pc # "espera" => inter.vuelo = {}
  /\ pc = "envia" => Completo /\ enviando = {EnCabeza}

Invariante == TypeOK /\ Tabla /\ Salidas /\ Puerta /\ Turno

-----------------------------------------------------------------------------
(***************************************************************************)
(* Halves of messages                                                      *)
(***************************************************************************)
LEMMA MediasTipo ==
  ASSUME NEW k \in Conex, NEW m \in Nat, NEW n \in Nat
  PROVE  /\ Medias(k, m, n) \in Seq(Conex \X Nat) /\ Len(Medias(k, m, n)) = n
         /\ \A j \in 1 .. n : Medias(k, m, n)[j] = <<k, m + j>>
  BY DEF Medias, Media

\* recv puts what it reads behind what there was.
LEMMA MediasMas ==
  ASSUME NEW k \in Conex, NEW m \in Nat, NEW n \in Nat, NEW p \in Nat,
         NEW t, t = [j \in 1 .. p |-> Media(k, m + n + j)]
  PROVE  Medias(k, m, n) \o t = Medias(k, m, n + p)
  <1>1. t \in Seq(Conex \X Nat) /\ Len(t) = p /\ \A j \in 1 .. p : t[j] = <<k, m + n + j>>
    BY DEF Media
  <1> DEFINE s == Medias(k, m, n)
  <1> HIDE DEF s
  <1>a. s \in Seq(Conex \X Nat) /\ Len(s) = n /\ \A j \in 1 .. n : s[j] = <<k, m + j>>
    BY MediasTipo DEF s
  <1>2. /\ s \o t \in Seq(Conex \X Nat) /\ Len(s \o t) = n + p
        /\ \A j \in 1 .. n + p : (s \o t)[j] = IF j <= n THEN s[j] ELSE t[j - n]
    <2>1. /\ s \o t \in Seq(Conex \X Nat) /\ Len(s \o t) = Len(s) + Len(t)
          /\ \A j \in 1 .. Len(s) + Len(t) : (s \o t)[j] = IF j <= Len(s) THEN s[j] ELSE t[j - Len(s)]
      <3> DEFINE S == Conex \X Nat
      <3>1. s \in Seq(S) /\ t \in Seq(S)
        BY <1>1, <1>a
      <3> HIDE DEF S
      <3>2. /\ s \o t \in Seq(S) /\ Len(s \o t) = Len(s) + Len(t)
            /\ \A j \in 1 .. Len(s) + Len(t) : (s \o t)[j] = IF j <= Len(s) THEN s[j] ELSE t[j - Len(s)]
        BY ONLY <3>1, ConcatProperties, Zenon
      <3>3. QED
        BY <3>2 DEF S
    <2>2. QED
      BY <1>1, <1>a, <2>1
  <1>3. ASSUME NEW j \in 1 .. n + p
        PROVE  (s \o t)[j] = <<k, m + j>>
    <2>1. (s \o t)[j] = IF j <= n THEN s[j] ELSE t[j - n]
      BY <1>2
    <2>2. CASE j <= n
      <3>1. j \in 1 .. n
        BY ONLY n \in Nat, p \in Nat, j \in 1 .. n + p, <2>2
      <3>2. s[j] = <<k, m + j>>
        BY <1>a, <3>1, Zenon
      <3>3. QED
        BY <2>1, <2>2, <3>2, Zenon
    <2>3. CASE ~(j <= n)
      <3>1. j - n \in 1 .. p /\ m + n + (j - n) = m + j
        BY ONLY m \in Nat, n \in Nat, p \in Nat, j \in 1 .. n + p, <2>3
      <3>2. t[j - n] = <<k, m + n + (j - n)>>
        BY <1>1, <3>1, Zenon
      <3>3. QED
        BY <2>1, <2>3, <3>1, <3>2, Zenon
    <2>4. QED
      BY <2>2, <2>3, Zenon
  <1>4. Medias(k, m, n + p) \in Seq(Conex \X Nat) /\ Len(Medias(k, m, n + p)) = n + p
        /\ \A j \in 1 .. n + p : Medias(k, m, n + p)[j] = <<k, m + j>>
    <2>1. n + p \in Nat
      OBVIOUS
    <2>2. QED
      BY <2>1, MediasTipo, Zenon
  <1> DEFINE u == Medias(k, m, n + p)
  <1> HIDE DEF u
  <1>5. u \in Seq(Conex \X Nat) /\ Len(u) = n + p /\ \A j \in 1 .. n + p : u[j] = <<k, m + j>>
    BY <1>4 DEF u
  <1>6. s \o t = u
    <2>1. Len(s \o t) = Len(u) /\ \A j \in 1 .. Len(s \o t) : (s \o t)[j] = u[j]
      BY <1>2, <1>3, <1>5
    <2>2. QED
      BY <1>2, <1>5, <2>1, SeqEqual, Zenon
  <1>7. QED
    BY <1>6 DEF s, u

\* memmove takes the message at the front away.
LEMMA MediasMenos ==
  ASSUME NEW k \in Conex, NEW m \in Nat, NEW n \in Nat, n >= 2
  PROVE  Resto(Medias(k, m, n)) = Medias(k, m + 2, n - 2)
  <1> DEFINE s == Medias(k, m, n)
             r == SubSeq(s, 3, n)
  <1>1. s \in Seq(Conex \X Nat) /\ Len(s) = n /\ \A j \in 1 .. n : s[j] = <<k, m + j>>
    BY MediasTipo
  <1>2. /\ r \in Seq(Conex \X Nat)
        /\ Len(r) = IF 3 <= n THEN n - 3 + 1 ELSE 0
        /\ \A j \in 1 .. n - 3 + 1 : r[j] = s[3 + j - 1]
    <2>1. \A i \in 3 .. n : s[i] \in Conex \X Nat
      BY <1>1
    <2>2. QED
      BY <2>1, SubSeqProperties DEF r
  <1>3. Len(r) = n - 2 /\ \A j \in 1 .. n - 2 : r[j] = <<k, m + 2 + j>>
    BY <1>1, <1>2
  <1> DEFINE t == Medias(k, m + 2, n - 2)
  <1>4. t \in Seq(Conex \X Nat) /\ Len(t) = n - 2 /\ \A j \in 1 .. n - 2 : t[j] = <<k, m + 2 + j>>
    <2>1. m + 2 \in Nat /\ n - 2 \in Nat
      OBVIOUS
    <2>2. QED
      BY <2>1, MediasTipo, Zenon
  <1>5. Resto(s) = r
    BY <1>1 DEF Resto
  <1> HIDE DEF s, r, t
  <1>6. r = t
    <2>1. Len(r) = Len(t) /\ \A j \in 1 .. Len(r) : r[j] = t[j]
      BY <1>3, <1>4
    <2>2. QED
      BY <1>2, <1>4, <2>1, SeqEqual, Zenon
  <1>7. QED
    BY <1>5, <1>6 DEF s, t

-----------------------------------------------------------------------------
(***************************************************************************)
(* The message at the front                                                *)
(***************************************************************************)
LEMMA LibreNo ==
  ASSUME TypeOK, NEW i \in EnMesa
  PROVE  conns[i] \in Conn /\ conns[i].k \in Conex /\ i \in ConnSlots
  BY DEF TypeOK, EnMesa, Conn

LEMMA MitadPar ==
  ASSUME NEW n \in Nat
  PROVE  (2 * n + 2) \div 2 = n + 1
  OBVIOUS

\* It is the next of its connection to be answered.
LEMMA Cabeza ==
  ASSUME TypeOK, Tabla, Salidas, Yo # Libre, Completo
  PROVE  /\ turno \in EnMesa /\ Yo.k \in Conex
         /\ EnCabeza = <<Yo.k, Len(salida[Yo.k]) + 1>>
         /\ EnCabeza \in Mensaje
  <1>1. turno \in EnMesa /\ Yo \in Conn /\ Yo.k \in Conex
    BY DEF TypeOK, EnMesa, Yo, Conn
  <1> DEFINE k == Yo.k
             n == Len(salida[k])
  <1>2. n \in Nat /\ leidas[k] \in Nat /\ Respondidas(k) = 2 * n /\ 2 * n <= leidas[k]
    BY <1>1 DEF TypeOK, Salidas, Respondidas
  <1>3. Yo.buf = Medias(k, 2 * n, leidas[k] - 2 * n)
    BY <1>1, <1>2 DEF Tabla, Yo, Pendientes
  <1> HIDE DEF k, n
  <1>4. 2 * n \in Nat /\ leidas[k] - 2 * n \in Nat /\ k \in Conex
    BY <1>1, <1>2 DEF k
  <1>5. /\ Len(Yo.buf) = leidas[k] - 2 * n
        /\ \A j \in 1 .. leidas[k] - 2 * n : Yo.buf[j] = <<k, 2 * n + j>>
    <2> DEFINE a == 2 * n
               b == leidas[k] - 2 * n
    <2> HIDE DEF a, b
    <2>1. a \in Nat /\ b \in Nat
      BY <1>4 DEF a, b
    <2>2. /\ Len(Medias(k, a, b)) = b
          /\ \A j \in 1 .. b : Medias(k, a, b)[j] = <<k, a + j>>
      BY <1>4, <2>1, MediasTipo, Zenon
    <2>3. QED
      BY <1>3, <2>2 DEF a, b
  <1>6. leidas[k] - 2 * n >= 2
    BY <1>5 DEF Completo
  <1>7. Yo.buf[1] = <<k, 2 * n + 1>> /\ Yo.buf[2] = <<k, 2 * n + 2>>
    BY <1>4, <1>5, <1>6
  <1>8. (2 * n + 2) \div 2 = n + 1
    BY <1>2, MitadPar
  <1>9. EnCabeza = <<k, n + 1>>
    BY <1>7, <1>8 DEF EnCabeza
  <1>10. QED
    BY <1>1, <1>2, <1>9 DEF k, n, Mensaje

\* An attempt is about it, like the ones before.
LEMMA IntentoPasa ==
  ASSUME NEW x \in Intercambio, \A d \in x.vuelo : d.de = EnCabeza, EnCabeza \in Mensaje,
         NEW u \in Intentos, Intento(x, u)
  PROVE  /\ inter' \in Intercambio /\ inter'.intento # 0
         /\ \A d \in inter'.vuelo : d.de = EnCabeza
  <1>1. PICK id \in Txids :
          inter' = [x EXCEPT !.intento = u, !.txid = id, !.tiempo = 0,
                             !.vuelo = @ \cup {[de |-> EnCabeza, up |-> u, txid |-> id]}]
    BY DEF Intento
  <1> DEFINE e == [de |-> EnCabeza, up |-> u, txid |-> id]
  <1>2. e \in Datagrama /\ e.de = EnCabeza
    BY DEF Datagrama
  <1> HIDE DEF e
  <1>3. 0 \in 0 .. UP_TIMEOUT /\ u # 0
    BY DEF Intentos
  <1>4. /\ inter'.intento = u /\ inter'.txid = id /\ inter'.tiempo = 0
        /\ inter'.vuelo = x.vuelo \cup {e}
        /\ inter' = [intento |-> u, txid |-> id, tiempo |-> 0, vuelo |-> x.vuelo \cup {e}]
    BY <1>1 DEF Intercambio, e
  <1>5. x.vuelo \cup {e} \subseteq Datagrama
    BY <1>2 DEF Intercambio
  <1>6. inter' \in Intercambio
    BY <1>3, <1>4, <1>5 DEF Intercambio
  <1>7. QED
    BY <1>2, <1>3, <1>4, <1>6

LEMMA SinIntercambioTipo ==
  SinIntercambio \in Intercambio /\ SinIntercambio.vuelo = {} /\ SinIntercambio.intento = 0
  <1>1. (CHOOSE x \in Txids : TRUE) \in Txids
    OBVIOUS
  <1>2. 0 \in 0 .. UP_TIMEOUT
    OBVIOUS
  <1>3. QED
    BY <1>1, <1>2 DEF SinIntercambio, Intercambio

-----------------------------------------------------------------------------
(***************************************************************************)
(* What the steps do to the table                                          *)
(***************************************************************************)

\* No entry comes or goes: it is enough to look at each one.
LEMMA MesaCada ==
  ASSUME Tabla, EnMesa' = EnMesa,
         \A i \in EnMesa :
           /\ conns'[i].k = conns[i].k
           /\ conns'[i].buf = Medias(conns[i].k, 2 * Len(salida'[conns[i].k]),
                                     leidas'[conns[i].k] - 2 * Len(salida'[conns[i].k]))
           /\ Len(conns'[i].buf) <= BUF
           /\ estado'[conns[i].k] = "mesa"
  PROVE  Tabla'
  <1>1. ASSUME NEW i \in EnMesa
        PROVE  /\ conns'[i].buf = Medias(conns'[i].k, 2 * Len(salida'[conns'[i].k]),
                                         leidas'[conns'[i].k] - 2 * Len(salida'[conns'[i].k]))
               /\ Len(conns'[i].buf) <= BUF
               /\ estado'[conns'[i].k] = "mesa"
    BY <1>1, Zenon
  <1>2. ASSUME NEW i \in EnMesa, NEW j \in EnMesa, conns'[i].k = conns'[j].k
        PROVE  i = j
    <2>1. conns[i].k = conns[j].k
      BY <1>2, Zenon
    <2>2. QED
      BY <2>1, Zenon DEF Tabla
  <1>3. QED
    BY <1>1, <1>2, Zenon DEF Tabla, Respondidas, Pendientes

\* Buffers and answers stay as they were, whatever else changes.
LEMMA MesaIgual ==
  ASSUME Invariante,
         \A i \in ConnSlots : /\ conns'[i] = Libre <=> conns[i] = Libre
                              /\ conns[i] # Libre => /\ conns'[i].k = conns[i].k
                                                     /\ conns'[i].buf = conns[i].buf,
         UNCHANGED <<leidas, salida>>,
         \A k \in Conex : escritas'[k] = escritas[k] \/ leidas[k] <= escritas'[k],
         \A k \in Conex : estado[k] = "mesa" => estado'[k] = "mesa"
  PROVE  Tabla' /\ Salidas'
  <1>1. TypeOK /\ Tabla /\ Salidas
    BY DEF Invariante
  <1>2. EnMesa' = EnMesa
    BY DEF EnMesa
  <1>3. ASSUME NEW i \in EnMesa
        PROVE  /\ conns'[i].k = conns[i].k /\ conns'[i].buf = conns[i].buf
               /\ conns[i].k \in Conex
    BY <1>1, <1>3, LibreNo DEF EnMesa
  <1>4. Salidas'
    BY <1>1 DEF Salidas, Respondidas
  <1>5. Tabla'
    <2>1. ASSUME NEW i \in EnMesa
          PROVE  /\ conns'[i].k = conns[i].k
                 /\ conns'[i].buf = Medias(conns[i].k, 2 * Len(salida'[conns[i].k]),
                                           leidas'[conns[i].k] - 2 * Len(salida'[conns[i].k]))
                 /\ Len(conns'[i].buf) <= BUF
                 /\ estado'[conns[i].k] = "mesa"
      BY <1>1, <1>3, Zenon DEF Tabla, Respondidas, Pendientes
    <2>2. QED
      BY <1>1, <1>2, <2>1, MesaCada, Zenon
  <1>6. QED
    BY <1>4, <1>5

\* A connection is closed.
LEMMA CierraPasa ==
  ASSUME Invariante, Yo # Libre, cierra
  PROVE  /\ conns' \in [ConnSlots -> Conn \cup {Libre}]
         /\ estado' \in [Conex -> {"fuera", "cola", "mesa", "cerrada"}]
         /\ fin' \in [Conex -> BOOLEAN]
         /\ escritas' \in [Conex -> Nat] /\ leidas' \in [Conex -> Nat]
         /\ sinleer' \in [Conex -> 0 .. ENVIO]
         /\ salida' \in [Conex -> Seq(Mensaje)]
         /\ Tabla' /\ Salidas' /\ Puerta'
         /\ conns'[turno] = Libre
         /\ \A i \in EnMesa : i # turno => conns'[i] = conns[i]
  <1>1. TypeOK /\ Tabla /\ Salidas /\ Puerta
    BY DEF Invariante
  <1>2. turno \in EnMesa /\ turno \in ConnSlots
    BY <1>1 DEF TypeOK, EnMesa, Yo
  <1> DEFINE k == Yo.k
  <1>3. k \in Conex /\ estado[k] = "mesa" /\ k = conns[turno].k
    BY <1>1, <1>2, LibreNo DEF Tabla, Yo
  <1>4. /\ conns' = [conns EXCEPT ![turno] = Libre]
        /\ estado' = [estado EXCEPT ![k] = "cerrada"]
        /\ fin' = [fin EXCEPT ![k] = FALSE]
        /\ escritas' = [escritas EXCEPT ![k] = 0]
        /\ sinleer' = [sinleer EXCEPT ![k] = 0]
        /\ leidas' = [leidas EXCEPT ![k] = 0]
        /\ salida' = [salida EXCEPT ![k] = <<>>]
        /\ cola' = cola
    BY DEF cierra
  <1> HIDE DEF k
  <1>5. <<>> \in Seq(Mensaje) /\ Len(<<>>) = 0
    OBVIOUS
  <1>6. /\ conns' \in [ConnSlots -> Conn \cup {Libre}]
        /\ estado' \in [Conex -> {"fuera", "cola", "mesa", "cerrada"}]
        /\ fin' \in [Conex -> BOOLEAN]
        /\ escritas' \in [Conex -> Nat] /\ leidas' \in [Conex -> Nat]
    BY <1>1, <1>4 DEF TypeOK
  <1>6a. sinleer' \in [Conex -> 0 .. ENVIO]
    <2>1. 0 \in 0 .. ENVIO
      OBVIOUS
    <2>2. QED
      BY <1>1, <1>4, <2>1 DEF TypeOK
  <1>7. salida' \in [Conex -> Seq(Mensaje)]
    BY <1>1, <1>4, <1>5 DEF TypeOK
  <1>8. ASSUME NEW h \in Conex, h # k
        PROVE  /\ estado'[h] = estado[h] /\ leidas'[h] = leidas[h] /\ salida'[h] = salida[h]
               /\ escritas'[h] = escritas[h]
               /\ Respondidas(h)' = Respondidas(h) /\ Pendientes(h)' = Pendientes(h)
    BY <1>1, <1>4, <1>8 DEF TypeOK, Respondidas, Pendientes
  <1>9. /\ estado'[k] = "cerrada" /\ leidas'[k] = 0 /\ escritas'[k] = 0
        /\ salida'[k] = <<>> /\ Len(salida'[k]) = 0
    BY <1>1, <1>3, <1>4, <1>5 DEF TypeOK
  <1>10. Salidas'
    <2>1. 2 * 0 <= 0 /\ 1 .. 0 = {}
      OBVIOUS
    <2> SUFFICES ASSUME NEW h \in Conex
                 PROVE  /\ 2 * Len(salida'[h]) <= leidas'[h] /\ leidas'[h] <= escritas'[h]
                        /\ \A j \in 1 .. Len(salida'[h]) : salida'[h][j] = <<h, j>>
      BY DEF Salidas, Respondidas
    <2>2. CASE h = k
      <3>1. Len(salida'[h]) = 0 /\ leidas'[h] = 0 /\ escritas'[h] = 0
        BY <1>9, <2>2
      <3>2. QED
        BY <2>1, <3>1
    <2>3. CASE h # k
      BY <1>1, <1>8, <2>3 DEF Salidas, Respondidas
    <2>4. QED
      BY <2>2, <2>3
  <1>11. Puerta'
    <2>1. \A h \in Conex : estado'[h] \in {"fuera", "cola"} => leidas'[h] = 0
      BY <1>1, <1>8, <1>9 DEF Puerta
    <2>2. \A n \in 1 .. Len(cola) : estado'[cola[n]] = "cola"
      <3> SUFFICES ASSUME NEW n \in 1 .. Len(cola)
                   PROVE  estado'[cola[n]] = "cola"
        OBVIOUS
      <3>1. cola[n] \in Conex /\ estado[cola[n]] = "cola"
        BY <1>1 DEF TypeOK, Puerta
      <3>2. QED
        BY <1>3, <1>8, <3>1
    <2>3. QED
      BY <1>1, <1>4, <2>1, <2>2 DEF Puerta
  <1>12. EnMesa' = EnMesa \ {turno} /\ \A i \in EnMesa : i # turno => conns'[i] = conns[i]
    BY <1>1, <1>2, <1>4 DEF TypeOK, EnMesa
  <1>13. \A i \in EnMesa' : conns'[i] = conns[i] /\ conns[i].k \in Conex /\ conns[i].k # k
    BY <1>1, <1>2, <1>3, <1>12, LibreNo DEF Tabla
  <1>14. Tabla'
    BY <1>1, <1>8, <1>12, <1>13 DEF Tabla
  <1>15. conns'[turno] = Libre
    BY <1>1, <1>2, <1>4 DEF TypeOK
  <1>16. QED
    BY <1>6, <1>6a, <1>7, <1>10, <1>11, <1>12, <1>14, <1>15

\* The answer to the message at the front begins to be sent.
LEMMA ContestaPasa ==
  ASSUME Invariante, Yo # Libre, Completo, Contesta(EnCabeza),
         inter' \in Intercambio, inter'.vuelo = {}, UNCHANGED retraso
  PROVE  Invariante'
  <1>1. /\ TypeOK /\ Tabla /\ Salidas /\ Puerta
        /\ enviando' = {EnCabeza} /\ pc' = "envia"
        /\ UNCHANGED <<estado, fin, escritas, sinleer, cola, leidas, conns, turno, listos, salida>>
    BY DEF Invariante, Contesta, pares
  <1>2. EnCabeza \in Mensaje
    BY <1>1, Cabeza
  <1>3. Tabla' /\ Salidas' /\ Puerta'
    BY <1>1, MesaIgual DEF Puerta
  <1>4. TypeOK'
    BY <1>1, <1>2 DEF TypeOK
  <1>5. Turno'
    BY <1>1 DEF Turno, Yo, Completo, EnCabeza
  <1>6. QED
    BY <1>3, <1>4, <1>5 DEF Invariante

\* It is sent, and the message leaves the buffer.
LEMMA EnviaPasa ==
  ASSUME Invariante, Envia
  PROVE  Invariante'
  <1>1. /\ TypeOK /\ Tabla /\ Salidas /\ Puerta
        /\ Yo # Libre /\ Completo /\ enviando = {EnCabeza} /\ inter.vuelo = {}
    BY DEF Invariante, Envia, Turno
  <1> DEFINE k == Yo.k
             n == Len(salida[k])
             r == [Yo EXCEPT !.buf = Resto(@)]
  <1>2. /\ turno \in EnMesa /\ turno \in ConnSlots /\ k \in Conex /\ Yo \in Conn
        /\ EnCabeza = <<k, n + 1>> /\ EnCabeza \in Mensaje /\ k = conns[turno].k
    BY <1>1, Cabeza, LibreNo DEF Yo
  <1>3. /\ salida' = [salida EXCEPT ![k] = Append(@, EnCabeza)]
        /\ conns' = [conns EXCEPT ![turno].buf = Resto(@)]
        /\ sinleer' = [sinleer EXCEPT ![k] = @ + 1] /\ sinleer[k] < ENVIO
        /\ pc' = "mensajes" /\ enviando' = {}
        /\ UNCHANGED <<estado, fin, escritas, cola, leidas, turno, listos, retraso, inter>>
    BY <1>1 DEF Envia
  <1>4. salida[k] \in Seq(Mensaje) /\ n \in Nat /\ leidas[k] \in Nat
    BY <1>1, <1>2 DEF TypeOK
  <1>5. conns' = [conns EXCEPT ![turno] = r]
    BY <1>1, <1>2, <1>3 DEF TypeOK, Yo
  <1>6. r.k = k /\ r.buf = Resto(Yo.buf) /\ r.ocio = Yo.ocio
        /\ r = [k |-> k, buf |-> Resto(Yo.buf), ocio |-> Yo.ocio]
    BY <1>2, SMTT(60) DEF Conn
  <1>7. Yo.buf = Medias(k, 2 * n, leidas[k] - 2 * n) /\ 2 * n <= leidas[k] /\ Len(Yo.buf) <= BUF
    BY <1>1, <1>2 DEF Tabla, Salidas, Respondidas, Pendientes, Yo
  <1> DEFINE a == 2 * n
             b == leidas[k] - 2 * n
             s == Append(salida[k], EnCabeza)
  <1>8. /\ s \in Seq(Mensaje) /\ Len(s) = n + 1
        /\ \A j \in 1 .. n : s[j] = salida[k][j]
        /\ s[n + 1] = <<k, n + 1>>
    BY <1>2, <1>4, AppendProperties
  <1>9. salida'[k] = s /\ salida' \in [Conex -> Seq(Mensaje)]
        /\ \A h \in Conex : h # k => salida'[h] = salida[h]
    BY <1>1, <1>2, <1>3, <1>8 DEF TypeOK
  <1> HIDE DEF k, r, s
  <1>10. /\ a \in Nat /\ b \in Nat /\ b >= 2 /\ b <= BUF
         /\ a + 2 = 2 * (n + 1) /\ b - 2 = leidas[k] - 2 * (n + 1) /\ 2 * (n + 1) <= leidas[k]
    <2> HIDE DEF n
    <2>1. a \in Nat /\ b \in Nat
      BY <1>4, <1>7
    <2>2. Len(Medias(k, a, b)) = b
      <3> HIDE DEF a, b
      <3>1. QED
        BY <1>2, <2>1, MediasTipo, Zenon
    <2>3. Len(Yo.buf) = b
      BY <1>7, <2>2
    <2>4. b >= 2
      BY <1>1, <2>3 DEF Completo
    <2>5. QED
      BY <1>4, <1>7, <2>1, <2>3, <2>4
  <1>11. Yo.buf = Medias(k, a, b)
    BY <1>7
  <1>12. r.buf = Medias(k, a + 2, b - 2) /\ Len(r.buf) = b - 2 /\ r.buf \in Seq(Conex \X Nat)
    <2> HIDE DEF a, b
    <2>1. a + 2 \in Nat /\ b - 2 \in Nat
      BY <1>10
    <2>2. Resto(Medias(k, a, b)) = Medias(k, a + 2, b - 2)
      BY <1>2, <1>10, MediasMenos, ZenonT(60)
    <2>3. Len(Medias(k, a + 2, b - 2)) = b - 2 /\ Medias(k, a + 2, b - 2) \in Seq(Conex \X Nat)
      BY <1>2, <2>1, MediasTipo, Zenon
    <2>4. QED
      BY <1>6, <1>11, <2>2, <2>3
  <1>13. 2 * Len(salida'[k]) = a + 2 /\ leidas'[k] - 2 * Len(salida'[k]) = b - 2
    <2>1. Len(salida'[k]) = n + 1 /\ leidas'[k] = leidas[k]
      BY <1>3, <1>8, <1>9
    <2>2. QED
      BY <1>10, <2>1
  <1>14. Len(r.buf) <= BUF
    <2> HIDE DEF a, b
    <2>1. QED
      BY <1>10, <1>12
  <1>15. \A h \in Conex : h # k => salida'[h] = salida[h] /\ leidas'[h] = leidas[h]
    BY <1>3, <1>9
  <1>16. r \in Conn /\ conns' \in [ConnSlots -> Conn \cup {Libre}] /\ conns'[turno] = r
         /\ \A i \in ConnSlots : i # turno => conns'[i] = conns[i]
    <2>1. r \in Conn
      BY <1>2, <1>6, <1>12 DEF Conn
    <2>2. QED
      BY <1>1, <1>2, <1>5, <2>1 DEF TypeOK
  <1>17. EnMesa' = EnMesa
    BY <1>2, <1>16 DEF EnMesa
  <1>18. Tabla'
    <2>1. ASSUME NEW i \in EnMesa
          PROVE  /\ conns'[i].k = conns[i].k /\ conns[i].k \in Conex
                 /\ conns'[i].buf = Medias(conns[i].k, 2 * Len(salida'[conns[i].k]),
                                           leidas'[conns[i].k] - 2 * Len(salida'[conns[i].k]))
                 /\ Len(conns'[i].buf) <= BUF /\ estado'[conns[i].k] = "mesa"
      <3>1. CASE i = turno
        <4>1. conns[i].k = k /\ conns'[i] = r /\ estado[k] = "mesa"
          BY <1>1, <1>2, <1>16, <3>1 DEF Tabla
        <4>2. QED
          BY <1>2, <1>3, <1>6, <1>12, <1>13, <1>14, <4>1
      <3>2. CASE i # turno
        <4>1. conns'[i] = conns[i] /\ conns[i].k \in Conex /\ conns[i].k # k
          BY <1>1, <1>2, <1>16, <3>2, LibreNo DEF Tabla
        <4>2. QED
          BY <1>1, <1>3, <1>15, <4>1 DEF Tabla, Respondidas, Pendientes
      <3>3. QED
        BY <3>1, <3>2
    <2>2. QED
      BY <1>1, <1>17, <2>1, MesaCada, Zenon
  <1>19. Salidas'
    <2> SUFFICES ASSUME NEW h \in Conex
                 PROVE  /\ 2 * Len(salida'[h]) <= leidas'[h] /\ leidas'[h] <= escritas'[h]
                        /\ \A j \in 1 .. Len(salida'[h]) : salida'[h][j] = <<h, j>>
      BY DEF Salidas, Respondidas
    <2>1. CASE h = k
      <3>1. 2 * Len(salida'[k]) <= leidas'[k] /\ leidas'[k] <= escritas'[k]
        <4>1. leidas[k] <= escritas[k]
          BY <1>1, <1>2 DEF Salidas
        <4>2. QED
          BY <1>3, <1>8, <1>9, <1>10, <4>1
      <3>2. \A j \in 1 .. n : s[j] = <<k, j>>
        BY <1>1, <1>2, <1>8 DEF Salidas
      <3>3. \A j \in 1 .. n + 1 : j \in 1 .. n \/ j = n + 1
        BY <1>4
      <3>4. ASSUME NEW j \in 1 .. n + 1
            PROVE  s[j] = <<k, j>>
        <4>1. CASE j \in 1 .. n
          BY <3>2, <4>1
        <4>2. CASE j = n + 1
          BY <1>8, <4>2
        <4>3. QED
          BY <3>3, <4>1, <4>2, Zenon
      <3>5. QED
        BY <1>8, <1>9, <2>1, <3>1, <3>4
    <2>2. CASE h # k
      BY <1>1, <1>3, <1>9, <2>2 DEF Salidas, Respondidas
    <2>3. QED
      BY <2>1, <2>2
  <1>20. TypeOK'
    <2>1. sinleer' \in [Conex -> 0 .. ENVIO]
      <3>1. sinleer[k] + 1 \in 0 .. ENVIO
        BY <1>1, <1>2, <1>3, SMTT(60) DEF TypeOK
      <3>2. QED
        BY <1>1, <1>3, <3>1 DEF TypeOK
    <2>2. QED
      BY <1>1, <1>3, <1>9, <1>16, <2>1 DEF TypeOK
  <1>21. Puerta'
    BY <1>1, <1>3 DEF Puerta
  <1>22. Turno'
    BY <1>1, <1>2, <1>3, <1>16 DEF Turno, Yo
  <1>23. QED
    BY <1>18, <1>19, <1>20, <1>21, <1>22 DEF Invariante

-----------------------------------------------------------------------------
(***************************************************************************)
(* One lemma for each kind of step                                         *)
(***************************************************************************)
LEMMA SiguientePasa ==
  ASSUME TypeOK, Siguiente
  PROVE  /\ pc' \in {"select", "recorre"} /\ turno' \in ConnSlots /\ listos' \subseteq Conex
  <1>1. 0 \in ConnSlots
    BY DEF ConnSlots
  <1>2. QED
    BY <1>1 DEF Siguiente, TypeOK

\* The visit of a connection ends with its closing.
LEMMA CierraSiguientePasa ==
  ASSUME Invariante, Yo # Libre, cierra, Siguiente, UNCHANGED retraso,
         inter' \in Intercambio, inter'.vuelo = {}, enviando' \subseteq Mensaje
  PROVE  Invariante'
  <1>1. TypeOK /\ cola' = cola
    BY DEF Invariante, cierra
  <1>2. TypeOK'
    BY <1>1, CierraPasa, SiguientePasa DEF TypeOK
  <1>3. Turno'
    BY <1>1, SiguientePasa DEF Turno
  <1>4. QED
    BY <1>2, <1>3, CierraPasa DEF Invariante

LEMMA HastaTipo ==
  ASSUME NEW n \in Nat
  PROVE  Hasta(n) \in 0 .. TCP_IDLE_TIMEOUT + 1
  BY DEF Hasta

\* The ages of a turn.
LEMMA EnvejecidaTipo ==
  ASSUME TypeOK
  PROVE  /\ Envejecida \in [ConnSlots -> Conn \cup {Libre}]
         /\ \A i \in ConnSlots : /\ Envejecida[i] = Libre <=> conns[i] = Libre
                                 /\ conns[i] # Libre => /\ Envejecida[i].k = conns[i].k
                                                        /\ Envejecida[i].buf = conns[i].buf
  <1>1. ASSUME NEW i \in ConnSlots, conns[i] # Libre
        PROVE  /\ Envejecida[i] \in Conn
               /\ Envejecida[i].k = conns[i].k /\ Envejecida[i].buf = conns[i].buf
    <2>1. conns[i] \in Conn /\ conns[i].ocio \in Nat /\ retraso \in Nat
      BY <1>1 DEF TypeOK, Conn
    <2>2. conns[i].ocio + retraso \in Nat
      BY <2>1
    <2> DEFINE n == Hasta(conns[i].ocio + retraso)
    <2>3. n \in 0 .. TCP_IDLE_TIMEOUT + 1
      BY <2>2, HastaTipo, Zenon
    <2>4. Envejecida[i] = [conns[i] EXCEPT !.ocio = n]
      BY <1>1 DEF Envejecida
    <2> HIDE DEF n
    <2>5. QED
      BY <2>1, <2>3, <2>4 DEF Conn
  <1>2. ASSUME NEW i \in ConnSlots, conns[i] = Libre
        PROVE  Envejecida[i] = Libre
    BY <1>2 DEF Envejecida
  <1>3. Envejecida \in [ConnSlots -> Conn \cup {Libre}]
    <2>1. \A i \in ConnSlots : Envejecida[i] \in Conn \cup {Libre}
      BY <1>1, <1>2
    <2>2. QED
      BY <2>1 DEF Envejecida
  <1>4. QED
    BY <1>1, <1>2, <1>3

LEMMA VuelvePasa ==
  ASSUME TypeOK, VuelveSelect
  PROVE  /\ listos' \subseteq Conex /\ retraso' \in 0 .. TCP_IDLE_TIMEOUT + 1
         /\ pc' = "recorre" /\ turno' \in ConnSlots /\ pc = "select"
  <1>1. 0 \in ConnSlots /\ 0 \in 0 .. TCP_IDLE_TIMEOUT + 1
    BY DEF ConnSlots
  <1>2. QED
    BY <1>1 DEF VuelveSelect, Legibles

LEMMA NadieLlamaPasa ==
  ASSUME Invariante, NadieLlama
  PROVE  Invariante'
  <1>1. /\ TypeOK /\ Puerta /\ Turno /\ VuelveSelect /\ conns' = Envejecida
        /\ UNCHANGED <<estado, fin, escritas, sinleer, cola, leidas, inter, enviando, salida>>
    BY DEF Invariante, NadieLlama, pares
  <1>2. Tabla' /\ Salidas'
    BY <1>1, EnvejecidaTipo, MesaIgual
  <1>3. TypeOK'
    BY <1>1, EnvejecidaTipo, VuelvePasa DEF TypeOK
  <1>4. Puerta' /\ Turno'
    BY <1>1, VuelvePasa DEF Puerta, Turno
  <1>5. QED
    BY <1>2, <1>3, <1>4 DEF Invariante

\* What is left of the queue at the door.
LEMMA Entra ==
  ASSUME Invariante, cola # <<>>
  PROVE  /\ Head(cola) \in Conex /\ Tail(cola) \in Seq(Conex)
         /\ estado[Head(cola)] = "cola" /\ leidas[Head(cola)] = 0
         /\ salida[Head(cola)] \in Seq(Mensaje) /\ Len(salida[Head(cola)]) = 0
         /\ \A n \in 1 .. Len(Tail(cola)) :
              /\ Tail(cola)[n] \in Conex
              /\ Tail(cola)[n] # Head(cola) /\ estado[Tail(cola)[n]] = "cola"
         /\ \A m, n \in 1 .. Len(Tail(cola)) : Tail(cola)[m] = Tail(cola)[n] => m = n
  <1>1. /\ cola \in Seq(Conex) /\ Puerta /\ Salidas
        /\ leidas \in [Conex -> Nat] /\ salida \in [Conex -> Seq(Mensaje)]
    BY DEF Invariante, TypeOK
  <1>2. Len(cola) \in Nat /\ Len(cola) >= 1 /\ Head(cola) = cola[1]
    BY <1>1
  <1>3. /\ Head(cola) \in Conex /\ Tail(cola) \in Seq(Conex) /\ Len(Tail(cola)) = Len(cola) - 1
        /\ \A n \in 1 .. Len(Tail(cola)) : Tail(cola)[n] = cola[n + 1]
    BY <1>1, HeadTailProperties
  <1>4. \A n \in 1 .. Len(Tail(cola)) : n + 1 \in 1 .. Len(cola) /\ n + 1 # 1
    BY <1>2, <1>3
  <1>5. 1 \in 1 .. Len(cola)
    BY <1>2
  <1>6. estado[Head(cola)] = "cola" /\ leidas[Head(cola)] = 0
    BY <1>1, <1>2, <1>3, <1>5 DEF Puerta
  <1>7. salida[Head(cola)] \in Seq(Mensaje) /\ Len(salida[Head(cola)]) = 0
    <2>1. salida[Head(cola)] \in Seq(Mensaje) /\ 2 * Len(salida[Head(cola)]) <= 0
      BY <1>1, <1>3, <1>6 DEF Salidas, Respondidas
    <2>2. Len(salida[Head(cola)]) \in Nat
      BY <2>1
    <2>3. QED
      BY <2>1, <2>2
  <1>8. ASSUME NEW n \in 1 .. Len(Tail(cola))
        PROVE  /\ Tail(cola)[n] \in Conex
               /\ Tail(cola)[n] # Head(cola) /\ estado[Tail(cola)[n]] = "cola"
    <2>1. Tail(cola)[n] = cola[n + 1] /\ n + 1 \in 1 .. Len(cola) /\ n + 1 # 1
      BY <1>3, <1>4
    <2>2. cola[n + 1] \in Conex
      BY <1>1, <2>1, ElementOfSeq
    <2>3. cola[n + 1] # cola[1] /\ estado[cola[n + 1]] = "cola"
      BY <1>1, <1>5, <2>1 DEF Puerta
    <2>4. QED
      BY <1>2, <2>1, <2>2, <2>3
  <1>9. ASSUME NEW m \in 1 .. Len(Tail(cola)), NEW n \in 1 .. Len(Tail(cola)),
               Tail(cola)[m] = Tail(cola)[n]
        PROVE  m = n
    <2>1. cola[m + 1] = cola[n + 1] /\ m + 1 \in 1 .. Len(cola) /\ n + 1 \in 1 .. Len(cola)
      BY <1>3, <1>4, <1>9
    <2>2. m + 1 = n + 1
      BY <1>1, <2>1 DEF Puerta
    <2>3. m \in Nat /\ n \in Nat
      BY <1>2, <1>3
    <2>4. QED
      BY <2>2, <2>3
  <1>10. QED
    BY <1>3, <1>6, <1>7, <1>8, <1>9

LEMMA RechazaPasa ==
  ASSUME Invariante, Rechaza
  PROVE  Invariante'
  <1>1. /\ TypeOK /\ Tabla /\ Puerta /\ Turno /\ VuelveSelect /\ conns' = Envejecida /\ cola # <<>>
        /\ cola' = Tail(cola)
        /\ estado' = [estado EXCEPT ![Head(cola)] = "cerrada"]
        /\ fin' = [fin EXCEPT ![Head(cola)] = FALSE]
        /\ escritas' = [escritas EXCEPT ![Head(cola)] = 0]
        /\ UNCHANGED <<sinleer, leidas, inter, enviando, salida>>
    BY DEF Invariante, Rechaza
  <1>2. \A h \in Conex : estado'[h] = IF h = Head(cola) THEN "cerrada" ELSE estado[h]
    BY <1>1 DEF TypeOK
  <1>3. estado[Head(cola)] = "cola"
    BY <1>1, Entra
  <1>3a. \A h \in Conex : escritas'[h] = escritas[h] \/ leidas[h] <= escritas'[h]
    <2>1. leidas[Head(cola)] = 0 /\ escritas'[Head(cola)] = 0
      BY <1>1, Entra DEF TypeOK
    <2>2. QED
      BY <1>1, <2>1 DEF TypeOK
  <1>4. \A h \in Conex : estado[h] = "mesa" => estado'[h] = "mesa"
    BY <1>2, <1>3
  <1>5. Tabla' /\ Salidas'
    BY <1>1, <1>3a, <1>4, EnvejecidaTipo, MesaIgual
  <1>6. TypeOK'
    <2>1. /\ estado' \in [Conex -> {"fuera", "cola", "mesa", "cerrada"}]
          /\ fin' \in [Conex -> BOOLEAN] /\ escritas' \in [Conex -> Nat]
          /\ cola' \in Seq(Conex)
      BY <1>1, Entra DEF TypeOK
    <2>2. QED
      BY <1>1, <2>1, EnvejecidaTipo, VuelvePasa DEF TypeOK
  <1>7. Puerta'
    <2>1. \A h \in Conex : estado'[h] \in {"fuera", "cola"} => leidas'[h] = 0
      BY <1>1, <1>2 DEF Puerta
    <2>2. \A n \in 1 .. Len(Tail(cola)) : estado'[Tail(cola)[n]] = "cola"
      BY <1>1, <1>2, Entra
    <2>3. \A m, n \in 1 .. Len(Tail(cola)) : Tail(cola)[m] = Tail(cola)[n] => m = n
      BY <1>1, Entra
    <2>4. QED
      BY <1>1, <2>1, <2>2, <2>3 DEF Puerta
  <1>8. Turno'
    BY <1>1, VuelvePasa DEF Turno
  <1>9. QED
    BY <1>5, <1>6, <1>7, <1>8 DEF Invariante

\* A connection takes its slot with nothing read of it.
LEMMA AceptaPasa ==
  ASSUME Invariante, Acepta
  PROVE  Invariante'
  <1> DEFINE h == Head(cola)
             r == [k |-> h, buf |-> <<>>, ocio |-> 0]
  <1>1. /\ TypeOK /\ Tabla /\ Salidas /\ Puerta /\ Turno /\ VuelveSelect /\ cola # <<>>
        /\ cola' = Tail(cola)
        /\ estado' = [estado EXCEPT ![h] = "mesa"]
        /\ UNCHANGED <<fin, escritas, sinleer, leidas, inter, enviando, salida>>
    BY DEF Invariante, Acepta
  <1>2. PICK i \in ConnSlots : i \notin EnMesa /\ conns' = [Envejecida EXCEPT ![i] = r]
    BY DEF Acepta, EsPrimera
  <1>3. /\ h \in Conex /\ estado[h] = "cola" /\ leidas[h] = 0 /\ Len(salida[h]) = 0
        /\ Tail(cola) \in Seq(Conex)
    BY <1>1, Entra
  <1>4. r \in Conn /\ r.k = h /\ r.buf = <<>> /\ Len(<<>>) = 0
    <2>1. <<>> \in Seq(Conex \X Nat) /\ 0 \in 0 .. TCP_IDLE_TIMEOUT + 1
      OBVIOUS
    <2>2. QED
      BY <1>3, <2>1 DEF Conn
  <1> HIDE DEF h, r
  <1>5. /\ conns' \in [ConnSlots -> Conn \cup {Libre}] /\ conns'[i] = r /\ r # Libre
        /\ \A j \in ConnSlots : j # i => conns'[j] = Envejecida[j]
    BY <1>1, <1>2, <1>4, EnvejecidaTipo
  <1>6. EnMesa' = EnMesa \cup {i}
    BY <1>1, <1>2, <1>5, EnvejecidaTipo DEF EnMesa
  <1>7. \A k \in Conex : estado'[k] = IF k = h THEN "mesa" ELSE estado[k]
    BY <1>1 DEF TypeOK
  <1>8. ASSUME NEW j \in EnMesa
        PROVE  /\ j # i /\ conns'[j].k = conns[j].k /\ conns'[j].buf = conns[j].buf
               /\ conns[j].k \in Conex /\ conns[j].k # h
    <2>1. j # i /\ j \in ConnSlots /\ conns[j] # Libre
      BY <1>2 DEF EnMesa
    <2>2. conns[j].k \in Conex /\ estado[conns[j].k] = "mesa"
      BY <1>1, LibreNo DEF Tabla
    <2>3. QED
      BY <1>1, <1>3, <1>5, <2>1, <2>2, EnvejecidaTipo
  <1>9. Medias(h, 2 * Len(salida[h]), leidas[h] - 2 * Len(salida[h])) = <<>>
    <2>1. 2 * Len(salida[h]) = 0 /\ leidas[h] - 2 * Len(salida[h]) = 0
      BY <1>3
    <2>2. Medias(h, 0, 0) \in Seq(Conex \X Nat) /\ Len(Medias(h, 0, 0)) = 0
      <3> DEFINE z == 0
      <3>1. z \in Nat
        OBVIOUS
      <3> HIDE DEF z
      <3>2. Medias(h, z, z) \in Seq(Conex \X Nat) /\ Len(Medias(h, z, z)) = z
        BY <1>3, <3>1, MediasTipo, ZenonT(60)
      <3>3. QED
        BY <3>2 DEF z
    <2>3. Medias(h, 0, 0) = <<>>
      BY <2>2, EmptySeq
    <2>4. QED
      BY <2>1, <2>3
  <1>10. Tabla'
    <2>1. ASSUME NEW j \in EnMesa'
          PROVE  /\ conns'[j].buf = Medias(conns'[j].k, 2 * Len(salida[conns'[j].k]),
                                           leidas[conns'[j].k] - 2 * Len(salida[conns'[j].k]))
                 /\ Len(conns'[j].buf) <= BUF
                 /\ estado'[conns'[j].k] = "mesa"
      <3>1. CASE j = i
        BY <1>3, <1>4, <1>5, <1>7, <1>9, <3>1
      <3>2. CASE j # i
        <4>1. j \in EnMesa
          BY <1>6, <3>2
        <4>2. /\ conns[j].buf = Medias(conns[j].k, 2 * Len(salida[conns[j].k]),
                                       leidas[conns[j].k] - 2 * Len(salida[conns[j].k]))
              /\ Len(conns[j].buf) <= BUF /\ estado[conns[j].k] = "mesa"
          BY <1>1, <4>1 DEF Tabla, Respondidas, Pendientes
        <4>3. /\ conns'[j].k = conns[j].k /\ conns'[j].buf = conns[j].buf
              /\ estado'[conns[j].k] = estado[conns[j].k]
          BY <1>7, <1>8, <4>1
        <4>4. QED
          BY <4>2, <4>3
      <3>3. QED
        BY <3>1, <3>2
    <2>2. ASSUME NEW j \in EnMesa', NEW l \in EnMesa', conns'[j].k = conns'[l].k
          PROVE  j = l
      BY <1>1, <1>4, <1>5, <1>6, <1>8, <2>2 DEF Tabla
    <2>3. QED
      BY <1>1, <2>1, <2>2 DEF Tabla, Respondidas, Pendientes
  <1>11. Salidas'
    BY <1>1 DEF Salidas, Respondidas
  <1>12. TypeOK'
    <2>1. estado' \in [Conex -> {"fuera", "cola", "mesa", "cerrada"}] /\ cola' \in Seq(Conex)
      BY <1>1, <1>3 DEF TypeOK
    <2>2. QED
      BY <1>1, <1>5, <2>1, VuelvePasa DEF TypeOK
  <1>13. Puerta'
    <2>1. \A k \in Conex : estado'[k] \in {"fuera", "cola"} => leidas'[k] = 0
      BY <1>1, <1>7 DEF Puerta
    <2>2. \A n \in 1 .. Len(Tail(cola)) : estado'[Tail(cola)[n]] = "cola"
      BY <1>1, <1>7, Entra DEF h
    <2>3. \A m, n \in 1 .. Len(Tail(cola)) : Tail(cola)[m] = Tail(cola)[n] => m = n
      BY <1>1, Entra
    <2>4. QED
      BY <1>1, <2>1, <2>2, <2>3 DEF Puerta
  <1>14. Turno'
    BY <1>1, VuelvePasa DEF Turno
  <1>15. QED
    BY <1>10, <1>11, <1>12, <1>13, <1>14 DEF Invariante

\* What recv reads goes behind what was in the buffer.
LEMMA LeePasa ==
  ASSUME Invariante, Lee
  PROVE  Invariante'
  <1> DEFINE k == Yo.k
             hay == escritas[k] - leidas[k]
             cabe == BUF - Len(Yo.buf)
             p == IF hay < cabe THEN hay ELSE cabe
             t == [j \in 1 .. p |-> Media(k, leidas[k] + j)]
             u == [Yo EXCEPT !.ocio = 0]
             r == [u EXCEPT !.buf = @ \o t]
             a == Respondidas(k)
             b == Pendientes(k)
  <1>1. /\ TypeOK /\ Tabla /\ Salidas /\ Puerta /\ Turno
        /\ Yo # Libre /\ leidas[k] < escritas[k] /\ pc = "recorre"
        /\ conns' = [conns EXCEPT ![turno].ocio = 0, ![turno].buf = @ \o t]
        /\ leidas' = [leidas EXCEPT ![k] = @ + p]
        /\ pc' = "mensajes"
        /\ UNCHANGED <<estado, fin, escritas, sinleer, cola, turno, listos, retraso, inter, enviando,
                       salida>>
    BY DEF Invariante, Lee, PorLeer, pares, Yo
  <1>2. turno \in EnMesa /\ turno \in ConnSlots /\ Yo = conns[turno] /\ Yo \in Conn /\ k \in Conex
    BY <1>1, LibreNo DEF TypeOK, EnMesa, Yo
  <1>3. /\ Yo.buf = Medias(k, a, b) /\ Len(Yo.buf) <= BUF
        /\ leidas[k] \in Nat /\ escritas[k] \in Nat /\ Len(salida[k]) \in Nat
        /\ a = 2 * Len(salida[k]) /\ b = leidas[k] - a /\ a <= leidas[k]
    <2>1. Yo.buf = Medias(k, a, b) /\ Len(Yo.buf) <= BUF
      BY <1>1, <1>2 DEF Tabla
    <2>2. leidas[k] \in Nat /\ escritas[k] \in Nat /\ salida[k] \in Seq(Mensaje)
      BY <1>1, <1>2 DEF TypeOK
    <2>3. a <= leidas[k]
      BY <1>1, <1>2 DEF Salidas
    <2>4. Len(salida[k]) \in Nat
      BY <2>2
    <2>5. QED
      BY <2>1, <2>2, <2>3, <2>4 DEF Respondidas, Pendientes
  <1>4. a \in Nat /\ b \in Nat /\ a + b = leidas[k]
    <2> HIDE DEF a, b, k
    <2> DEFINE l == leidas[k]
    <2>1. a \in Nat /\ l \in Nat /\ b = l - a /\ a <= l
      BY <1>3
    <2> HIDE DEF l
    <2>2. b \in Nat /\ a + b = l
      BY <2>1
    <2>3. QED
      BY <2>1, <2>2 DEF l
  <1>5. Yo.buf \in Seq(Conex \X Nat) /\ Len(Yo.buf) = b
    <2> HIDE DEF a, b, k
    <2>1. Medias(k, a, b) \in Seq(Conex \X Nat) /\ Len(Medias(k, a, b)) = b
      BY <1>2, <1>4, MediasTipo, Zenon
    <2>2. QED
      BY <1>3, <2>1
  <1>6. p \in Nat /\ b + p <= BUF /\ leidas[k] + p <= escritas[k]
    <2>1. hay \in Nat /\ cabe \in Nat /\ cabe = BUF - b /\ BUF \in Nat
      <3> HIDE DEF b, k
      <3>1. BUF \in Nat
        OBVIOUS
      <3>2. hay \in Nat
        BY <1>1, <1>3 DEF k
      <3>3. cabe = BUF - b
        BY <1>5
      <3>4. b <= BUF
        BY <1>3, <1>5
      <3>5. QED
        BY <1>4, <3>1, <3>2, <3>3, <3>4
    <2> HIDE DEF hay, cabe, b
    <2>2. p \in Nat /\ b + p <= BUF /\ p <= hay
      BY <1>4, <2>1
    <2>3. leidas[k] + p <= escritas[k]
      <3> HIDE DEF p, k
      <3>1. QED
        BY <1>3, <2>2 DEF hay
    <2>4. QED
      BY <2>2, <2>3
  <1> HIDE DEF hay, cabe
  <1>7. r = [k |-> k, buf |-> Yo.buf \o t, ocio |-> 0] /\ conns' = [conns EXCEPT ![turno] = r]
    <2> HIDE DEF t
    <2>1. r = [k |-> k, buf |-> Yo.buf \o t, ocio |-> 0]
      <3>1. Yo = [k |-> Yo.k, buf |-> Yo.buf, ocio |-> Yo.ocio]
        BY <1>2 DEF Conn
      <3>2. u = [k |-> Yo.k, buf |-> Yo.buf, ocio |-> 0]
        BY <3>1
      <3> HIDE DEF u
      <3>3. u.buf = Yo.buf
        BY <3>2
      <3> DEFINE w == Yo.buf \o t
      <3>4. r = [u EXCEPT !.buf = w]
        BY <3>3
      <3> HIDE DEF w, r
      <3>5. r = [k |-> k, buf |-> w, ocio |-> 0]
        BY <3>2, <3>4
      <3>6. QED
        BY <3>5 DEF w
    <2>2. conns' = [conns EXCEPT ![turno] = r]
      BY <1>1, <1>2 DEF TypeOK, Conn
    <2>3. QED
      BY <2>1, <2>2
  <1>8. Yo.buf \o t = Medias(k, a, b + p)
    <2>1. t = [j \in 1 .. p |-> Media(k, a + b + j)]
      BY <1>4
    <2> HIDE DEF a, b, k, p, t
    <2>2. Medias(k, a, b) \o t = Medias(k, a, b + p)
      BY <1>2, <1>4, <1>6, <2>1, MediasMas, SMTT(60)
    <2>3. QED
      BY <1>3, <2>1, <2>2
  <1> HIDE DEF t, p
  <1>9. Medias(k, a, b + p) \in Seq(Conex \X Nat) /\ Len(Medias(k, a, b + p)) = b + p
    <2> HIDE DEF a, b, k
    <2>1. b + p \in Nat
      BY <1>4, <1>6
    <2>2. k \in Conex /\ a \in Nat
      BY <1>2, <1>4
    <2>3. QED
      BY ONLY <2>1, <2>2, MediasTipo, Zenon
  <1> HIDE DEF r, a, b, k
  <1>10. r.k = k /\ r.buf = Medias(k, a, b + p) /\ Len(r.buf) <= BUF /\ r \in Conn
    <2>1. 0 \in 0 .. TCP_IDLE_TIMEOUT + 1
      OBVIOUS
    <2>2. QED
      BY <1>2, <1>6, <1>7, <1>8, <1>9, <2>1 DEF Conn
  <1>11. /\ conns' \in [ConnSlots -> Conn \cup {Libre}] /\ conns'[turno] = r /\ r # Libre
         /\ \A i \in ConnSlots : i # turno => conns'[i] = conns[i]
    <2> DEFINE C == Conn \cup {Libre}
    <2>1. conns \in [ConnSlots -> C]
      BY <1>1 DEF TypeOK
    <2>2. turno \in ConnSlots /\ conns' = [conns EXCEPT ![turno] = r]
      BY <1>2, <1>7
    <2>3. r \in C /\ r # Libre
      BY <1>10, LibreNo
    <2> HIDE DEF C
    <2>4. /\ conns' \in [ConnSlots -> C] /\ conns'[turno] = r
          /\ \A i \in ConnSlots : i # turno => conns'[i] = conns[i]
      BY ONLY <2>1, <2>2, <2>3
    <2>5. QED
      BY <2>3, <2>4 DEF C
  <1>12. EnMesa' = EnMesa
    BY <1>2, <1>11 DEF EnMesa
  <1>13. /\ leidas' \in [Conex -> Nat] /\ leidas'[k] = leidas[k] + p
         /\ \A h \in Conex : h # k => leidas'[h] = leidas[h]
    <2>1. leidas \in [Conex -> Nat]
      BY <1>1 DEF TypeOK
    <2>2. k \in Conex /\ leidas' = [leidas EXCEPT ![k] = @ + p] /\ p \in Nat
      BY <1>1, <1>2, <1>6 DEF k
    <2>3. QED
      BY ONLY <2>1, <2>2
  <1>14. 2 * Len(salida[k]) = a /\ leidas'[k] - 2 * Len(salida[k]) = b + p /\ a <= leidas'[k]
    <2> DEFINE l == leidas[k]
               q == leidas'[k]
               z == Len(salida[k])
    <2>1. a = 2 * z /\ b = l - a /\ a <= l /\ l \in Nat /\ z \in Nat /\ q = l + p /\ p \in Nat
      BY <1>3, <1>6, <1>13
    <2> HIDE DEF l, q, z
    <2>2. 2 * z = a /\ q - 2 * z = b + p /\ a <= q
      BY ONLY <2>1
    <2>3. QED
      BY <2>2 DEF q, z
  <1>15. k = conns[turno].k
    BY <1>2 DEF k
  <1>16. Tabla'
    <2>1. ASSUME NEW i \in EnMesa
          PROVE  /\ conns'[i].k = conns[i].k /\ conns[i].k \in Conex
                 /\ conns'[i].buf = Medias(conns[i].k, 2 * Len(salida[conns[i].k]),
                                           leidas'[conns[i].k] - 2 * Len(salida[conns[i].k]))
                 /\ Len(conns'[i].buf) <= BUF /\ estado[conns[i].k] = "mesa"
      <3>1. CASE i = turno
        <4>1. conns[i].k = k /\ conns'[i] = r /\ estado[k] = "mesa"
          BY <1>1, <1>2, <1>11, <1>15, <3>1 DEF Tabla
        <4>2. QED
          BY <1>2, <1>10, <1>14, <4>1
      <3>2. CASE i # turno
        <4>1. conns'[i] = conns[i] /\ conns[i].k \in Conex /\ conns[i].k # k
          BY <1>1, <1>2, <1>11, <1>15, <3>2, LibreNo DEF Tabla
        <4>2. QED
          BY <1>1, <1>13, <4>1 DEF Tabla, Respondidas, Pendientes
      <3>3. QED
        BY <3>1, <3>2
    <2>2. ASSUME NEW i \in EnMesa, NEW j \in EnMesa, conns'[i].k = conns'[j].k
          PROVE  i = j
      BY <1>1, <2>1, <2>2 DEF Tabla
    <2>3. \A i \in EnMesa :
            /\ conns'[i].buf = Medias(conns'[i].k, 2 * Len(salida'[conns'[i].k]),
                                      leidas'[conns'[i].k] - 2 * Len(salida'[conns'[i].k]))
            /\ Len(conns'[i].buf) <= BUF /\ estado'[conns'[i].k] = "mesa"
      BY <1>1, <2>1
    <2>4. QED
      BY <1>12, <2>2, <2>3 DEF Tabla, Respondidas, Pendientes
  <1>17. Salidas'
    <2> SUFFICES ASSUME NEW h \in Conex
                 PROVE  /\ 2 * Len(salida[h]) <= leidas'[h] /\ leidas'[h] <= escritas[h]
                        /\ \A j \in 1 .. Len(salida[h]) : salida[h][j] = <<h, j>>
      BY <1>1 DEF Salidas, Respondidas
    <2>1. CASE h = k
      BY <1>1, <1>2, <1>6, <1>13, <1>14, <2>1 DEF Salidas
    <2>2. CASE h # k
      BY <1>1, <1>13, <2>2 DEF Salidas, Respondidas
    <2>3. QED
      BY <2>1, <2>2
  <1>18. TypeOK'
    BY <1>1, <1>11, <1>13 DEF TypeOK
  <1>19. Puerta'
    <2>1. \A h \in Conex : estado[h] \in {"fuera", "cola"} => leidas'[h] = 0
      BY <1>1, <1>2, <1>13, <1>15 DEF Puerta, Tabla
    <2>2. QED
      BY <1>1, <2>1 DEF Puerta
  <1>20. Turno'
    BY <1>1, <1>11 DEF Turno, Yo
  <1>21. QED
    BY <1>16, <1>17, <1>18, <1>19, <1>20 DEF Invariante

\* The steps that read, answer and close nothing.
LEMMA QuietoPasa ==
  ASSUME Invariante, Salta \/ Incompleto \/ Tick
  PROVE  Invariante'
  <1>1. /\ TypeOK /\ Puerta /\ Turno
        /\ UNCHANGED <<estado, fin, escritas, sinleer, cola, leidas, conns, enviando, salida>>
    BY DEF Invariante, Salta, Incompleto, Tick, pares
  <1>2. Tabla' /\ Salidas'
    BY <1>1, MesaIgual
  <1>3. Puerta'
    BY <1>1 DEF Puerta
  <1>4. CASE Salta \/ Incompleto
    <2>1. Siguiente /\ UNCHANGED <<retraso, inter>> /\ pc # "espera"
      BY <1>4 DEF Salta, Incompleto
    <2>2. TypeOK'
      BY <1>1, <2>1, SiguientePasa DEF TypeOK
    <2>3. Turno'
      BY <1>1, <2>1, SiguientePasa DEF Turno
    <2>4. QED
      BY <1>2, <1>3, <2>2, <2>3 DEF Invariante
  <1>5. CASE Tick
    <2>1. /\ retraso' = Hasta(retraso + 1) /\ UNCHANGED <<pc, turno, listos>>
          /\ \/ inter' = inter
             \/ /\ pc = "espera" /\ inter.tiempo < UP_TIMEOUT
                /\ inter' = [inter EXCEPT !.tiempo = @ + 1]
      BY <1>5 DEF Tick
    <2>2. retraso' \in 0 .. TCP_IDLE_TIMEOUT + 1
      <3>1. retraso + 1 \in Nat
        BY <1>1 DEF TypeOK
      <3>2. QED
        BY <2>1, <3>1, HastaTipo, Zenon
    <2>3. /\ inter' \in Intercambio /\ inter'.vuelo = inter.vuelo
          /\ inter'.intento = inter.intento
      <3>1. inter \in Intercambio
        BY <1>1 DEF TypeOK
      <3>2. CASE inter' = inter
        BY <3>1, <3>2
      <3>3. CASE inter.tiempo < UP_TIMEOUT /\ inter' = [inter EXCEPT !.tiempo = @ + 1]
        <4>1. inter.tiempo + 1 \in 0 .. UP_TIMEOUT
          BY <3>1, <3>3 DEF Intercambio
        <4>2. QED
          BY <3>1, <3>3, <4>1 DEF Intercambio
      <3>4. QED
        BY <2>1, <3>2, <3>3
    <2>4. TypeOK'
      BY <1>1, <2>1, <2>2, <2>3 DEF TypeOK
    <2>5. Turno'
      BY <1>1, <2>1, <2>3 DEF Turno, Yo, Completo, EnCabeza
    <2>6. QED
      BY <1>2, <1>3, <2>4, <2>5 DEF Invariante
  <1>6. QED
    BY <1>4, <1>5

LEMMA CierresPasan ==
  ASSUME Invariante, CierreRemoto \/ Ociosa \/ Descarta \/ NoEnvia
  PROVE  Invariante'
  <1>1. /\ Yo # Libre /\ cierra /\ Siguiente /\ UNCHANGED <<retraso, inter>> /\ pc # "espera"
        /\ enviando' = enviando \/ enviando' = {}
    BY DEF CierreRemoto, Ociosa, Descarta, NoEnvia, Abandona, Invariante, Turno
  <1>2. inter' \in Intercambio /\ inter'.vuelo = {} /\ enviando' \subseteq Mensaje
    BY <1>1 DEF Invariante, TypeOK, Turno
  <1>3. QED
    BY <1>1, <1>2, CierraSiguientePasa

LEMMA RespondePasa ==
  ASSUME Invariante, Responde
  PROVE  Invariante'
  <1>1. /\ Yo # Libre /\ Completo /\ Contesta(EnCabeza)
        /\ UNCHANGED <<retraso, inter>> /\ pc # "espera"
    BY DEF Responde, Invariante, Turno
  <1>2. inter' \in Intercambio /\ inter'.vuelo = {}
    BY <1>1 DEF Invariante, TypeOK, Turno
  <1>3. QED
    BY <1>1, <1>2, ContestaPasa

LEMMA ReenviaPasa ==
  ASSUME Invariante, Reenvia
  PROVE  Invariante'
  <1>1. /\ TypeOK /\ Tabla /\ Salidas /\ Puerta /\ Turno
        /\ pc = "mensajes" /\ pc' = "espera" /\ Completo /\ Yo # Libre
        /\ UNCHANGED <<estado, fin, escritas, sinleer, cola, leidas, conns, turno, listos, retraso,
                       enviando, salida>>
    BY DEF Invariante, Reenvia, pares, Turno
  <1>2. PICK u \in Intentos : Intento(inter, u)
    BY DEF Reenvia
  <1>3. inter \in Intercambio /\ inter.vuelo = {} /\ EnCabeza \in Mensaje
    BY <1>1, Cabeza DEF TypeOK, Turno
  <1>4. inter' \in Intercambio /\ inter'.intento # 0 /\ \A d \in inter'.vuelo : d.de = EnCabeza
    BY <1>2, <1>3, IntentoPasa
  <1>5. Tabla' /\ Salidas' /\ Puerta'
    BY <1>1, MesaIgual DEF Puerta
  <1>6. TypeOK'
    BY <1>1, <1>4 DEF TypeOK
  <1>7. Turno'
    BY <1>1, <1>4 DEF Turno, Yo, Completo, EnCabeza
  <1>8. QED
    BY <1>5, <1>6, <1>7 DEF Invariante

\* What comes to the socket while it waits is about the message at the front.
LEMMA RecibeSuyaPasa ==
  ASSUME Invariante, RecibeSuya
  PROVE  Invariante'
  <1>1. PICK d \in inter.vuelo : Contesta(d.de)
    BY DEF RecibeSuya
  <1>2. /\ Yo # Libre /\ Completo /\ d.de = EnCabeza
        /\ inter' = SinIntercambio /\ UNCHANGED retraso
    BY DEF RecibeSuya, Cierra, Invariante, Turno
  <1>3. QED
    BY <1>1, <1>2, SinIntercambioTipo, ContestaPasa

LEMMA FallaPasa ==
  ASSUME Invariante, NEW x \in Intercambio, x.vuelo \subseteq inter.vuelo, Falla(x)
  PROVE  Invariante'
  <1>1. /\ TypeOK /\ Tabla /\ Salidas /\ Puerta /\ Turno /\ pc = "espera"
        /\ Yo # Libre /\ Completo /\ UNCHANGED retraso
        /\ \A d \in x.vuelo : d.de = EnCabeza
    BY DEF Invariante, Falla, Turno
  <1>2. CASE /\ Intento(x, 2)
             /\ UNCHANGED <<pares, leidas, conns, pc, turno, listos, enviando, salida>>
    <2>1. EnCabeza \in Mensaje /\ 2 \in Intentos
      BY <1>1, Cabeza DEF Intentos
    <2>2. inter' \in Intercambio /\ inter'.intento # 0 /\ \A d \in inter'.vuelo : d.de = EnCabeza
      BY <1>1, <1>2, <2>1, IntentoPasa
    <2>3. UNCHANGED <<estado, fin, escritas, sinleer, cola, leidas, conns, pc, turno, listos,
                      enviando, salida>>
      BY <1>2 DEF pares
    <2>4. Tabla' /\ Salidas' /\ Puerta'
      BY <1>1, <2>3, MesaIgual DEF Puerta
    <2>5. TypeOK'
      BY <1>1, <2>2, <2>3 DEF TypeOK
    <2>6. Turno'
      BY <1>1, <2>2, <2>3 DEF Turno, Yo, Completo, EnCabeza
    <2>7. QED
      BY <2>4, <2>5, <2>6 DEF Invariante
  <1>3. CASE inter' = Cierra /\ Contesta(EnCabeza)
    BY <1>1, <1>3, SinIntercambioTipo, ContestaPasa DEF Cierra
  <1>4. CASE inter' = Cierra /\ Abandona
    <2>1. enviando' \subseteq Mensaje
      BY <1>1, <1>4 DEF Abandona, TypeOK
    <2>2. QED
      BY <1>1, <1>4, <2>1, SinIntercambioTipo, CierraSiguientePasa DEF Cierra, Abandona
  <1>5. QED
    BY <1>2, <1>3, <1>4 DEF Falla

LEMMA IntentosFallidosPasan ==
  ASSUME Invariante, Vence \/ RecibeTardia \/ RecibeBasura
  PROVE  Invariante'
  <1>1. inter \in Intercambio
    BY DEF Invariante, TypeOK
  <1>2. CASE Falla(inter)
    BY <1>1, <1>2, FallaPasa
  <1>3. CASE RecibeTardia
    <2>1. PICK d \in inter.vuelo : Falla([inter EXCEPT !.vuelo = @ \ {d}])
      BY <1>3 DEF RecibeTardia
    <2> DEFINE x == [inter EXCEPT !.vuelo = @ \ {d}]
    <2>2. x \in Intercambio /\ x.vuelo \subseteq inter.vuelo
      BY <1>1 DEF Intercambio
    <2> HIDE DEF x
    <2>3. Falla(x)
      BY <2>1 DEF x
    <2>4. QED
      BY <2>2, <2>3, FallaPasa
  <1>4. QED
    BY <1>2, <1>3 DEF Vence, RecibeBasura

LEMMA ConectaPasa ==
  ASSUME Invariante, NEW k \in Conex, Conecta(k)
  PROVE  Invariante'
  <1>1. /\ TypeOK /\ Tabla /\ Salidas /\ Puerta /\ Turno
        /\ estado[k] = "fuera"
        /\ estado' = [estado EXCEPT ![k] = "cola"]
        /\ cola' = Append(cola, k)
        /\ UNCHANGED <<fin, escritas, sinleer, leidas, conns, pc, turno, listos, retraso, inter,
                       enviando, salida>>
    BY DEF Invariante, Conecta
  <1>2. \A h \in Conex : estado'[h] = IF h = k THEN "cola" ELSE estado[h]
    BY <1>1 DEF TypeOK
  <1>3. Tabla' /\ Salidas'
    BY <1>1, <1>2, MesaIgual
  <1>4. /\ cola \in Seq(Conex) /\ cola' \in Seq(Conex) /\ Len(cola') = Len(cola) + 1
        /\ \A n \in 1 .. Len(cola) : cola'[n] = cola[n]
        /\ cola'[Len(cola) + 1] = k
    BY <1>1, AppendProperties DEF TypeOK
  <1>5. \A n \in 1 .. Len(cola) : cola[n] \in Conex /\ estado[cola[n]] = "cola" /\ cola[n] # k
    BY <1>1, <1>4, ElementOfSeq DEF Puerta
  <1>6. \A n \in 1 .. Len(cola') : n \in 1 .. Len(cola) \/ n = Len(cola) + 1
    BY <1>4
  <1>7. TypeOK'
    BY <1>1, <1>4 DEF TypeOK
  <1>8. Puerta'
    <2>1. \A h \in Conex : estado'[h] \in {"fuera", "cola"} => leidas[h] = 0
      BY <1>1, <1>2 DEF Puerta
    <2>2. \A n \in 1 .. Len(cola') : estado'[cola'[n]] = "cola"
      BY <1>2, <1>4, <1>5, <1>6
    <2>3. ASSUME NEW m \in 1 .. Len(cola'), NEW n \in 1 .. Len(cola'), cola'[m] = cola'[n]
          PROVE  m = n
      BY <1>1, <1>4, <1>5, <1>6, <2>3 DEF Puerta
    <2>4. QED
      BY <1>1, <2>1, <2>2, <2>3 DEF Puerta
  <1>9. Turno'
    BY <1>1 DEF Turno, Yo, Completo, EnCabeza
  <1>10. QED
    BY <1>3, <1>7, <1>8, <1>9 DEF Invariante

LEMMA ParPasa ==
  ASSUME Invariante, NEW k \in Conex, Escribe(k) \/ Recoge(k) \/ Cuelga(k)
  PROVE  Invariante'
  <1>1. /\ TypeOK /\ Salidas /\ Puerta /\ Turno
        /\ UNCHANGED <<estado, leidas, cola, conns, pc, turno, listos, retraso, inter, enviando,
                       salida>>
    BY DEF Invariante, Escribe, Recoge, Cuelga
  <1>2. /\ escritas' \in [Conex -> Nat] /\ fin' \in [Conex -> BOOLEAN]
        /\ sinleer' \in [Conex -> 0 .. ENVIO]
        /\ \A h \in Conex : escritas'[h] = escritas[h] \/ leidas[h] <= escritas'[h]
    <2>1. CASE Escribe(k)
      <3>1. escritas' = [escritas EXCEPT ![k] = @ + 1] /\ UNCHANGED <<fin, sinleer>>
        BY <2>1, Zenon DEF Escribe
      <3>2. \A h \in Conex : escritas[h] \in Nat /\ leidas[h] \in Nat /\ leidas[h] <= escritas[h]
        BY <1>1 DEF TypeOK, Salidas
      <3>3. QED
        BY <1>1, <3>1, <3>2 DEF TypeOK
    <2>2. CASE Recoge(k)
      BY <1>1, <2>2 DEF TypeOK, Recoge
    <2>3. CASE Cuelga(k)
      BY <1>1, <2>3 DEF TypeOK, Cuelga
    <2>4. QED
      BY <2>1, <2>2, <2>3
  <1>3. Tabla' /\ Salidas' /\ Puerta'
    BY <1>1, <1>2, MesaIgual DEF Puerta
  <1>4. TypeOK' /\ Turno'
    BY <1>1, <1>2 DEF TypeOK, Turno, Yo, Completo, EnCabeza
  <1>5. QED
    BY <1>3, <1>4 DEF Invariante

\* The messages answered are forgotten: what is left of the buffer is counted from one.
LEMMA OlvidaPasa ==
  ASSUME Invariante, Olvida
  PROVE  Invariante'
  <1> DEFINE ya(k) == 2 * Len(salida[k])
             cuenta(i) == [conns[i] EXCEPT !.buf =
                            [j \in DOMAIN @ |-> Media(conns[i].k, @[j][2] - ya(conns[i].k))]]
  <1>1. /\ TypeOK /\ Tabla /\ Salidas /\ Puerta /\ Turno /\ pc = "select"
        /\ escritas' = [k \in Conex |-> escritas[k] - ya(k)]
        /\ leidas' = [k \in Conex |-> leidas[k] - ya(k)]
        /\ conns' = [i \in ConnSlots |-> IF conns[i] = Libre THEN Libre ELSE cuenta(i)]
        /\ salida' = [k \in Conex |-> <<>>]
        /\ UNCHANGED <<estado, fin, sinleer, cola, pc, turno, listos, retraso, inter, enviando>>
    BY DEF Invariante, Olvida
  <1>2. ASSUME NEW k \in Conex
        PROVE  /\ ya(k) \in Nat /\ leidas[k] - ya(k) \in Nat /\ escritas[k] - ya(k) \in Nat
               /\ leidas'[k] = leidas[k] - ya(k) /\ escritas'[k] = escritas[k] - ya(k)
               /\ leidas'[k] <= escritas'[k]
               /\ salida'[k] = <<>> /\ Len(salida'[k]) = 0
    <2>1. /\ leidas[k] \in Nat /\ escritas[k] \in Nat /\ salida[k] \in Seq(Mensaje)
          /\ ya(k) <= leidas[k] /\ leidas[k] <= escritas[k]
      BY <1>1 DEF TypeOK, Salidas, Respondidas
    <2>2. Len(salida[k]) \in Nat /\ Len(<<>>) = 0
      BY <2>1
    <2>3. /\ leidas'[k] = leidas[k] - ya(k) /\ escritas'[k] = escritas[k] - ya(k)
          /\ salida'[k] = <<>>
      BY <1>1
    <2>4. QED
      BY <2>1, <2>2, <2>3
  <1>3. ASSUME NEW i \in EnMesa
        PROVE  /\ conns'[i] \in Conn /\ conns'[i].k = conns[i].k /\ conns[i].k \in Conex
               /\ conns'[i].buf = Medias(conns[i].k, 0, leidas'[conns[i].k])
               /\ Len(conns'[i].buf) <= BUF /\ estado'[conns[i].k] = "mesa"
    <2> DEFINE k == conns[i].k
               a == ya(k)
               b == leidas[k] - ya(k)
               z == 0
               m == [j \in DOMAIN conns[i].buf |-> Media(k, conns[i].buf[j][2] - a)]
    <2>1. conns[i] \in Conn /\ k \in Conex /\ i \in ConnSlots /\ conns[i] # Libre
      BY <1>1, LibreNo DEF EnMesa
    <2>2. /\ conns[i].buf = Medias(k, a, b) /\ Len(conns[i].buf) <= BUF /\ estado[k] = "mesa"
      BY <1>1, <2>1 DEF Tabla, Respondidas, Pendientes
    <2>3. a \in Nat /\ b \in Nat /\ leidas'[k] = b /\ z \in Nat /\ z = 0
      BY <1>2, <2>1
    <2>4. conns'[i] = [conns[i] EXCEPT !.buf = m]
      BY <1>1, <2>1
    <2> HIDE DEF k, a, b, z, m
    <2>5. /\ Medias(k, a, b) \in Seq(Conex \X Nat) /\ Len(Medias(k, a, b)) = b
          /\ \A j \in 1 .. b : Medias(k, a, b)[j] = <<k, a + j>>
      BY <2>1, <2>3, MediasTipo, ZenonT(60)
    <2>6. /\ Medias(k, z, b) \in Seq(Conex \X Nat) /\ Len(Medias(k, z, b)) = b
      BY <2>1, <2>3, MediasTipo, Zenon
    <2>7. m = Medias(k, z, b)
      <3>1. DOMAIN conns[i].buf = 1 .. b
        BY <2>2, <2>5
      <3>2. ASSUME NEW j \in 1 .. b
            PROVE  Media(k, conns[i].buf[j][2] - a) = Media(k, z + j)
        <4>1. conns[i].buf[j] = <<k, a + j>>
          BY <2>2, <2>5
        <4>2. conns[i].buf[j][2] = a + j
          BY <4>1
        <4>3. a \in Nat /\ b \in Nat /\ z = 0
          BY <2>3
        <4>4. \A p : p = a + j => p - a = z + j
          BY <4>3
        <4>5. conns[i].buf[j][2] - a = z + j
          BY <4>2, <4>4, Zenon
        <4>6. QED
          BY <4>5, Zenon
      <3>3. QED
        BY <3>1, <3>2 DEF m, Medias
    <2>8. conns'[i].buf = Medias(k, z, b) /\ conns'[i].k = k /\ conns'[i] \in Conn
      BY <2>1, <2>4, <2>6, <2>7 DEF Conn, k
    <2>9. Len(conns'[i].buf) <= BUF
      BY <2>2, <2>5, <2>6, <2>8
    <2>10. estado'[k] = "mesa"
      BY <1>1, <2>2
    <2>11. QED
      BY <2>1, <2>3, <2>8, <2>9, <2>10 DEF k
  <1>4. EnMesa' = EnMesa /\ conns' \in [ConnSlots -> Conn \cup {Libre}]
    <2>1. ASSUME NEW i \in ConnSlots
          PROVE  /\ conns'[i] \in Conn \cup {Libre}
                 /\ conns'[i] = Libre <=> conns[i] = Libre
      <3>1. CASE conns[i] = Libre
        BY <1>1, <3>1
      <3>2. CASE conns[i] # Libre
        <4>1. i \in EnMesa
          BY <3>2 DEF EnMesa
        <4>2. conns'[i] \in Conn
          BY <1>3, <4>1
        <4>3. QED
          BY <3>2, <4>2
      <3>3. QED
        BY <3>1, <3>2
    <2> HIDE DEF cuenta
    <2>2. QED
      BY <1>1, <2>1 DEF EnMesa
  <1> HIDE DEF ya, cuenta
  <1>5. Tabla'
    <2>1. ASSUME NEW i \in EnMesa
          PROVE  conns'[i].buf = Medias(conns[i].k, 2 * Len(salida'[conns[i].k]),
                                        leidas'[conns[i].k] - 2 * Len(salida'[conns[i].k]))
      <3> DEFINE l == leidas'[conns[i].k]
                 n == Len(salida'[conns[i].k])
      <3>1. l \in Nat /\ n = 0 /\ conns'[i].buf = Medias(conns[i].k, 0, l)
        BY <1>2, <1>3
      <3> HIDE DEF l, n
      <3>2. 2 * n = 0 /\ l - 2 * n = l
        BY <3>1
      <3>3. QED
        BY <3>1, <3>2 DEF l, n
    <2>2. QED
      BY <1>1, <1>3, <1>4, <2>1, MesaCada, Zenon
  <1>6. Salidas'
    <2>1. ASSUME NEW k \in Conex
          PROVE  /\ 2 * Len(salida'[k]) <= leidas'[k] /\ leidas'[k] <= escritas'[k]
                 /\ \A j \in 1 .. Len(salida'[k]) : salida'[k][j] = <<k, j>>
      <3>1. Len(salida'[k]) = 0 /\ leidas'[k] \in Nat /\ leidas'[k] <= escritas'[k]
        BY <1>2
      <3>2. 1 .. 0 = {}
        OBVIOUS
      <3>3. QED
        BY <3>1, <3>2
    <2>2. QED
      BY <2>1 DEF Salidas, Respondidas
  <1>7. TypeOK'
    <2>1. /\ escritas' \in [Conex -> Nat] /\ leidas' \in [Conex -> Nat]
          /\ salida' \in [Conex -> Seq(Mensaje)]
      <3>1. <<>> \in Seq(Mensaje)
        OBVIOUS
      <3>2. QED
        BY <1>1, <1>2, <3>1
    <2>2. QED
      BY <1>1, <1>4, <2>1 DEF TypeOK
  <1>8. Puerta'
    <2>1. ASSUME NEW k \in Conex, estado[k] \in {"fuera", "cola"}
          PROVE  leidas'[k] = 0
      <3>1. leidas[k] = 0 /\ ya(k) \in Nat /\ leidas'[k] = leidas[k] - ya(k) /\ leidas'[k] \in Nat
        BY <1>1, <1>2, <2>1 DEF Puerta
      <3>2. QED
        BY <3>1
    <2>2. QED
      BY <1>1, <2>1 DEF Puerta
  <1>9. Turno'
    BY <1>1 DEF Turno
  <1>10. QED
    BY <1>5, <1>6, <1>7, <1>8, <1>9 DEF Invariante

-----------------------------------------------------------------------------
(***************************************************************************)
(* The theorems                                                            *)
(***************************************************************************)
LEMMA Inductivo == Spec => []Invariante
  <1>1. Init => Invariante
    <2> SUFFICES ASSUME Init PROVE Invariante
      OBVIOUS
    <2>1. /\ 0 \in ConnSlots /\ 0 \in 0 .. TCP_IDLE_TIMEOUT + 1
          /\ <<>> \in Seq(Conex) /\ <<>> \in Seq(Mensaje) /\ Len(<<>>) = 0
      BY DEF ConnSlots
    <2>2. TypeOK
      BY <2>1, SinIntercambioTipo DEF Init, TypeOK
    <2>3. EnMesa = {}
      BY DEF Init, EnMesa
    <2>4. Tabla
      BY <2>3 DEF Tabla
    <2>5. Salidas
      BY <2>1 DEF Init, Salidas, Respondidas
    <2>6. Puerta /\ Turno
      BY <2>1, SinIntercambioTipo DEF Init, Puerta, Turno
    <2>7. QED
      BY <2>2, <2>4, <2>5, <2>6 DEF Invariante
  <1>2. Invariante /\ [Next]_vars => Invariante'
    <2> SUFFICES ASSUME Invariante, [Next]_vars PROVE Invariante'
      OBVIOUS
    <2>1. CASE Next
      BY <2>1, NadieLlamaPasa, AceptaPasa, RechazaPasa, LeePasa, QuietoPasa, CierresPasan, RespondePasa,
         EnviaPasa, ReenviaPasa, RecibeSuyaPasa, IntentosFallidosPasan, ConectaPasa, ParPasa,
         OlvidaPasa DEF Next, tarea_tcp
    <2>2. CASE UNCHANGED vars
      BY <2>2 DEF vars, Invariante, TypeOK, Tabla, Salidas, Puerta, Turno, Respondidas, Pendientes,
         EnMesa, Yo, Completo, EnCabeza
    <2>3. QED
      BY <2>1, <2>2
  <1>3. QED
    BY <1>1, <1>2, PTL DEF Spec

\* The answers of a connection are to its own messages, one each and in their
\* order, for any number of connections, sizes of the buffer and pieces in
\* which the messages come; the ids of the attempts needn't even be different.
THEOREM RespuestasEnOrden == Spec => []EnOrden
  <1>1. Invariante => EnOrden
    <2> SUFFICES ASSUME Invariante PROVE EnOrden
      OBVIOUS
    <2>1. TypeOK /\ Tabla /\ Salidas
      BY DEF Invariante
    <2>2. \A i \in EnMesa :
            conns[i].buf = [j \in 1 .. leidas[conns[i].k] - 2 * Len(salida[conns[i].k]) |->
                              Media(conns[i].k, 2 * Len(salida[conns[i].k]) + j)]
      BY <2>1 DEF Tabla, Medias, Respondidas, Pendientes
    <2>3. QED
      BY <2>1, <2>2 DEF EnOrden, Tabla, Salidas
  <1>2. QED
    BY <1>1, Inductivo, PTL

\* The visit of the table closes no connection whose peer is there and of which
\* select had seen something that is still to be read, and leaves none with a
\* complete message in its buffer.
THEOREM NadaSePierde == Spec => CierreJusto
  <1> DEFINE Justo ==
        \A i \in EnMesa :
          LET k == conns[i].k
          IN  /\ conns'[i] = Libre /\ pc = "recorre" /\ ~fin[k] /\ leidas[k] < escritas[k]
                   => k \notin listos
              /\ turno = i /\ pc \notin {"select", "recorre"} /\ pc' \in {"select", "recorre"}
                   => conns'[i] = Libre \/ Len(conns'[i].buf) < 2
  <1>1. Invariante /\ [Next]_vars => [Justo]_vars
    <2> SUFFICES ASSUME Invariante, Next, NEW i \in EnMesa
                 PROVE  /\ conns'[i] = Libre /\ pc = "recorre" /\ ~fin[conns[i].k]
                             /\ leidas[conns[i].k] < escritas[conns[i].k]
                             => conns[i].k \notin listos
                        /\ turno = i /\ pc \notin {"select", "recorre"}
                             /\ pc' \in {"select", "recorre"}
                             => conns'[i] = Libre \/ Len(conns'[i].buf) < 2
      OBVIOUS
    <2>1. /\ TypeOK /\ conns[i] # Libre /\ i \in ConnSlots
          /\ conns \in [ConnSlots -> Conn \cup {Libre}] /\ turno \in ConnSlots
      BY DEF Invariante, TypeOK, EnMesa
    <2>2. CASE CierreRemoto \/ Ociosa
      <3>1. cierra /\ pc = "recorre" /\ Yo # Libre /\ (fin[Yo.k] \/ Yo.k \notin listos)
        BY <2>2 DEF CierreRemoto, Ociosa, Lista
      <3>2. i # turno => conns'[i] = conns[i]
        BY <3>1, CierraPasa
      <3>3. QED
        BY <2>1, <3>1, <3>2 DEF Yo
    <2>3. CASE cierra /\ pc # "recorre" /\ Yo # Libre
      BY <2>3, CierraPasa
    <2>4. CASE Incompleto
      <3>1. UNCHANGED conns /\ ~(Len(Yo.buf) >= 2) /\ pc = "mensajes"
        BY <2>4 DEF Incompleto, Completo
      <3>2. turno = i => Yo.buf \in Seq(Conex \X Nat)
        BY <2>1 DEF Yo, Conn
      <3>3. turno = i => Len(Yo.buf) < 2
        BY <3>1, <3>2
      <3>4. QED
        BY <2>1, <3>1, <3>3 DEF Yo
    <2>5. CASE pc' \notin {"select", "recorre"} /\ pc # "recorre"
      BY <2>5
    <2>6. CASE pc = "select" \/ UNCHANGED <<pc, conns>>
      BY <2>1, <2>6
    <2>7. CASE Salta
      BY <2>1, <2>7 DEF Salta
    <2>8. CASE Lee
      <3>1. pc = "recorre" /\ Yo' # Libre /\ turno' = turno
        BY <2>8, LeePasa DEF Lee, Invariante, Turno
      <3>2. i # turno => conns'[i] = conns[i]
        BY <2>1, <2>8 DEF Lee
      <3>3. QED
        BY <2>1, <3>1, <3>2 DEF Yo
    <2>9. CASE \/ NadieLlama \/ Acepta \/ Rechaza \/ Tick \/ Olvida
               \/ \E k \in Conex : Conecta(k) \/ Escribe(k) \/ Recoge(k) \/ Cuelga(k)
      <3>1. CASE NadieLlama \/ Acepta \/ Rechaza \/ Olvida
        BY <2>6, <3>1 DEF NadieLlama, Acepta, Rechaza, VuelveSelect, Olvida
      <3>2. CASE Tick
        BY <2>6, <3>2 DEF Tick
      <3>3. ASSUME NEW k \in Conex, Conecta(k) \/ Escribe(k) \/ Recoge(k) \/ Cuelga(k)
            PROVE  UNCHANGED <<pc, conns>>
        <4>1. CASE Conecta(k)
          BY <4>1 DEF Conecta
        <4>2. CASE Escribe(k)
          BY <4>2, Zenon DEF Escribe
        <4>3. CASE Recoge(k)
          BY <4>3 DEF Recoge
        <4>4. CASE Cuelga(k)
          BY <4>4 DEF Cuelga
        <4>5. QED
          BY <3>3, <4>1, <4>2, <4>3, <4>4
      <3>4. QED
        BY <2>6, <2>9, <3>1, <3>2, <3>3
    <2>10. CASE Descarta \/ Responde \/ Envia \/ NoEnvia \/ Reenvia
      <3>1. /\ pc \in {"mensajes", "envia"} /\ Yo # Libre
            /\ cierra \/ pc' \notin {"select", "recorre"}
        BY <2>10 DEF Descarta, Responde, Envia, NoEnvia, Reenvia, Contesta, Abandona, Invariante,
           Turno
      <3>2. QED
        BY <2>3, <2>5, <3>1
    <2>11. CASE RecibeSuya \/ RecibeTardia \/ RecibeBasura \/ Vence
      <3>1. ASSUME NEW x, Falla(x)
            PROVE  cierra \/ pc' \notin {"select", "recorre"}
        BY <3>1 DEF Falla, Contesta, Abandona
      <3>2. pc = "espera" /\ (cierra \/ pc' \notin {"select", "recorre"})
        <4>1. CASE RecibeSuya
          BY <4>1 DEF RecibeSuya, Contesta
        <4>2. CASE RecibeTardia
          BY <4>2, <3>1 DEF RecibeTardia, Falla
        <4>3. CASE RecibeBasura \/ Vence
          BY <4>3, <3>1 DEF RecibeBasura, Vence, Falla
        <4>4. QED
          BY <2>11, <4>1, <4>2, <4>3
      <3>3. Yo # Libre
        BY <3>2 DEF Invariante, Turno
      <3>4. QED
        BY <2>3, <2>5, <3>2, <3>3
    <2>12. QED
      BY <2>2, <2>4, <2>7, <2>8, <2>9, <2>10, <2>11, Zenon DEF Next, tarea_tcp
  <1>2. QED
    BY <1>1, Inductivo, PTL DEF Spec, CierreJusto
=============================================================================
