--------------------------- MODULE UpstreamProofs ---------------------------
(***************************************************************************)
(* Proofs about the forwarder: no transaction id is shared, a request      *)
(* waits in one place, an answer is its own, and all of it implements the  *)
(* service of Reenvio.                                                     *)
(***************************************************************************)
EXTENDS Upstream, FiniteSetTheorems, WellFoundedInduction, TLAPS

Tabla == [Slots -> Entrada \cup {Libre}]

LEMMA SumaClock ==
  ASSUME NEW a \in Clock, NEW b \in Clock
  PROVE  Suma(a, b) \in Clock
  BY ClockModAssumption, SMT DEF Suma, Clock

LEMMA EnUsoEntrada ==
  ASSUME NEW t \in Tabla, NEW i \in EnUso(t)
  PROVE  i \in Slots /\ t[i] \in Entrada
  BY DEF Tabla, EnUso

LEMMA AgrupaTipo ==
  ASSUME NEW t \in Tabla, NEW i \in EnUso(t), NEW r \in Reqs
  PROVE  Agrupa(t, i, r) \in Tabla
  BY EnUsoEntrada DEF Agrupa, Tabla, Entrada

LEMMA LiberaTipo ==
  ASSUME NEW t \in Tabla, NEW i \in Slots
  PROVE  Libera(t, i) \in Tabla
  BY DEF Libera, Tabla

LEMMA NuevaTipo ==
  ASSUME NEW r \in Reqs, NEW k \in Keys, NEW u \in Ups, NEW n \in Clock, NEW x \in Txids
  PROVE  NuevaEntrada(r, k, u, n, x) \in Entrada
  BY SaludAssumption DEF NuevaEntrada, Entrada, Ups

LEMMA ReintentoTipo ==
  ASSUME NEW e \in Entrada, NEW x \in Txids, NEW n \in Clock
  PROVE  Reintento(e, x, n) \in Entrada
  BY DEF Entrada, Reintento

LEMMA TrasVencerTipo ==
  ASSUME NEW t \in Tabla, NEW S \in SUBSET EnUso(t), NEW x \in TxidsDeReintento(t, S),
         NEW n \in Clock
  PROVE  TrasVencer(t, S, x, n) \in Tabla
  <1>1. SUFFICES ASSUME NEW i \in Slots
                 PROVE  TrasVencer(t, S, x, n)[i] \in Entrada \cup {Libre}
    BY DEF TrasVencer, Tabla
  <1>2. CASE i \in AReintentar(t, S)
    <2>1. t[i] \in Entrada
      BY <1>2, EnUsoEntrada DEF AReintentar
    <2>2. x[i] \in Txids
      BY <1>2 DEF TxidsDeReintento
    <2>3. TrasVencer(t, S, x, n)[i] = Reintento(t[i], x[i], n)
      BY <1>2 DEF TrasVencer, AReintentar, AFallar
    <2>4. QED
      BY <2>1, <2>2, <2>3, ReintentoTipo
  <1>3. CASE i \notin AReintentar(t, S)
    BY <1>3 DEF TrasVencer, Tabla, AFallar, AReintentar
  <1>4. QED
    BY <1>2, <1>3

LEMMA TrasElegirTipo ==
  ASSUME NEW s \in [Ups -> SaludEntrada], NEW u \in Ups, NEW n \in Clock
  PROVE  TrasElegir(s, u, n) \in [Ups -> SaludEntrada]
  <1>1. Suma(n, BACKOFF) \in Clock
    BY SumaClock, SaludAssumption, ClockModAssumption DEF Clock
  <1>2. QED
    BY <1>1 DEF TrasElegir, SaludEntrada

LEMMA TrasFallosTipo ==
  ASSUME NEW s \in [Ups -> SaludEntrada], NEW f \in [Ups -> Nat], NEW n \in Clock
  PROVE  TrasFallos(s, f, n) \in [Ups -> SaludEntrada]
  <1>1. Suma(n, BACKOFF) \in Clock
    BY SumaClock, SaludAssumption, ClockModAssumption DEF Clock
  <1>2. SUFFICES ASSUME NEW u \in Ups
                 PROVE  TrasFallos(s, f, n)[u] \in SaludEntrada
    BY DEF TrasFallos
  <1>3. s[u] \in SaludEntrada /\ f[u] \in Nat
    OBVIOUS
  <1>4. CASE EstaCaido(s, u) \/ f[u] = 0
    BY <1>3, <1>4 DEF TrasFallos
  <1>5. CASE ~(EstaCaido(s, u) \/ f[u] = 0) /\ s[u].fallos + f[u] < CAIDO
    <2>1. TrasFallos(s, f, n)[u] = [s[u] EXCEPT !.fallos = @ + f[u]]
      BY <1>5 DEF TrasFallos
    <2>2. s[u].fallos + f[u] \in 0 .. CAIDO
      BY <1>3, <1>5, SaludAssumption DEF SaludEntrada
    <2>3. QED
      BY <1>3, <2>1, <2>2 DEF SaludEntrada
  <1>6. CASE ~(EstaCaido(s, u) \/ f[u] = 0) /\ ~(s[u].fallos + f[u] < CAIDO)
    BY <1>1, <1>6, SaludAssumption DEF TrasFallos, SaludEntrada
  <1>7. QED
    BY <1>4, <1>5, <1>6

LEMMA TrasOkTipo ==
  ASSUME NEW s \in [Ups -> SaludEntrada], NEW u
  PROVE  TrasOk(s, u) \in [Ups -> SaludEntrada]
  <1>1. 0 \in Clock /\ 0 \in 0 .. CAIDO
    BY ClockModAssumption, SaludAssumption DEF Clock
  <1>2. [fallos |-> 0, caido_hasta |-> 0] \in SaludEntrada
    BY <1>1 DEF SaludEntrada
  <1>3. QED
    BY <1>2 DEF TrasOk

LEMMA EnviaTipo ==
  ASSUME wire \subseteq Consulta, NEW ms \in SUBSET Consulta, Envia(ms)
  PROVE  wire' \subseteq Consulta
  BY DEF Envia

LEMMA EntregaTipo ==
  ASSUME buzon \in [Reqs -> Seq(Respuesta)], NEW S, NEW a \in Respuesta, Entrega(S, a)
  PROVE  buzon' \in [Reqs -> Seq(Respuesta)]
  BY DEF Entrega

LEMMA DestinoTipo ==
  ASSUME NEW n \in Nat
  PROVE  Destino(n) \in Ups
  BY SaludAssumption DEF Destino, Ups

LEMMA SlotsFinitos ==
  ASSUME NEW S \in SUBSET Slots
  PROVE  IsFiniteSet(S) /\ Cardinality(S) \in Nat
  <1>1. IsFiniteSet(Slots)
    BY PendingAssumption, FS_Interval DEF Slots
  <1>2. QED
    BY <1>1, FS_Subset, FS_CardinalityType

-----------------------------------------------------------------------------
\* Type correctness.

LEMMA TipoInicial == Init => TypeOK
  <1>1. 0 \in Clock
    BY ClockModAssumption DEF Clock
  <1>2. SaludInicial \in [Ups -> SaludEntrada]
    BY <1>1, SaludAssumption DEF SaludInicial, SaludEntrada
  <1>3. QED
    BY <1>1, <1>2, UpstreamAssumption DEF Init, TypeOK, TablaVacia

LEMMA TipoSubmitCrudo ==
  ASSUME TypeOK, NEW r \in Reqs, NEW k \in Crudas, SubmitCrudo(r, k)
  PROVE  TypeOK'
  <1> USE DEF TypeOK
  <1>1. CASE UNCHANGED <<salud, crudo, wire>>
    BY <1>1 DEF SubmitCrudo
  <1>2. ASSUME NEW i \in RawSlots, NEW u \in Ups, NEW x \in Txids,
               salud' = TrasElegir(salud, u, now),
               crudo' = [crudo EXCEPT ![i] = [txid |-> x, req |-> r, enviado |-> now]],
               Envia({[txid |-> x, key |-> k, up |-> u]})
        PROVE  TypeOK'
    <2>1. salud' \in [Ups -> SaludEntrada]
      BY <1>2, TrasElegirTipo
    <2>2. crudo' \in [RawSlots -> EntradaCruda \cup {Libre}]
      BY <1>2 DEF EntradaCruda
    <2>3. {[txid |-> x, key |-> k, up |-> u]} \in SUBSET Consulta
      BY DEF Consulta
    <2>4. wire' \subseteq Consulta
      BY <1>2, <2>3, EnviaTipo
    <2>5. QED
      BY <2>1, <2>2, <2>4 DEF SubmitCrudo
  <1>3. QED
    BY <1>1, <1>2 DEF SubmitCrudo

LEMMA TipoSubmitAgrupa ==
  ASSUME TypeOK, NEW r \in Reqs, NEW k \in Keys, SubmitAgrupa(r, k)
  PROVE  TypeOK'
  <1> USE DEF TypeOK
  <1>1. PICK i \in Slots, u \in Ups :
          /\ PuedeAgrupar(pend, k, i)
          /\ pend' = Agrupa(pend, i, r)
          /\ salud' = TrasElegir(salud, u, now)
    BY DEF SubmitAgrupa
  <1>2. i \in EnUso(pend)
    BY <1>1 DEF PuedeAgrupar, EsPrimera, MismaClave
  <1>3. pend' \in [Slots -> Entrada \cup {Libre}]
    BY <1>1, <1>2, AgrupaTipo DEF Tabla
  <1>4. salud' \in [Ups -> SaludEntrada]
    BY <1>1, TrasElegirTipo
  <1>5. QED
    BY <1>3, <1>4 DEF SubmitAgrupa

LEMMA TipoSubmitEnvia ==
  ASSUME TypeOK, NEW r \in Reqs, NEW k \in Keys, SubmitEnvia(r, k)
  PROVE  TypeOK'
  <1> USE DEF TypeOK
  <1>1. PICK i \in Slots, u \in Ups, x \in TxidsLibres(pend) :
          /\ salud' = TrasElegir(salud, u, now)
          /\ pend' = [pend EXCEPT ![i] = NuevaEntrada(r, k, u, now, x)]
          /\ Envia({[txid |-> x, key |-> k, up |-> u]})
    BY DEF SubmitEnvia
  <1>2. x \in Txids
    BY DEF TxidsLibres
  <1>3. pend' \in [Slots -> Entrada \cup {Libre}]
    BY <1>1, <1>2, NuevaTipo
  <1>4. salud' \in [Ups -> SaludEntrada]
    BY <1>1, TrasElegirTipo
  <1>5. {[txid |-> x, key |-> k, up |-> u]} \in SUBSET Consulta
    BY <1>2 DEF Consulta
  <1>6. wire' \subseteq Consulta
    BY <1>1, <1>5, EnviaTipo
  <1>7. QED
    BY <1>3, <1>4, <1>6 DEF SubmitEnvia

LEMMA TipoRespuestas ==
  ASSUME TypeOK, NEW m \in wire, RespuestaCruda(m) \/ RespuestaCasa(m) \/ Descarta(m)
  PROVE  TypeOK'
  <1> USE DEF TypeOK
  <1> DEFINE a == [res |-> "respuesta", key |-> m.key]
  <1>1. m \in Consulta /\ a \in Respuesta
    BY DEF Consulta, Respuesta
  <1>2. CASE RespuestaCruda(m)
    <2>1. PICK i \in RawSlots : /\ Entrega({crudo[i].req}, a)
                                /\ crudo' = [crudo EXCEPT ![i] = Libre]
      BY <1>2 DEF RespuestaCruda
    <2>2. buzon' \in [Reqs -> Seq(Respuesta)]
      BY <1>1, <2>1, EntregaTipo
    <2>3. QED
      BY <1>2, <2>1, <2>2 DEF RespuestaCruda, Recibe
  <1>3. CASE RespuestaCasa(m)
    <2>1. PICK i \in Slots : /\ Casa(m, i)
                             /\ pend' = Libera(pend, i)
                             /\ salud' = TrasOk(salud, pend[i].upstream_idx)
                             /\ Entrega(pend[i].waiters, a)
      BY <1>3 DEF RespuestaCasa
    <2>2. buzon' \in [Reqs -> Seq(Respuesta)]
      BY <1>1, <2>1, EntregaTipo
    <2>3. pend' \in [Slots -> Entrada \cup {Libre}]
      BY <2>1, LiberaTipo DEF Tabla
    <2>4. salud' \in [Ups -> SaludEntrada]
      BY <2>1, TrasOkTipo
    <2>5. QED
      BY <1>3, <2>2, <2>3, <2>4 DEF RespuestaCasa, Recibe
  <1>4. CASE Descarta(m)
    BY <1>4 DEF Descarta
  <1>5. QED
    BY <1>2, <1>3, <1>4

LEMMA TipoExpiraciones ==
  ASSUME TypeOK, ProcesaExpiraciones
  PROVE  TypeOK'
  <1> USE DEF TypeOK
  <1> DEFINE S == PorVencer(pend, now, TIMEOUT, ACTS_CAP)
             f == [u \in Ups |-> Cardinality({i \in S : Destino(pend[i].upstream_idx) = u})]
  <1>1. S \in SUBSET EnUso(pend) /\ S \in SUBSET Slots
    BY DEF PorVencer, Vencidas, EnUso
  <1>2. PICK x \in TxidsDeReintento(pend, S) :
          /\ pend' = TrasVencer(pend, S, x, now)
          /\ Envia({[txid |-> x[i], key |-> pend[i].key,
                      up |-> Destino(pend[i].upstream_idx + 1)] : i \in DOMAIN x})
    BY DEF ProcesaExpiraciones
  <1>3. pend' \in [Slots -> Entrada \cup {Libre}]
    BY <1>1, <1>2, TrasVencerTipo DEF Tabla
  <1>4. f \in [Ups -> Nat]
    <2>1. ASSUME NEW u \in Ups
          PROVE  Cardinality({i \in S : Destino(pend[i].upstream_idx) = u}) \in Nat
      <3>1. {i \in S : Destino(pend[i].upstream_idx) = u} \in SUBSET Slots
        BY <1>1
      <3>2. QED
        BY <3>1, SlotsFinitos
    <2>2. QED
      BY <2>1
  <1>5. salud' \in [Ups -> SaludEntrada]
    <2>1. salud' = TrasFallos(salud, f, now)
      BY DEF ProcesaExpiraciones
    <2>2. QED
      BY <1>4, <2>1, TrasFallosTipo
  <1>6. wire' \subseteq Consulta
    <2>1. ASSUME NEW i \in DOMAIN x
          PROVE  [txid |-> x[i], key |-> pend[i].key,
                  up |-> Destino(pend[i].upstream_idx + 1)] \in Consulta
      <3>1. x[i] \in Txids /\ i \in EnUso(pend)
        BY <1>1 DEF TxidsDeReintento, AReintentar
      <3>2. pend[i].key \in Keys /\ pend[i].upstream_idx + 1 \in Nat
        BY <3>1, EnUsoEntrada DEF Tabla, Entrada
      <3>3. QED
        BY <3>1, <3>2, DestinoTipo DEF Consulta
    <2>2. {[txid |-> x[i], key |-> pend[i].key,
            up |-> Destino(pend[i].upstream_idx + 1)] : i \in DOMAIN x} \in SUBSET Consulta
      BY <2>1
    <2>3. QED
      BY <1>2, <2>2, EnviaTipo
  <1>7. crudo' \in [RawSlots -> EntradaCruda \cup {Libre}]
    BY DEF ProcesaExpiraciones, CrudoTrasVencer
  <1>8. buzon' \in [Reqs -> Seq(Respuesta)]
    <2>1. ASSUME NEW r \in Reqs
          PROVE  TrasFallar(AFallar(pend, S), r) \in Seq(Respuesta)
      <3> DEFINE donde == {i \in AFallar(pend, S) : r \in pend[i].waiters}
                 j == CHOOSE i \in donde : TRUE
      <3>1. CASE donde = {}
        BY <3>1 DEF TrasFallar
      <3>2. CASE donde # {}
        <4>1. j \in EnUso(pend)
          BY <1>1, <3>2 DEF AFallar
        <4>2. pend[j].key \in Keys
          BY <4>1, EnUsoEntrada DEF Tabla, Entrada
        <4>3. [res |-> "servfail", key |-> pend[j].key] \in Respuesta
          BY <4>2 DEF Respuesta
        <4>4. QED
          BY <3>2, <4>3 DEF TrasFallar
      <3>3. QED
        BY <3>1, <3>2
    <2>2. QED
      BY <2>1 DEF ProcesaExpiraciones
  <1>9. lag' \in 0 .. MaxLag
    BY UpstreamAssumption DEF ProcesaExpiraciones
  <1>10. QED
    BY <1>3, <1>5, <1>6, <1>7, <1>8, <1>9 DEF ProcesaExpiraciones

LEMMA TipoTick ==
  ASSUME TypeOK, Tick
  PROVE  TypeOK'
  <1> USE DEF TypeOK
  <1>1. now' \in Clock
    BY SumaClock, ClockModAssumption DEF Tick, Clock
  <1>2. lag' \in 0 .. MaxLag
    BY UpstreamAssumption DEF Tick
  <1>3. QED
    BY <1>1, <1>2 DEF Tick

LEMMA TipoCliente ==
  ASSUME TypeOK, NEW r \in Reqs, Consume(r) \/ Desiste(r)
  PROVE  TypeOK'
  <1> USE DEF TypeOK
  <1>1. pedida' = [pedida EXCEPT ![r] = Nada]
    BY DEF Consume, Desiste
  <1>2. pedida' \in [Reqs -> Keys \cup Crudas \cup {Nada}]
    BY <1>1
  <1>3. CASE Consume(r)
    <2>1. buzon' \in [Reqs -> Seq(Respuesta)]
      BY <1>3 DEF Consume
    <2>2. QED
      BY <1>2, <1>3, <2>1 DEF Consume
  <1>4. CASE Desiste(r)
    BY <1>2, <1>4 DEF Desiste
  <1>5. QED
    BY <1>3, <1>4

\* Every variable keeps its type in every reachable state, whatever the sizes
\* of the tables, the timeouts and the number of upstreams.
THEOREM TipoCorrecto == Spec => []TypeOK
  <1>1. TypeOK /\ [Next]_vars => TypeOK'
    <2> SUFFICES ASSUME TypeOK, [Next]_vars
                 PROVE  TypeOK'
      OBVIOUS
    <2>1. CASE UNCHANGED vars
      BY <2>1 DEF vars, TypeOK
    <2>2. CASE Next
      BY <2>2, TipoSubmitCrudo, TipoSubmitAgrupa, TipoSubmitEnvia, TipoRespuestas,
         TipoExpiraciones, TipoTick, TipoCliente DEF Next
    <2>3. QED
      BY <2>1, <2>2
  <1>2. QED
    BY TipoInicial, <1>1, PTL DEF Spec

-----------------------------------------------------------------------------
\* Transaction ids.

\* The entries in use of a table have different ids.
Distintos(t) == \A i, j \in EnUso(t) : t[i].txid = t[j].txid => i = j

\* The ids of one run of the timer stay apart from each other and from those of
\* the entries it does not touch.
LEMMA TrasVencerTxids ==
  ASSUME NEW t \in Tabla, NEW S \in SUBSET EnUso(t), NEW x \in TxidsDeReintento(t, S),
         NEW n \in Clock,
         Distintos(t)
  PROVE  Distintos(TrasVencer(t, S, x, n))
  <1> DEFINE R == AReintentar(t, S)
             F == AFallar(t, S)
             t2 == TrasVencer(t, S, x, n)
  <1>1. ASSUME NEW k \in EnUso(t2)
        PROVE  /\ k \in Slots
               /\ k \in EnUso(t)
               /\ k \in R => t2[k].txid = x[k]
               /\ k \notin R => k \notin S /\ t2[k] = t[k]
    <2>1. k \in Slots /\ t2[k] # Libre
      BY DEF EnUso
    <2>2. CASE k \in R
      BY <2>1, <2>2 DEF TrasVencer, AReintentar, Reintento
    <2>3. CASE k \notin R
      <3>1. k \notin F
        BY <2>1, <2>3 DEF TrasVencer
      <3>2. t2[k] = t[k]
        BY <2>1, <2>3, <3>1 DEF TrasVencer
      <3>3. k \in EnUso(t)
        BY <2>1, <3>2 DEF EnUso
      <3>4. t[k].reintentos \in {0, 1}
        BY <3>3, EnUsoEntrada DEF Entrada
      <3>5. QED
        BY <2>1, <2>3, <3>1, <3>2, <3>3, <3>4 DEF AReintentar, AFallar
    <2>4. QED
      BY <2>2, <2>3
  <1>2. ASSUME NEW k \in EnUso(t2), NEW l \in EnUso(t2), k \in R, l \notin R
        PROVE  t2[k].txid # t2[l].txid
    <2>1. l \in EnUso(t) /\ l \notin S /\ t2[l] = t[l] /\ t2[k].txid = x[k]
      BY <1>1, <1>2
    <2>2. x[k] # t[l].txid
      BY <1>2, <2>1 DEF TxidsDeReintento
    <2>3. QED
      BY <2>1, <2>2
  <1>3. ASSUME NEW k \in EnUso(t2), NEW l \in EnUso(t2), k \in R, l \in R, k < l
        PROVE  t2[k].txid # t2[l].txid
    <2>1. x[l] # x[k]
      BY <1>3 DEF TxidsDeReintento
    <2>2. QED
      BY <1>1, <1>3, <2>1
  <1> HIDE DEF R, F, t2
  <1>4. ASSUME NEW i \in EnUso(t2), NEW j \in EnUso(t2), i # j
        PROVE  t2[i].txid # t2[j].txid
    <2>1. CASE i \notin R /\ j \notin R
      BY <1>1, <1>4, <2>1 DEF Distintos
    <2>2. CASE i \in R /\ j \in R
      <3>1. i < j \/ j < i
        BY <1>1, <1>4 DEF Slots
      <3>2. QED
        BY <1>3, <2>2, <3>1
    <2>3. QED
      BY <1>2, <1>4, <2>1, <2>2
  <1>5. QED
    BY <1>4 DEF Distintos, t2

LEMMA TxidPaso ==
  ASSUME TypeOK, TxidUnico, [Next]_vars
  PROVE  TxidUnico'
  <1> USE DEF TypeOK
  <1>1. CASE UNCHANGED pend
    BY <1>1 DEF TxidUnico, EnUso
  <1>2. ASSUME NEW r \in Reqs, NEW k \in Keys, SubmitAgrupa(r, k)
        PROVE  TxidUnico'
    <2>1. PICK i \in Slots : PuedeAgrupar(pend, k, i) /\ pend' = Agrupa(pend, i, r)
      BY <1>2 DEF SubmitAgrupa
    <2>2. i \in EnUso(pend)
      BY <2>1 DEF PuedeAgrupar, EsPrimera, MismaClave
    <2>3. pend[i] \in Entrada
      BY <2>2, EnUsoEntrada DEF Tabla
    <2>4. ASSUME NEW j \in EnUso(pend')
          PROVE  j \in EnUso(pend) /\ pend'[j].txid = pend[j].txid
      BY <2>1, <2>2, <2>3 DEF Agrupa, EnUso, Entrada
    <2>5. QED
      BY <2>4 DEF TxidUnico
  <1>3. ASSUME NEW r \in Reqs, NEW k \in Keys, SubmitEnvia(r, k)
        PROVE  TxidUnico'
    <2>1. PICK i \in Slots, u \in Ups, x \in TxidsLibres(pend) :
            pend' = [pend EXCEPT ![i] = NuevaEntrada(r, k, u, now, x)]
      BY <1>3 DEF SubmitEnvia
    <2>2. pend'[i].txid = x
      BY <2>1 DEF NuevaEntrada
    <2>3. ASSUME NEW j \in EnUso(pend'), j # i
          PROVE  j \in EnUso(pend) /\ pend'[j].txid = pend[j].txid /\ pend[j].txid # x
      BY <2>1, <2>3 DEF EnUso, TxidsLibres
    <2>4. QED
      BY <2>2, <2>3 DEF TxidUnico
  <1>4. ASSUME NEW m \in wire, RespuestaCasa(m)
        PROVE  TxidUnico'
    <2>1. PICK i \in Slots : pend' = Libera(pend, i)
      BY <1>4 DEF RespuestaCasa
    <2>2. ASSUME NEW j \in EnUso(pend')
          PROVE  j \in EnUso(pend) /\ pend'[j] = pend[j]
      BY <2>1 DEF EnUso, Libera
    <2>3. QED
      BY <2>2 DEF TxidUnico
  <1>5. CASE ProcesaExpiraciones
    <2> DEFINE S == PorVencer(pend, now, TIMEOUT, ACTS_CAP)
    <2>1. S \in SUBSET EnUso(pend)
      BY DEF PorVencer, Vencidas
    <2>2. PICK x \in TxidsDeReintento(pend, S) : pend' = TrasVencer(pend, S, x, now)
      BY <1>5 DEF ProcesaExpiraciones
    <2> HIDE DEF S
    <2>3. pend \in Tabla /\ now \in Clock /\ Distintos(pend)
      BY DEF Tabla, TxidUnico, Distintos
    <2>4. Distintos(TrasVencer(pend, S, x, now))
      BY <2>1, <2>2, <2>3, TrasVencerTxids
    <2>5. QED
      BY <2>2, <2>4 DEF Distintos, TxidUnico
  <1>6. QED
    BY <1>1, <1>2, <1>3, <1>4, <1>5
    DEF Next, vars, SubmitCrudo, RespuestaCruda, Descarta, Tick, Consume, Desiste

\* No two live entries share a transaction id: one answer can never be taken for
\* the answer to another query in flight.
THEOREM TxidsUnicos == Spec => []TxidUnico
  <1>1. Init => TxidUnico
    BY DEF Init, TxidUnico, EnUso, TablaVacia
  <1>2. TypeOK /\ TxidUnico /\ [Next]_vars => TxidUnico'
    BY TxidPaso
  <1>3. QED
    BY TipoCorrecto, <1>1, <1>2, PTL DEF Spec

-----------------------------------------------------------------------------
\* Where a request waits, and what it is answered.

Espera == EsperaTabla /\ EsperaCrudo /\ RespuestaPropia /\ LibreSinCorreo

\* A client that asks now waits nowhere and has received nothing.
LEMMA NuevaPeticion ==
  ASSUME TypeOK, Espera, NEW r \in Reqs, pedida[r] = Nada
  PROVE  /\ \A i \in EnUso(pend) : r \notin pend[i].waiters
         /\ \A i \in CrudosEnUso : crudo[i].req # r
         /\ buzon[r] = <<>>
  <1>1. ASSUME NEW i \in EnUso(pend)
        PROVE  r \notin pend[i].waiters
    <2>1. pend[i].key \in Keys
      BY EnUsoEntrada DEF TypeOK, Tabla, Entrada
    <2>2. QED
      BY <2>1, UpstreamAssumption DEF Espera, EsperaTabla
  <1>2. ASSUME NEW i \in CrudosEnUso
        PROVE  crudo[i].req # r
    BY UpstreamAssumption DEF Espera, EsperaCrudo
  <1>3. QED
    BY <1>1, <1>2 DEF Espera, LibreSinCorreo

LEMMA EsperaSubmitCrudo ==
  ASSUME TypeOK, Espera, NEW r \in Reqs, NEW k \in Crudas, SubmitCrudo(r, k)
  PROVE  Espera'
  <1> USE DEF TypeOK
  <1>1. /\ pedida[r] = Nada /\ pedida' = [pedida EXCEPT ![r] = k]
        /\ UNCHANGED <<pend, buzon>>
    BY DEF SubmitCrudo
  <1>2. k # Nada /\ k \notin Keys
    BY UpstreamAssumption
  <1>3. EsperaTabla'
    BY <1>1, NuevaPeticion DEF Espera, EsperaTabla, EnUso
  <1>4. EsperaCrudo'
    <2>1. CASE UNCHANGED crudo
      BY <1>1, <2>1, NuevaPeticion DEF Espera, EsperaCrudo, CrudosEnUso
    <2>2. CASE \E i \in RawSlots, x \in Txids :
                 crudo' = [crudo EXCEPT ![i] = [txid |-> x, req |-> r, enviado |-> now]]
      <3>1. PICK i \in RawSlots, x \in Txids :
              crudo' = [crudo EXCEPT ![i] = [txid |-> x, req |-> r, enviado |-> now]]
        BY <2>2
      <3>2. crudo'[i].req = r
        BY <3>1
      <3>3. ASSUME NEW j \in CrudosEnUso', j # i
            PROVE  /\ j \in CrudosEnUso /\ crudo'[j] = crudo[j] /\ crudo[j].req # r
                   /\ crudo[j].req \in Reqs
        <4>1. j \in CrudosEnUso /\ crudo'[j] = crudo[j]
          BY <3>1, <3>3 DEF CrudosEnUso
        <4>2. QED
          BY <1>1, <4>1, NuevaPeticion DEF CrudosEnUso, EntradaCruda
      <3>4. ASSUME NEW j \in CrudosEnUso'
            PROVE  pedida'[crudo'[j].req] \in Crudas /\ buzon'[crudo'[j].req] = <<>>
        BY <1>1, <3>2, <3>3, NuevaPeticion DEF Espera, EsperaCrudo
      <3>5. ASSUME NEW j \in CrudosEnUso', NEW l \in CrudosEnUso', crudo'[j].req = crudo'[l].req
            PROVE  j = l
        BY <3>2, <3>3, <3>5 DEF Espera, EsperaCrudo
      <3>6. QED
        BY <3>4, <3>5 DEF EsperaCrudo
    <2>3. QED
      BY <2>1, <2>2 DEF SubmitCrudo
  <1>5. RespuestaPropia'
    BY <1>1, <1>2 DEF Espera, RespuestaPropia
  <1>6. LibreSinCorreo'
    BY <1>1, <1>2 DEF Espera, LibreSinCorreo
  <1>7. QED
    BY <1>3, <1>4, <1>5, <1>6 DEF Espera

\* A question taken into slot i of the table, whatever the slot held before.
LEMMA EsperaNueva ==
  ASSUME TypeOK, Espera, NEW r \in Reqs, NEW k \in Keys, NEW i \in Slots,
         pedida[r] = Nada, pedida' = [pedida EXCEPT ![r] = k],
         UNCHANGED <<crudo, buzon>>,
         \A j \in EnUso(pend') \ {i} : j \in EnUso(pend) /\ pend'[j] = pend[j],
         pend'[i].key = k,
         \/ pend'[i].waiters = {r}
         \/ i \in EnUso(pend) /\ pend[i].key = k /\ pend'[i].waiters = pend[i].waiters \cup {r}
  PROVE  Espera'
  <1> USE DEF TypeOK
  <1>1. k # Nada
    BY UpstreamAssumption
  <1>2. EsperaTabla'
    <2>1. ASSUME NEW j \in EnUso(pend'), NEW q \in Reqs, q \in pend'[j].waiters
          PROVE  pedida'[q] = pend'[j].key /\ buzon'[q] = <<>>
      <3>1. CASE q = r
        <4>1. j = i
          BY <2>1, <3>1, NuevaPeticion
        <4>2. QED
          BY <3>1, <4>1, NuevaPeticion
      <3>2. CASE q # r
        BY <2>1, <3>2 DEF Espera, EsperaTabla
      <3>3. QED
        BY <3>1, <3>2
    <2>2. ASSUME NEW j \in EnUso(pend'), NEW l \in EnUso(pend'), NEW q \in Reqs,
                 q \in pend'[j].waiters, q \in pend'[l].waiters
          PROVE  j = l
      <3>1. CASE q = r
        BY <2>2, <3>1, NuevaPeticion
      <3>2. CASE q # r
        <4>1. /\ j \in EnUso(pend) /\ q \in pend[j].waiters
              /\ l \in EnUso(pend) /\ q \in pend[l].waiters
          BY <2>2, <3>2
        <4>2. QED
          BY <4>1 DEF Espera, EsperaTabla
      <3>3. QED
        BY <3>1, <3>2
    <2>3. QED
      BY <2>1, <2>2 DEF EsperaTabla
  <1>3. EsperaCrudo'
    BY NuevaPeticion DEF Espera, EsperaCrudo, CrudosEnUso, EntradaCruda
  <1>4. RespuestaPropia'
    BY NuevaPeticion DEF Espera, RespuestaPropia
  <1>5. LibreSinCorreo'
    BY <1>1 DEF Espera, LibreSinCorreo
  <1>6. QED
    BY <1>2, <1>3, <1>4, <1>5 DEF Espera

LEMMA EsperaSubmitAgrupa ==
  ASSUME TypeOK, Espera, NEW r \in Reqs, NEW k \in Keys, SubmitAgrupa(r, k)
  PROVE  Espera'
  <1>1. PICK i \in Slots : PuedeAgrupar(pend, k, i) /\ pend' = Agrupa(pend, i, r)
    BY DEF SubmitAgrupa
  <1>2. i \in EnUso(pend) /\ pend[i].key = k
    BY <1>1 DEF PuedeAgrupar, EsPrimera, MismaClave
  <1>3. pend[i] \in Entrada
    BY <1>2, EnUsoEntrada DEF TypeOK, Tabla
  <1>4. pend'[i].key = k /\ pend'[i].waiters = pend[i].waiters \cup {r}
    BY <1>1, <1>2, <1>3 DEF TypeOK, Agrupa, Entrada
  <1>5. \A j \in EnUso(pend') \ {i} : j \in EnUso(pend) /\ pend'[j] = pend[j]
    BY <1>1 DEF TypeOK, Agrupa, EnUso
  <1>6. QED
    BY <1>2, <1>4, <1>5, EsperaNueva DEF SubmitAgrupa

LEMMA EsperaSubmitEnvia ==
  ASSUME TypeOK, Espera, NEW r \in Reqs, NEW k \in Keys, SubmitEnvia(r, k)
  PROVE  Espera'
  <1>1. PICK i \in Slots, u \in Ups, x \in TxidsLibres(pend) :
          pend' = [pend EXCEPT ![i] = NuevaEntrada(r, k, u, now, x)]
    BY DEF SubmitEnvia
  <1>2. pend'[i].key = k /\ pend'[i].waiters = {r}
    BY <1>1 DEF TypeOK, NuevaEntrada
  <1>3. \A j \in EnUso(pend') \ {i} : j \in EnUso(pend) /\ pend'[j] = pend[j]
    BY <1>1 DEF TypeOK, EnUso
  <1>4. QED
    BY <1>2, <1>3, EsperaNueva DEF SubmitEnvia

LEMMA EsperaRespuestaCruda ==
  ASSUME TypeOK, Espera, NEW m \in wire, RespuestaCruda(m)
  PROVE  Espera'
  <1> USE DEF TypeOK
  <1>1. PICK i \in RawSlots :
          /\ i \in CrudosEnUso
          /\ Entrega({crudo[i].req}, [res |-> "respuesta", key |-> m.key])
          /\ crudo' = [crudo EXCEPT ![i] = Libre]
    BY DEF RespuestaCruda, EsPrimera
  <1> DEFINE q == crudo[i].req
  <1>2. UNCHANGED <<pend, pedida>>
    BY DEF RespuestaCruda
  <1>3. q \in Reqs /\ pedida[q] \in Crudas /\ buzon[q] = <<>>
    BY <1>1 DEF Espera, EsperaCrudo, CrudosEnUso, EntradaCruda
  <1>4. \A r \in Reqs \ {q} : buzon'[r] = buzon[r]
    BY <1>1 DEF Entrega
  <1>5. Len(buzon'[q]) <= 1
    BY <1>1, <1>3 DEF Entrega
  <1>6. \A j \in CrudosEnUso' : j \in CrudosEnUso /\ crudo'[j] = crudo[j] /\ crudo[j].req \in Reqs \ {q}
    BY <1>1 DEF CrudosEnUso, EntradaCruda, Espera, EsperaCrudo
  <1>7. \A j \in EnUso(pend) : pend[j].key \in Keys
    BY EnUsoEntrada DEF Tabla, Entrada
  <1> HIDE DEF q
  <1>8. EsperaTabla'
    BY <1>2, <1>3, <1>4, <1>7, UpstreamAssumption DEF Espera, EsperaTabla, EnUso
  <1>9. EsperaCrudo'
    BY <1>2, <1>4, <1>6 DEF Espera, EsperaCrudo
  <1>10. RespuestaPropia'
    <2>1. ASSUME NEW r \in Reqs
          PROVE  /\ Len(buzon'[r]) <= 1
                 /\ pedida'[r] \in Keys /\ buzon'[r] # <<>> => buzon'[r][1].key = pedida'[r]
      <3>1. CASE r = q
        BY <1>2, <1>3, <1>5, <3>1, UpstreamAssumption
      <3>2. CASE r # q
        BY <1>2, <1>4, <3>2 DEF Espera, RespuestaPropia
      <3>3. QED
        BY <3>1, <3>2
    <2>2. QED
      BY <2>1 DEF RespuestaPropia
  <1>11. LibreSinCorreo'
    BY <1>2, <1>3, <1>4, UpstreamAssumption DEF Espera, LibreSinCorreo
  <1>12. QED
    BY <1>8, <1>9, <1>10, <1>11 DEF Espera

\* The requests of S, which wait in the table, are answered about the question
\* they asked, and no longer wait.
LEMMA EsperaEntregada ==
  ASSUME TypeOK, Espera, UNCHANGED pedida,
         NEW S \in SUBSET Reqs,
         \A r \in S : /\ pedida[r] \in Keys
                      /\ buzon[r] = <<>>
                      /\ Len(buzon'[r]) <= 1
                      /\ buzon'[r][1].key = pedida[r],
         \A r \in Reqs \ S : buzon'[r] = buzon[r],
         \A j \in EnUso(pend') : /\ j \in EnUso(pend)
                                 /\ pend'[j].key = pend[j].key
                                 /\ pend'[j].waiters = pend[j].waiters
                                 /\ pend[j].waiters \cap S = {},
         \A j \in CrudosEnUso' : j \in CrudosEnUso /\ crudo'[j] = crudo[j]
  PROVE  Espera'
  <1> USE DEF TypeOK
  <1>1. EsperaTabla'
    BY DEF Espera, EsperaTabla
  <1>2. EsperaCrudo'
    <2>1. \A j \in CrudosEnUso : crudo[j].req \in Reqs \ S
      BY UpstreamAssumption DEF Espera, EsperaCrudo, CrudosEnUso, EntradaCruda
    <2>2. QED
      BY <2>1 DEF Espera, EsperaCrudo
  <1>3. RespuestaPropia'
    <2>1. ASSUME NEW r \in Reqs
          PROVE  /\ Len(buzon'[r]) <= 1
                 /\ pedida'[r] \in Keys /\ buzon'[r] # <<>> => buzon'[r][1].key = pedida'[r]
      <3>1. CASE r \in S
        BY <3>1
      <3>2. CASE r \notin S
        BY <3>2 DEF Espera, RespuestaPropia
      <3>3. QED
        BY <3>1, <3>2
    <2>2. QED
      BY <2>1 DEF RespuestaPropia
  <1>4. LibreSinCorreo'
    BY UpstreamAssumption DEF Espera, LibreSinCorreo
  <1>5. QED
    BY <1>1, <1>2, <1>3, <1>4 DEF Espera

LEMMA EsperaRespuestaCasa ==
  ASSUME TypeOK, Espera, NEW m \in wire, RespuestaCasa(m)
  PROVE  Espera'
  <1> USE DEF TypeOK
  <1>1. PICK i \in Slots :
          /\ Casa(m, i)
          /\ pend' = Libera(pend, i)
          /\ Entrega(pend[i].waiters, [res |-> "respuesta", key |-> m.key])
    BY DEF RespuestaCasa
  <1>2. i \in EnUso(pend) /\ pend[i].key = m.key
    BY <1>1 DEF Casa, EsPrimera, PreguntaCasa
  <1>3. pend[i].key \in Keys /\ pend[i].waiters \in SUBSET Reqs
    BY <1>2, EnUsoEntrada DEF Tabla, Entrada
  <1>4. ASSUME NEW r \in pend[i].waiters
        PROVE  /\ pedida[r] \in Keys
               /\ buzon[r] = <<>>
               /\ Len(buzon'[r]) <= 1
               /\ buzon'[r][1].key = pedida[r]
    <2>1. r \in Reqs /\ pedida[r] = pend[i].key /\ buzon[r] = <<>>
      BY <1>2, <1>3, <1>4 DEF Espera, EsperaTabla
    <2>2. buzon'[r] = Append(<<>>, [res |-> "respuesta", key |-> m.key])
      BY <1>1, <1>4, <2>1 DEF Entrega
    <2>3. QED
      BY <1>2, <1>3, <2>1, <2>2
  <1>5. \A r \in Reqs \ pend[i].waiters : buzon'[r] = buzon[r]
    BY <1>1 DEF Entrega
  <1>6. ASSUME NEW j \in EnUso(pend')
        PROVE  /\ j \in EnUso(pend)
               /\ pend'[j] = pend[j]
               /\ pend[j].waiters \cap pend[i].waiters = {}
    <2>1. j \in EnUso(pend) /\ j # i /\ pend'[j] = pend[j]
      BY <1>1, <1>6 DEF EnUso, Libera
    <2>2. QED
      BY <1>2, <1>3, <2>1 DEF Espera, EsperaTabla
  <1>7. UNCHANGED <<crudo, pedida>>
    BY DEF RespuestaCasa
  <1>8. \A j \in CrudosEnUso' : j \in CrudosEnUso /\ crudo'[j] = crudo[j]
    BY <1>7 DEF CrudosEnUso
  <1>9. QED
    BY <1>3, <1>4, <1>5, <1>6, <1>7, <1>8, EsperaEntregada

LEMMA EsperaExpiraciones ==
  ASSUME TypeOK, Espera, ProcesaExpiraciones
  PROVE  Espera'
  <1> USE DEF TypeOK
  <1> DEFINE V == PorVencer(pend, now, TIMEOUT, ACTS_CAP)
             F == AFallar(pend, V)
             S == UNION {pend[i].waiters : i \in F}
  <1>1. V \in SUBSET EnUso(pend)
    BY DEF PorVencer, Vencidas
  <1>2. F \in SUBSET EnUso(pend)
    BY <1>1 DEF AFallar
  <1>3. PICK x \in TxidsDeReintento(pend, V) : pend' = TrasVencer(pend, V, x, now)
    BY DEF ProcesaExpiraciones
  <1>4. \A r \in Reqs : buzon'[r] = TrasFallar(F, r)
    BY DEF ProcesaExpiraciones
  <1> HIDE DEF V
  <1>5. ASSUME NEW j \in EnUso(pend')
        PROVE  /\ j \in EnUso(pend) \ F
               /\ pend'[j].key = pend[j].key
               /\ pend'[j].waiters = pend[j].waiters
    <2>1. j \in Slots /\ pend'[j] # Libre
      BY DEF EnUso
    <2>2. CASE j \in AReintentar(pend, V)
      BY <1>1, <1>3, <2>1, <2>2 DEF TrasVencer, AReintentar, AFallar, Reintento
    <2>3. CASE j \notin AReintentar(pend, V)
      BY <1>3, <2>1, <2>3 DEF TrasVencer, EnUso
    <2>4. QED
      BY <2>2, <2>3
  <1> HIDE DEF F
  <1>6. \A i \in EnUso(pend) : pend[i].key \in Keys /\ pend[i].waiters \in SUBSET Reqs
    BY EnUsoEntrada DEF Tabla, Entrada
  <1>7. S \in SUBSET Reqs
    BY <1>2, <1>6
  <1>8. ASSUME NEW r \in S
        PROVE  /\ pedida[r] \in Keys
               /\ buzon[r] = <<>>
               /\ Len(buzon'[r]) <= 1
               /\ buzon'[r][1].key = pedida[r]
    <2> DEFINE donde == {i \in F : r \in pend[i].waiters}
               i == CHOOSE j \in donde : TRUE
    <2>1. donde # {}
      OBVIOUS
    <2>2. i \in donde
      BY <2>1
    <2>3. i \in EnUso(pend) /\ r \in pend[i].waiters /\ r \in Reqs
      BY <1>2, <1>7, <2>2
    <2>4. buzon'[r] = Append(buzon[r], [res |-> "servfail", key |-> pend[i].key])
      BY <1>4, <2>1, <2>3 DEF TrasFallar
    <2> HIDE DEF i
    <2>5. pedida[r] = pend[i].key /\ buzon[r] = <<>>
      BY <2>3 DEF Espera, EsperaTabla
    <2>6. QED
      BY <1>6, <2>3, <2>4, <2>5
  <1>9. ASSUME NEW r \in Reqs \ S
        PROVE  buzon'[r] = buzon[r]
    BY <1>4 DEF TrasFallar
  <1>10. ASSUME NEW j \in EnUso(pend')
         PROVE  pend[j].waiters \cap S = {}
    <2>1. \A i \in F : pend[j].waiters \cap pend[i].waiters = {}
      BY <1>2, <1>5, <1>6 DEF Espera, EsperaTabla
    <2>2. QED
      BY <2>1
  <1>11. UNCHANGED pedida
    BY DEF ProcesaExpiraciones
  <1>12. \A j \in CrudosEnUso' : j \in CrudosEnUso /\ crudo'[j] = crudo[j]
    BY DEF ProcesaExpiraciones, CrudoTrasVencer, CrudosEnUso
  <1> HIDE DEF S
  <1>13. QED
    BY <1>5, <1>7, <1>8, <1>9, <1>10, <1>11, <1>12, EsperaEntregada

\* A client that reads its answer, or gives up, waits nowhere.
LEMMA EsperaCliente ==
  ASSUME TypeOK, Espera, NEW r \in Reqs,
         UNCHANGED <<pend, crudo>>,
         \A i \in EnUso(pend) : r \notin pend[i].waiters,
         \A i \in CrudosEnUso : crudo[i].req # r,
         pedida' = [pedida EXCEPT ![r] = Nada],
         buzon' = [buzon EXCEPT ![r] = <<>>]
  PROVE  Espera'
  <1> USE DEF TypeOK
  <1>1. EsperaTabla'
    BY DEF Espera, EsperaTabla, EnUso
  <1>2. EsperaCrudo'
    <2>1. \A i \in CrudosEnUso : crudo[i].req \in Reqs \ {r}
      BY DEF CrudosEnUso, EntradaCruda
    <2>2. QED
      BY <2>1 DEF Espera, EsperaCrudo, CrudosEnUso
  <1>3. RespuestaPropia'
    <2>1. Len(<<>>) = 0
      OBVIOUS
    <2>2. QED
      BY <2>1, UpstreamAssumption DEF Espera, RespuestaPropia
  <1>4. LibreSinCorreo'
    BY DEF Espera, LibreSinCorreo
  <1>5. QED
    BY <1>1, <1>2, <1>3, <1>4 DEF Espera

LEMMA EsperaPaso ==
  ASSUME TypeOK, Espera, [Next]_vars
  PROVE  Espera'
  <1>1. CASE UNCHANGED <<pend, crudo, pedida, buzon>>
    BY <1>1 DEF Espera, EsperaTabla, EsperaCrudo, RespuestaPropia, LibreSinCorreo, EnUso,
       CrudosEnUso
  <1>2. ASSUME NEW r \in Reqs, Consume(r)
        PROVE  Espera'
    <2>1. \A i \in EnUso(pend) : r \notin pend[i].waiters
      BY <1>2 DEF Consume, Espera, EsperaTabla
    <2>2. \A i \in CrudosEnUso : crudo[i].req # r
      BY <1>2 DEF Consume, Espera, EsperaCrudo
    <2>3. QED
      BY <1>2, <2>1, <2>2, EsperaCliente DEF Consume
  <1>3. ASSUME NEW r \in Reqs, Desiste(r)
        PROVE  Espera'
    <2>1. \A i \in EnUso(pend) : r \notin pend[i].waiters
      BY <1>3 DEF Desiste, EnTabla
    <2>2. \A i \in CrudosEnUso : crudo[i].req # r
      BY <1>3 DEF Desiste, EnCrudo
    <2>3. buzon' = [buzon EXCEPT ![r] = <<>>]
      BY <1>3 DEF Desiste, TypeOK
    <2>4. QED
      BY <1>3, <2>1, <2>2, <2>3, EsperaCliente DEF Desiste
  <1>4. QED
    BY <1>1, <1>2, <1>3, EsperaSubmitCrudo, EsperaSubmitAgrupa, EsperaSubmitEnvia,
       EsperaRespuestaCruda, EsperaRespuestaCasa, EsperaExpiraciones
    DEF Next, vars, Descarta, Tick

LEMMA InvarianteSiempre == Spec => []Invariante
  <1>1. Init => Invariante
    <2>1. Init => EnUso(pend) = {} /\ CrudosEnUso = {}
      BY DEF Init, EnUso, CrudosEnUso, TablaVacia
    <2>2. Init => RespuestaPropia /\ LibreSinCorreo
      BY DEF Init, RespuestaPropia, LibreSinCorreo
    <2>3. QED
      BY <2>1, <2>2, TipoInicial DEF Invariante, TxidUnico, EsperaUnica, EsperaTabla, EsperaCrudo
  <1>2. Invariante /\ TypeOK' /\ [Next]_vars => Invariante'
    BY TxidPaso, EsperaPaso DEF Invariante, EsperaUnica, Espera
  <1>3. QED
    BY TipoCorrecto, <1>1, <1>2, PTL DEF Spec

\* A request waits in one place only and has not been answered yet.
THEOREM EsperasUnicas == Spec => []EsperaUnica
  <1>1. Invariante => EsperaUnica
    BY DEF Invariante
  <1>2. QED
    BY InvarianteSiempre, <1>1, PTL

\* A client gets one answer at most, about the question it asked.
THEOREM RespuestasPropias == Spec => []RespuestaPropia
  <1>1. Invariante => RespuestaPropia
    BY DEF Invariante
  <1>2. QED
    BY InvarianteSiempre, <1>1, PTL

-----------------------------------------------------------------------------
\* Which answers are accepted, and what the clients see of the forwarder.

LEMMA EnTablaPropia ==
  ASSUME Invariante, NEW i \in EnUso(pend), NEW r \in pend[i].waiters
  PROVE  /\ r \in Reqs
         /\ pedida[r] = pend[i].key
         /\ pedida[r] \in Keys
         /\ buzon[r] = <<>>
         /\ \A j \in EnUso(pend) : r \in pend[j].waiters => i = j
  <1>1. pend[i] \in Entrada
    BY EnUsoEntrada DEF Invariante, TypeOK, Tabla
  <1>2. r \in Reqs /\ pend[i].key \in Keys
    BY <1>1 DEF Entrada
  <1>3. QED
    BY <1>2 DEF Invariante, EsperaUnica, EsperaTabla

LEMMA EnCrudoPropia ==
  ASSUME Invariante, NEW i \in CrudosEnUso
  PROVE  /\ crudo[i].req \in Reqs
         /\ pedida[crudo[i].req] \in Crudas
         /\ buzon[crudo[i].req] = <<>>
         /\ \A j \in CrudosEnUso : crudo[i].req = crudo[j].req => i = j
  BY DEF Invariante, TypeOK, EsperaUnica, EsperaCrudo, CrudosEnUso, EntradaCruda

Origen ==
  \A i \in EnUso(pend) :
    (\E r \in pend[i].waiters : buzon'[r] # <<>> /\ buzon'[r][1].res = "respuesta")
      => [txid |-> pend[i].txid, key |-> pend[i].key,
          up |-> Destino(pend[i].upstream_idx)] \in wire

LEMMA OrigenPaso ==
  ASSUME Invariante, [Next]_vars
  PROVE  Origen
  <1> USE DEF TypeOK
  <1> SUFFICES ASSUME NEW i \in EnUso(pend), NEW r \in pend[i].waiters,
                      buzon'[r] # <<>>, buzon'[r][1].res = "respuesta"
               PROVE  [txid |-> pend[i].txid, key |-> pend[i].key,
                       up |-> Destino(pend[i].upstream_idx)] \in wire
    BY DEF Origen
  <1>1. r \in Reqs /\ pedida[r] \in Keys /\ buzon[r] = <<>>
    BY EnTablaPropia
  <1>2. TypeOK
    BY DEF Invariante
  <1>3. CASE UNCHANGED buzon
    BY <1>1, <1>3
  <1>4. ASSUME NEW m \in wire, RespuestaCruda(m)
        PROVE  FALSE
    <2>1. PICK j \in CrudosEnUso : Entrega({crudo[j].req}, [res |-> "respuesta", key |-> m.key])
      BY <1>4 DEF RespuestaCruda, EsPrimera
    <2>2. r # crudo[j].req
      BY <1>1, EnCrudoPropia, UpstreamAssumption
    <2>3. QED
      BY <1>1, <2>1, <2>2 DEF Entrega
  <1>5. ASSUME NEW m \in wire, RespuestaCasa(m)
        PROVE  [txid |-> pend[i].txid, key |-> pend[i].key,
                up |-> Destino(pend[i].upstream_idx)] = m
    <2>1. PICK j \in Slots :
            Casa(m, j) /\ Entrega(pend[j].waiters, [res |-> "respuesta", key |-> m.key])
      BY <1>5 DEF RespuestaCasa
    <2>2. r \in pend[j].waiters
      BY <1>1, <2>1 DEF Entrega
    <2>3. j = i
      BY <2>1, <2>2, EnTablaPropia DEF Casa, EsPrimera
    <2>4. /\ pend[i].txid = m.txid /\ pend[i].key = m.key
          /\ m.up = pend[i].upstream_idx
      BY <2>1, <2>3 DEF Casa, EsPrimera, PreguntaCasa, AddrEsUpstream
    <2>5. m \in Consulta
      BY <1>2
    <2>6. Destino(m.up) = m.up
      BY <2>5, SaludAssumption DEF Consulta, Ups, Destino
    <2>7. QED
      BY <2>4, <2>5, <2>6 DEF Consulta
  <1>6. CASE ProcesaExpiraciones
    <2> DEFINE F == AFallar(pend, PorVencer(pend, now, TIMEOUT, ACTS_CAP))
               donde == {j \in F : r \in pend[j].waiters}
               k == pend[CHOOSE j \in donde : TRUE].key
    <2>1. buzon'[r] = TrasFallar(F, r)
      BY <1>1, <1>6 DEF ProcesaExpiraciones
    <2>2. CASE donde = {}
      BY <1>1, <2>1, <2>2 DEF TrasFallar
    <2>3. CASE donde # {}
      <3>1. buzon'[r] = Append(<<>>, [res |-> "servfail", key |-> k])
        BY <1>1, <2>1, <2>3 DEF TrasFallar
      <3> HIDE DEF k
      <3>2. buzon'[r][1].res = "servfail"
        BY <3>1
      <3>3. QED
        BY <3>2
    <2>4. QED
      BY <2>2, <2>3
  <1>7. ASSUME NEW q \in Reqs, Consume(q)
        PROVE  FALSE
    BY <1>1, <1>2, <1>7 DEF Consume
  <1>8. QED
    BY <1>3, <1>4, <1>5, <1>6, <1>7
    DEF Next, vars, SubmitCrudo, SubmitAgrupa, SubmitEnvia, Descarta, Tick, Desiste

\* An entry is answered only by the upstream its present attempt went to, with
\* the id and the question of that attempt.
THEOREM OrigenesValidados == Spec => OrigenValidado
  <1>1. Invariante /\ [Next]_vars => [Origen]_vars
    BY OrigenPaso
  <1>2. QED
    BY InvarianteSiempre, <1>1, PTL DEF Spec, OrigenValidado, Origen

-----------------------------------------------------------------------------
\* The refinement: the requests of both tables are those the service owes an
\* answer.

LEMMA EnTablaFuera ==
  ASSUME Invariante
  PROVE  EnTabla \subseteq Reqs /\ EnCrudo \subseteq Reqs /\ EnTabla \cap EnCrudo = {}
  <1>1. \A r \in EnTabla : r \in Reqs /\ pedida[r] \in Keys
    BY EnTablaPropia DEF EnTabla
  <1>2. \A r \in EnCrudo : r \in Reqs /\ pedida[r] \in Crudas
    BY EnCrudoPropia DEF EnCrudo
  <1>3. QED
    BY <1>1, <1>2, UpstreamAssumption

LEMMA RefinaSubmitCrudo ==
  ASSUME Invariante, NEW r \in Reqs, NEW k \in Crudas, SubmitCrudo(r, k)
  PROVE  Servicio!Next
  <1>1. /\ pedida[r] = Nada /\ pedida' = [pedida EXCEPT ![r] = k]
        /\ UNCHANGED <<buzon, pend>>
    BY DEF SubmitCrudo
  <1>2. EnTabla' = EnTabla
    BY <1>1 DEF EnTabla, EnUso
  <1>3. CASE UNCHANGED crudo
    <2>1. (EnTabla \cup EnCrudo)' = EnTabla \cup EnCrudo
      BY <1>2, <1>3 DEF EnCrudo, CrudosEnUso
    <2>2. Servicio!Rechaza(r, k)
      BY <1>1, <2>1 DEF Servicio!Rechaza
    <2>3. QED
      BY <2>2 DEF Servicio!Next
  <1>4. CASE \E i \in RawSlots, x \in Txids :
               /\ EsPrimera(RawSlots \ CrudosEnUso, i)
               /\ crudo' = [crudo EXCEPT ![i] = [txid |-> x, req |-> r, enviado |-> now]]
    <2>1. PICK i \in RawSlots \ CrudosEnUso, x \in Txids :
            crudo' = [crudo EXCEPT ![i] = [txid |-> x, req |-> r, enviado |-> now]]
      BY <1>4 DEF EsPrimera
    <2>2. crudo'[i].req = r /\ i \in CrudosEnUso'
      <3>1. [txid |-> x, req |-> r, enviado |-> now] # Libre
        <4>1. [txid |-> x, req |-> r, enviado |-> now] \in EntradaCruda
          BY DEF EntradaCruda, Invariante, TypeOK
        <4>2. QED
          BY <4>1, CrudaAssumption
      <3>2. QED
        BY <2>1, <3>1 DEF CrudosEnUso, Invariante, TypeOK
    <2>3. CrudosEnUso' = CrudosEnUso \cup {i}
      BY <2>1, <2>2 DEF CrudosEnUso, Invariante, TypeOK
    <2>4. \A j \in CrudosEnUso : crudo'[j] = crudo[j]
      BY <2>1 DEF CrudosEnUso, Invariante, TypeOK
    <2>5. EnCrudo' = EnCrudo \cup {r}
      BY <2>2, <2>3, <2>4 DEF EnCrudo
    <2>6. Servicio!Acepta(r, k, {})
      BY <1>1, <1>2, <2>5 DEF Servicio!Acepta
    <2>7. QED
      BY <2>6 DEF Servicio!Next
  <1>5. QED
    BY <1>3, <1>4 DEF SubmitCrudo

LEMMA RefinaSubmitAgrupa ==
  ASSUME Invariante, NEW r \in Reqs, NEW k \in Keys, SubmitAgrupa(r, k)
  PROVE  Servicio!Next
  <1>1. PICK i \in Slots : PuedeAgrupar(pend, k, i) /\ pend' = Agrupa(pend, i, r)
    BY DEF SubmitAgrupa
  <1>2. i \in EnUso(pend)
    BY <1>1 DEF PuedeAgrupar, EsPrimera, MismaClave
  <1>3. pend[i] \in Entrada /\ pend'[i] \in Entrada
    <2>1. pend \in Tabla
      BY DEF Invariante, TypeOK, Tabla
    <2>2. pend'[i] = [pend[i] EXCEPT !.waiters = @ \cup {r}]
      BY <1>1, <2>1 DEF Agrupa, Tabla
    <2>3. pend[i] \in Entrada
      BY <1>2, <2>1, EnUsoEntrada
    <2>4. pend'[i] \in Entrada
      BY <2>2, <2>3 DEF Entrada
    <2>5. QED
      BY <2>3, <2>4
  <1>4. EnUso(pend') = EnUso(pend)
    BY <1>1, <1>2, <1>3, LibreAssumption DEF EnUso, Agrupa, Invariante, TypeOK
  <1>5. pend'[i].waiters = pend[i].waiters \cup {r}
    BY <1>1, <1>2, <1>3 DEF Invariante, TypeOK, Agrupa, Entrada
  <1>6. \A j \in EnUso(pend) \ {i} : pend'[j] = pend[j]
    BY <1>1 DEF Invariante, TypeOK, Agrupa, EnUso
  <1>7. EnTabla' = EnTabla \cup {r}
    BY <1>2, <1>4, <1>5, <1>6 DEF EnTabla
  <1>8. EnCrudo' = EnCrudo
    BY DEF SubmitAgrupa, EnCrudo, CrudosEnUso
  <1>9. Servicio!Acepta(r, k, {})
    BY <1>7, <1>8 DEF SubmitAgrupa, Servicio!Acepta
  <1>10. QED
    BY <1>9 DEF Servicio!Next

LEMMA RefinaSubmitEnvia ==
  ASSUME Invariante, NEW r \in Reqs, NEW k \in Keys, SubmitEnvia(r, k)
  PROVE  Servicio!Next
  <1>1. PICK i \in Slots, u \in Ups, x \in TxidsLibres(pend) :
          pend' = [pend EXCEPT ![i] = NuevaEntrada(r, k, u, now, x)]
    BY DEF SubmitEnvia
  <1> DEFINE d == IF i \in EnUso(pend) THEN pend[i].waiters ELSE {}
  <1>2. pend'[i].waiters = {r} /\ pend'[i] # Libre
    <2>1. NuevaEntrada(r, k, u, now, x) \in Entrada
      BY DEF Invariante, TypeOK, NuevaEntrada, Entrada, TxidsLibres, Ups
    <2>2. pend'[i] = NuevaEntrada(r, k, u, now, x)
      BY <1>1 DEF Invariante, TypeOK
    <2>3. QED
      BY <2>1, <2>2, LibreAssumption DEF NuevaEntrada
  <1>3. EnUso(pend') = EnUso(pend) \cup {i}
    BY <1>1, <1>2 DEF EnUso, Invariante, TypeOK
  <1>4. \A j \in EnUso(pend) \ {i} : pend'[j] = pend[j]
    BY <1>1 DEF Invariante, TypeOK, EnUso
  <1>5. d \subseteq EnTabla
    BY DEF EnTabla
  <1>6. \A j \in EnUso(pend) \ {i} : pend[j].waiters \cap d = {}
    BY EnTablaPropia
  <1>7. r \notin EnTabla
    <2>1. \A q \in EnTabla : pedida[q] \in Keys
      BY EnTablaPropia DEF EnTabla
    <2>2. QED
      BY <2>1, UpstreamAssumption DEF SubmitEnvia
  <1>8. \A a, b \in d : pedida[a] = pedida[b] /\ pedida[a] \in Keys
    BY EnTablaPropia
  <1>9. EnTabla = d \cup UNION {pend[j].waiters : j \in EnUso(pend) \ {i}}
    BY DEF EnTabla
  <1>10. EnTabla' = {r} \cup UNION {pend[j].waiters : j \in EnUso(pend) \ {i}}
    BY <1>2, <1>3, <1>4 DEF EnTabla
  <1> HIDE DEF d
  <1>11. EnTabla' = (EnTabla \ d) \cup {r}
    BY <1>6, <1>9, <1>10
  <1>12. EnCrudo' = EnCrudo
    BY DEF SubmitEnvia, EnCrudo, CrudosEnUso
  <1>13. (EnTabla \cup EnCrudo)' = ((EnTabla \cup EnCrudo) \ d) \cup {r}
    BY <1>5, <1>11, <1>12, EnTablaFuera
  <1>14. Servicio!Acepta(r, k, d)
    BY <1>5, <1>8, <1>13 DEF SubmitEnvia, Servicio!Acepta
  <1>15. QED
    BY <1>5, <1>14 DEF Servicio!Next

LEMMA RefinaRespuestaCruda ==
  ASSUME Invariante, NEW m \in wire, RespuestaCruda(m)
  PROVE  Servicio!Next
  <1>1. PICK i \in CrudosEnUso :
          /\ Entrega({crudo[i].req}, [res |-> "respuesta", key |-> m.key])
          /\ crudo' = [crudo EXCEPT ![i] = Libre]
    BY DEF RespuestaCruda, EsPrimera
  <1> DEFINE q == crudo[i].req
  <1>2. UNCHANGED <<pend, pedida>>
    BY DEF RespuestaCruda
  <1>3. EnTabla' = EnTabla
    BY <1>2 DEF EnTabla, EnUso
  <1>4. CrudosEnUso' = CrudosEnUso \ {i} /\ \A j \in CrudosEnUso \ {i} : crudo'[j] = crudo[j]
    BY <1>1 DEF CrudosEnUso, Invariante, TypeOK
  <1>5. \A j \in CrudosEnUso \ {i} : crudo[j].req # q
    BY EnCrudoPropia
  <1>6. EnCrudo' = EnCrudo \ {q}
    BY <1>4, <1>5 DEF EnCrudo
  <1>7. q \in EnCrudo /\ pedida[q] \in Crudas
    BY EnCrudoPropia DEF EnCrudo
  <1> HIDE DEF q
  <1>8. (EnTabla \cup EnCrudo)' = (EnTabla \cup EnCrudo) \ {q}
    BY <1>3, <1>6, <1>7, EnTablaFuera
  <1>9. m.key \in Keys \cup Crudas
    BY DEF Invariante, TypeOK, Consulta
  <1>10. buzon' = Servicio!Envia({q}, "respuesta", m.key)
    BY <1>1 DEF Entrega, Servicio!Envia, q
  <1>11. Servicio!RespondeCruda(q, m.key)
    BY <1>2, <1>7, <1>8, <1>10 DEF Servicio!RespondeCruda
  <1>12. QED
    BY <1>7, <1>9, <1>11 DEF Servicio!Next

LEMMA RefinaRespuestaCasa ==
  ASSUME Invariante, NEW m \in wire, RespuestaCasa(m)
  PROVE  Servicio!Next
  <1>1. PICK i \in Slots :
          /\ Casa(m, i)
          /\ pend' = Libera(pend, i)
          /\ Entrega(pend[i].waiters, [res |-> "respuesta", key |-> m.key])
    BY DEF RespuestaCasa
  <1>2. i \in EnUso(pend) /\ pend[i].key = m.key
    BY <1>1 DEF Casa, EsPrimera, PreguntaCasa
  <1> DEFINE S == pend[i].waiters
  <1>3. S \subseteq EnTabla /\ \A r \in S : pedida[r] = m.key
    BY <1>2, EnTablaPropia DEF EnTabla
  <1>4. EnUso(pend') = EnUso(pend) \ {i} /\ \A j \in EnUso(pend) \ {i} : pend'[j] = pend[j]
    BY <1>1 DEF EnUso, Libera, Invariante, TypeOK
  <1>5. \A j \in EnUso(pend) \ {i} : pend[j].waiters \cap S = {}
    BY <1>2, EnTablaPropia
  <1>6. EnTabla' = EnTabla \ S
    <2>1. EnTabla = S \cup UNION {pend[j].waiters : j \in EnUso(pend) \ {i}}
      BY <1>2 DEF EnTabla
    <2>2. EnTabla' = UNION {pend[j].waiters : j \in EnUso(pend) \ {i}}
      BY <1>4 DEF EnTabla
    <2> HIDE DEF S
    <2>3. QED
      BY <1>5, <2>1, <2>2
  <1> HIDE DEF S
  <1>7. EnCrudo' = EnCrudo
    BY DEF RespuestaCasa, EnCrudo, CrudosEnUso
  <1>8. (EnTabla \cup EnCrudo)' = (EnTabla \cup EnCrudo) \ S
    BY <1>3, <1>6, <1>7, EnTablaFuera
  <1>9. m.key \in Keys
    BY <1>2, EnUsoEntrada DEF Invariante, TypeOK, Tabla, Entrada
  <1>10. buzon' = Servicio!Envia(S, "respuesta", m.key)
    BY <1>1 DEF Entrega, Servicio!Envia, S
  <1>11. Servicio!Responde(S, m.key)
    BY <1>3, <1>8, <1>10 DEF RespuestaCasa, Servicio!Responde
  <1>12. QED
    BY <1>3, <1>9, <1>11 DEF Servicio!Next

LEMMA RefinaExpiraciones ==
  ASSUME Invariante, ProcesaExpiraciones
  PROVE  Servicio!Next
  <1> DEFINE V == PorVencer(pend, now, TIMEOUT, ACTS_CAP)
             F == AFallar(pend, V)
             S == UNION {pend[i].waiters : i \in F}
             C == CrudosEnUso \ CrudosEnUso'
             Q == {crudo[i].req : i \in C}
  <1>1. V \in SUBSET EnUso(pend)
    BY DEF PorVencer, Vencidas
  <1>2. F \in SUBSET EnUso(pend)
    BY <1>1 DEF AFallar
  <1>3. PICK x \in TxidsDeReintento(pend, V) : pend' = TrasVencer(pend, V, x, now)
    BY DEF ProcesaExpiraciones
  <1>4. buzon' = [r \in Reqs |-> TrasFallar(F, r)]
    BY DEF ProcesaExpiraciones
  <1> HIDE DEF V
  <1>5. EnUso(pend') = EnUso(pend) \ F
    <2>1. ASSUME NEW j \in AReintentar(pend, V)
          PROVE  j \in EnUso(pend') /\ j \in EnUso(pend) \ F
      <3>1. j \in EnUso(pend) \ F
        BY <1>1 DEF AReintentar, AFallar
      <3>2. pend \in Tabla /\ now \in Clock
        BY DEF Invariante, TypeOK, Tabla
      <3>3. pend[j] \in Entrada /\ x[j] \in Txids
        BY <3>1, <3>2, EnUsoEntrada DEF TxidsDeReintento
      <3>4. Reintento(pend[j], x[j], now) \in Entrada
        BY <3>2, <3>3 DEF Reintento, Entrada
      <3>5. pend'[j] = Reintento(pend[j], x[j], now)
        BY <1>3, <3>1 DEF TrasVencer, EnUso
      <3>6. pend'[j] # Libre
        BY <3>4, <3>5, LibreAssumption
      <3>7. QED
        BY <3>1, <3>6 DEF EnUso
    <2>2. ASSUME NEW j \in Slots \ AReintentar(pend, V)
          PROVE  pend'[j] = IF j \in F THEN Libre ELSE pend[j]
      BY <1>3 DEF TrasVencer
    <2> HIDE DEF F
    <2>3. QED
      BY <1>2, <2>1, <2>2 DEF EnUso
  <1>6. \A j \in EnUso(pend') : pend'[j].waiters = pend[j].waiters
    BY <1>3, <1>5 DEF TrasVencer, Reintento, EnUso
  <1> HIDE DEF F
  <1>7. S \subseteq EnTabla /\ \A r \in S : pedida[r] \in Keys
    BY <1>2, EnTablaPropia DEF EnTabla
  <1>8. EnTabla' = EnTabla \ S
    <2>1. EnTabla' = UNION {pend[j].waiters : j \in EnUso(pend) \ F}
      BY <1>5, <1>6 DEF EnTabla
    <2>2. EnTabla = S \cup UNION {pend[j].waiters : j \in EnUso(pend) \ F}
      BY <1>2 DEF EnTabla
    <2>3. \A j \in EnUso(pend) \ F : pend[j].waiters \cap S = {}
      BY <1>2, EnTablaPropia
    <2> HIDE DEF S
    <2>4. QED
      BY <2>1, <2>2, <2>3
  <1>9. CrudosEnUso' \subseteq CrudosEnUso /\ \A j \in CrudosEnUso' : crudo'[j] = crudo[j]
    BY DEF ProcesaExpiraciones, CrudoTrasVencer, CrudosEnUso
  <1>10. C \subseteq CrudosEnUso
    OBVIOUS
  <1>11. Q \subseteq EnCrudo /\ \A r \in Q : pedida[r] \in Crudas
    BY <1>10, EnCrudoPropia DEF EnCrudo
  <1>12. EnCrudo' = EnCrudo \ Q
    <2>1. \A j \in CrudosEnUso' : crudo'[j].req \in EnCrudo \ Q
      BY <1>9, EnCrudoPropia DEF EnCrudo
    <2>2. \A j \in CrudosEnUso : j \in C \/ (j \in CrudosEnUso' /\ crudo'[j] = crudo[j])
      BY <1>9
    <2>3. QED
      BY <2>1, <2>2 DEF EnCrudo
  <1>13. UNCHANGED pedida
    BY DEF ProcesaExpiraciones
  <1>14. ASSUME NEW r \in Reqs
         PROVE  TrasFallar(F, r) =
                  IF r \in S THEN Append(buzon[r], [res |-> "servfail", key |-> pedida[r]])
                             ELSE buzon[r]
    <2> DEFINE donde == {i \in F : r \in pend[i].waiters}
               i == CHOOSE j \in donde : TRUE
    <2>1. CASE r \notin S
      BY <2>1 DEF TrasFallar
    <2>2. CASE r \in S
      <3>1. donde # {}
        BY <2>2
      <3>2. i \in donde
        BY <3>1
      <3>3. TrasFallar(F, r) = Append(buzon[r], [res |-> "servfail", key |-> pend[i].key])
        BY <3>1 DEF TrasFallar
      <3> HIDE DEF i
      <3>4. pedida[r] = pend[i].key
        BY <1>2, <3>2, EnTablaPropia
      <3>5. QED
        BY <2>2, <3>3, <3>4
    <2>3. QED
      BY <2>1, <2>2
  <1> HIDE DEF S, Q
  <1>15. S \cup Q \subseteq EnTabla \cup EnCrudo
    BY <1>7, <1>11
  <1>16. (EnTabla \cup EnCrudo)' = (EnTabla \cup EnCrudo) \ (S \cup Q)
    BY <1>7, <1>8, <1>11, <1>12, EnTablaFuera
  <1>17. buzon' = [r \in Reqs |->
           IF r \in S THEN Append(buzon[r], [res |-> "servfail", key |-> pedida[r]])
                      ELSE buzon[r]]
    BY <1>4, <1>14
  <1>18. Servicio!Vence(S, Q)
    BY <1>7, <1>11, <1>13, <1>15, <1>16, <1>17 DEF Servicio!Vence
  <1>19. S \in SUBSET (EnTabla \cup EnCrudo) /\ Q \in SUBSET (EnTabla \cup EnCrudo)
    BY <1>15
  <1>20. QED
    BY <1>18, <1>19 DEF Servicio!Next

LEMMA RefinaPaso ==
  ASSUME Invariante, [Next]_vars
  PROVE  [Servicio!Next]_Servicio!vars
  <1>1. CASE UNCHANGED <<pend, crudo, pedida, buzon>>
    BY <1>1 DEF Servicio!vars, EnTabla, EnUso, EnCrudo, CrudosEnUso
  <1>2. ASSUME UNCHANGED <<pend, crudo>>
        PROVE  (EnTabla \cup EnCrudo)' = EnTabla \cup EnCrudo
    BY <1>2 DEF EnTabla, EnUso, EnCrudo, CrudosEnUso
  <1>3. ASSUME NEW r \in Reqs, Consume(r)
        PROVE  Servicio!Next
    <2>1. Servicio!Lee(r)
      BY <1>2, <1>3 DEF Consume, Servicio!Lee
    <2>2. QED
      BY <2>1 DEF Servicio!Next
  <1>4. ASSUME NEW r \in Reqs, Desiste(r)
        PROVE  Servicio!Next
    <2>1. Servicio!Desiste(r)
      BY <1>2, <1>4 DEF Desiste, Servicio!Desiste
    <2>2. QED
      BY <2>1 DEF Servicio!Next
  <1>5. QED
    BY <1>1, <1>3, <1>4, RefinaSubmitCrudo, RefinaSubmitAgrupa, RefinaSubmitEnvia,
       RefinaRespuestaCruda, RefinaRespuestaCasa, RefinaExpiraciones
    DEF Next, vars, Descarta, Tick

\* The forwarder implements the service its clients see: its table, ids,
\* retries, health checks and passthrough are invisible from outside.
THEOREM ReenvioImplementado == Spec => ImplementaReenvio
  <1>1. Init => Servicio!Init
    BY DEF Init, Servicio!Init, EnTabla, EnUso, EnCrudo, CrudosEnUso, TablaVacia
  <1>2. Invariante /\ [Next]_vars => [Servicio!Next]_Servicio!vars
    BY RefinaPaso
  <1>3. QED
    BY InvarianteSiempre, <1>1, <1>2, PTL DEF Spec, ImplementaReenvio, Servicio!Spec

-----------------------------------------------------------------------------
\* How long an attempt waits for the timer.

LEMMA Minimo ==
  ASSUME NEW S \in SUBSET Nat, S # {}
  PROVE  \E x \in S : \A y \in S : x <= y
  <1> DEFINE R == OpToRel(<, Nat)
  <1>1. IsWellFoundedOn(R, Nat)
    BY NatLessThanWellFounded
  <1>2. \A x, y \in Nat : <<y, x>> \in R <=> y < x
    BY DEF OpToRel
  <1> HIDE DEF R
  <1>3. PICK x \in S : \A y \in S : <<y, x>> \notin R
    BY <1>1, WFMin
  <1>4. ASSUME NEW y \in S
        PROVE  x <= y
    <2>1. x \in Nat /\ y \in Nat /\ <<y, x>> \notin R
      BY <1>3
    <2>2. ~(y < x)
      BY <1>2, <2>1, Zenon
    <2>3. QED
      BY <2>1, <2>2
  <1>5. QED
    BY <1>4

\* The age entry j had when the timer last ran; negative if it is newer.
Corrida(t, n, l, j) == Edad(n, t[j].enviado_en) - l

\* The slots before i that were free, or no older than k, when it last ran.
Recientes(t, n, l, i, k) == {j \in 0 .. i - 1 : t[j] = Libre \/ Corrida(t, n, l, j) <= k}

\* The runs of the timer it takes to reach slot i fit in a timeout.
Alcanzable(i) == MaxLag * (i \div ACTS_CAP) < TIMEOUT

\* If the timer has passed over the expired entry i w times, it handled other
\* slots each time, ACTS_CAP of them, all before i.
Turno(t, n, l, i) ==
  \A w \in Nat : MaxLag * w < TIMEOUT /\ Corrida(t, n, l, i) >= TIMEOUT + MaxLag * w
    => (w + 1) * ACTS_CAP <= Cardinality(Recientes(t, n, l, i, MaxLag * w))

Turnos(t, n, l) == \A i \in EnUso(t) : Alcanzable(i) => Turno(t, n, l, i)

LEMMA RecientesFinita ==
  ASSUME NEW t, NEW n, NEW l, NEW k, NEW i \in Nat
  PROVE  /\ IsFiniteSet(Recientes(t, n, l, i, k))
         /\ Cardinality(Recientes(t, n, l, i, k)) \in Nat
         /\ Cardinality(Recientes(t, n, l, i, k)) <= i
  <1>1. IsFiniteSet(0 .. i - 1) /\ Cardinality(0 .. i - 1) = i
    <2>1. 0 \in Int /\ i - 1 \in Int
      OBVIOUS
    <2>2. IsFiniteSet(0 .. i - 1) /\ Cardinality(0 .. i - 1) = IF 0 > i - 1 THEN 0 ELSE i - 1 - 0 + 1
      BY <2>1, FS_Interval
    <2>3. QED
      BY <2>2
  <1>2. Recientes(t, n, l, i, k) \in SUBSET (0 .. i - 1)
    BY DEF Recientes
  <1>3. QED
    BY <1>1, <1>2, FS_Subset, FS_CardinalityType

LEMMA EdadClock ==
  ASSUME NEW a \in Clock, NEW b \in Clock
  PROVE  Edad(a, b) \in Clock /\ Edad(a, a) = 0
  BY ClockModAssumption DEF Edad, Clock

\* The slot number and the number of runs.
LEMMA Ronda ==
  ASSUME NEW i \in Nat
  PROVE  /\ i \div ACTS_CAP \in Nat
         /\ (i \div ACTS_CAP + 1) * ACTS_CAP > i
         /\ MaxLag * (i \div ACTS_CAP) \in Nat
  <1> DEFINE d == i \div ACTS_CAP
  <1>1. ACTS_CAP \in Nat \ {0} /\ MaxLag \in Nat
    BY UpstreamAssumption
  <1>2. d \in Nat /\ i = (ACTS_CAP * d) + (i % ACTS_CAP) /\ i % ACTS_CAP \in 0 .. ACTS_CAP - 1
    BY <1>1
  <1> DEFINE r == i % ACTS_CAP
  <1> HIDE DEF d, r
  <1>3. i = ACTS_CAP * d + r /\ r < ACTS_CAP /\ r \in Nat
    BY <1>1, <1>2 DEF r
  <1>4. (d + 1) * ACTS_CAP = ACTS_CAP * d + ACTS_CAP
    BY <1>1, <1>2
  <1>5. ACTS_CAP * d \in Nat /\ MaxLag * d \in Nat
    BY <1>1, <1>2
  <1>6. (d + 1) * ACTS_CAP > i
    BY <1>1, <1>3, <1>4, <1>5
  <1>7. QED
    BY <1>2, <1>5, <1>6 DEF d

\* So an entry is handled before its turn is over.
LEMMA CorridaAcotada ==
  ASSUME NEW t \in Tabla, NEW n \in Clock, NEW l \in 0 .. MaxLag, NEW i \in EnUso(t),
         Alcanzable(i), Turno(t, n, l, i)
  PROVE  Corrida(t, n, l, i) < TIMEOUT + MaxLag * (i \div ACTS_CAP)
  <1> DEFINE w == i \div ACTS_CAP
             c == Corrida(t, n, l, i)
             k == MaxLag * w
             R == Recientes(t, n, l, i, MaxLag * w)
  <1>1. i \in Nat /\ t[i].enviado_en \in Clock
    BY EnUsoEntrada DEF Slots, Entrada
  <1>2. w \in Nat /\ (w + 1) * ACTS_CAP > i /\ k \in Nat
    BY <1>1, Ronda
  <1>3. Cardinality(R) \in Nat /\ Cardinality(R) <= i
    BY <1>1, RecientesFinita
  <1>4. k < TIMEOUT /\ c >= TIMEOUT + k => (w + 1) * ACTS_CAP <= Cardinality(R)
    BY <1>2 DEF Turno
  <1>5. c \in Int
    BY <1>1, EdadClock, UpstreamAssumption DEF Corrida, Clock
  <1>6. k < TIMEOUT
    BY DEF Alcanzable
  <1>7. (w + 1) * ACTS_CAP \in Nat /\ TIMEOUT \in Nat
    BY <1>2, UpstreamAssumption
  <1> DEFINE a == (w + 1) * ACTS_CAP
  <1>8. a > i /\ a \in Nat
    BY <1>2, <1>7
  <1> HIDE DEF a, c, k, R
  <1>9. c >= TIMEOUT + k => a <= Cardinality(R)
    BY <1>4, <1>6 DEF a
  <1>10. ~(c >= TIMEOUT + k)
    BY <1>1, <1>3, <1>8, <1>9
  <1>11. c < TIMEOUT + k
    BY <1>2, <1>5, <1>7, <1>10
  <1>12. QED
    BY <1>11 DEF c, k

LEMMA EdadAcotada ==
  ASSUME NEW t \in Tabla, NEW n \in Clock, NEW l \in 0 .. MaxLag, NEW i \in EnUso(t),
         Alcanzable(i), Turno(t, n, l, i)
  PROVE  /\ Edad(n, t[i].enviado_en) < TIMEOUT + MaxLag * (i \div ACTS_CAP) + l
         /\ l < MaxLag => Edad(n, t[i].enviado_en) + 1 < ClockMod
  <1> DEFINE e == Edad(n, t[i].enviado_en)
             k == MaxLag * (i \div ACTS_CAP)
  <1>1. i \in Nat /\ t[i].enviado_en \in Clock
    BY EnUsoEntrada DEF Slots, Entrada
  <1>2. e \in Nat
    <2>1. e \in Clock
      BY <1>1, EdadClock
    <2> HIDE DEF e
    <2>2. QED
      BY <2>1 DEF Clock
  <1>3. k \in Nat /\ k < TIMEOUT
    BY <1>1, Ronda DEF Alcanzable
  <1>4. e - l < TIMEOUT + k
    BY CorridaAcotada DEF Corrida
  <1>5. /\ TIMEOUT \in Nat /\ MaxLag \in Nat /\ ClockMod \in Nat /\ l \in Nat
        /\ 2 * TIMEOUT + MaxLag <= ClockMod
    BY UpstreamAssumption, ClockModAssumption
  <1> HIDE DEF e, k
  <1>6. e < TIMEOUT + k + l
    BY <1>2, <1>3, <1>4, <1>5
  <1>7. l < MaxLag => e + 1 < ClockMod
    BY <1>2, <1>3, <1>5, <1>6
  <1>8. QED
    BY <1>6, <1>7 DEF e, k

\* Between two runs a slot is freed, or taken by a new entry, or stays.
Relevo(t, u, n) ==
  \A j \in Slots : \/ u[j] = Libre
                   \/ u[j].enviado_en = n
                   \/ t[j] # Libre /\ u[j].enviado_en = t[j].enviado_en

LEMMA TurnosRelevo ==
  ASSUME NEW t \in Tabla, NEW u \in Tabla, NEW n \in Clock, NEW l \in 0 .. MaxLag,
         Relevo(t, u, n), Turnos(t, n, l)
  PROVE  Turnos(u, n, l)
  <1> SUFFICES ASSUME NEW i \in EnUso(u), Alcanzable(i), NEW w \in Nat,
                      MaxLag * w < TIMEOUT,
                      Corrida(u, n, l, i) >= TIMEOUT + MaxLag * w
               PROVE  (w + 1) * ACTS_CAP <= Cardinality(Recientes(u, n, l, i, MaxLag * w))
    BY DEF Turnos, Turno
  <1> DEFINE k == MaxLag * w
  <1>1. /\ k \in Nat /\ TIMEOUT \in Nat \ {0} /\ l \in Nat /\ w \in Nat
        /\ (w + 1) * ACTS_CAP \in Nat
    BY UpstreamAssumption
  <1>2. i \in Slots /\ i \in Nat
    BY EnUsoEntrada DEF Slots
  <1>3. Edad(n, n) - l <= 0
    BY <1>1, EdadClock
  <1>4. t[i] # Libre /\ u[i].enviado_en = t[i].enviado_en
    <2>1. u[i].enviado_en # n
      <3>1. Corrida(u, n, l, i) >= TIMEOUT + k
        OBVIOUS
      <3> HIDE DEF k
      <3>2. ASSUME u[i].enviado_en = n PROVE FALSE
        <4>1. Corrida(u, n, l, i) = Edad(n, n) - l /\ Edad(n, n) - l \in Int
          BY <1>1, <3>2, EdadClock DEF Corrida, Clock
        <4>2. QED
          BY <1>1, <1>3, <3>1, <4>1
      <3>3. QED
        BY <3>2
    <2>2. u[i] # Libre
      BY DEF EnUso
    <2>3. QED
      BY <1>2, <2>1, <2>2 DEF Relevo
  <1>5. i \in EnUso(t) /\ Corrida(t, n, l, i) >= TIMEOUT + k
    BY <1>2, <1>4 DEF EnUso, Corrida
  <1>6. (w + 1) * ACTS_CAP <= Cardinality(Recientes(t, n, l, i, k))
    BY <1>5 DEF Turnos, Turno
  <1> HIDE DEF k
  <1>7. Recientes(t, n, l, i, k) \subseteq Recientes(u, n, l, i, k)
    <2> SUFFICES ASSUME NEW j \in 0 .. i - 1, t[j] = Libre \/ Corrida(t, n, l, j) <= k, u[j] # Libre
                 PROVE  Corrida(u, n, l, j) <= k
      BY DEF Recientes
    <2>1. j \in Slots
      BY <1>2, PendingAssumption DEF Slots
    <2>2. CASE u[j].enviado_en = n
      <3>1. Corrida(u, n, l, j) = Edad(n, n) - l /\ Edad(n, n) - l \in Int
        BY <1>1, <2>2, EdadClock DEF Corrida, Clock
      <3>2. QED
        BY <1>1, <1>3, <3>1
    <2>3. CASE t[j] # Libre /\ u[j].enviado_en = t[j].enviado_en
      BY <2>3 DEF Corrida
    <2>4. QED
      BY <2>1, <2>2, <2>3 DEF Relevo
  <1>8. Cardinality(Recientes(t, n, l, i, k)) <= Cardinality(Recientes(u, n, l, i, k))
    BY <1>2, <1>7, RecientesFinita, FS_Subset
  <1>9. /\ Cardinality(Recientes(t, n, l, i, k)) \in Nat
        /\ Cardinality(Recientes(u, n, l, i, k)) \in Nat
    BY <1>2, RecientesFinita
  <1> DEFINE a == (w + 1) * ACTS_CAP
  <1>10. a \in Nat /\ a <= Cardinality(Recientes(t, n, l, i, k))
    BY <1>1, <1>6
  <1> HIDE DEF a
  <1>11. a <= Cardinality(Recientes(u, n, l, i, k))
    BY <1>8, <1>9, <1>10
  <1>12. QED
    BY <1>11 DEF a, k

\* A tick makes every entry a tick older.
LEMMA TurnosTick ==
  ASSUME NEW t \in Tabla, NEW n \in Clock, NEW l \in 0 .. MaxLag, l < MaxLag,
         Turnos(t, n, l)
  PROVE  Turnos(t, Suma(n, 1), l + 1)
  <1>1. ASSUME NEW j \in EnUso(t), Alcanzable(j)
        PROVE  Corrida(t, Suma(n, 1), l + 1, j) = Corrida(t, n, l, j)
    <2> DEFINE e == t[j].enviado_en
    <2>1. e \in Clock
      BY EnUsoEntrada DEF Entrada
    <2>2. Edad(n, e) + 1 < ClockMod
      BY <1>1, EdadAcotada DEF Turnos
    <2> HIDE DEF e
    <2>3. Edad(Suma(n, 1), e) = Edad(n, e) + 1
      BY <2>1, <2>2, ClockModAssumption DEF Edad, Suma, Clock
    <2>4. Edad(n, e) \in Int /\ l \in Int
      BY <2>1, EdadClock DEF Clock
    <2>5. (Edad(n, e) + 1) - (l + 1) = Edad(n, e) - l
      BY <2>4
    <2>6. QED
      BY <2>3, <2>5 DEF Corrida, e
  <1> SUFFICES ASSUME NEW i \in EnUso(t), Alcanzable(i), NEW w \in Nat,
                      MaxLag * w < TIMEOUT,
                      Corrida(t, Suma(n, 1), l + 1, i) >= TIMEOUT + MaxLag * w
               PROVE  (w + 1) * ACTS_CAP
                        <= Cardinality(Recientes(t, Suma(n, 1), l + 1, i, MaxLag * w))
    BY DEF Turnos, Turno
  <1>2. i \in Slots /\ i \in Nat
    BY EnUsoEntrada DEF Slots
  <1>3. \A j \in 0 .. i - 1 : t[j] # Libre => j \in EnUso(t) /\ Alcanzable(j)
    <2> SUFFICES ASSUME NEW j \in 0 .. i - 1, t[j] # Libre
                 PROVE  j \in EnUso(t) /\ Alcanzable(j)
      OBVIOUS
    <2>1. j \in Slots /\ j \in Nat /\ j <= i
      BY <1>2, PendingAssumption DEF Slots
    <2> DEFINE a == j \div ACTS_CAP
               b == i \div ACTS_CAP
    <2>2. a <= b /\ a \in Nat /\ b \in Nat
      <3>1. /\ a \in Nat /\ b \in Nat
            /\ j = (ACTS_CAP * a) + (j % ACTS_CAP) /\ j % ACTS_CAP \in 0 .. ACTS_CAP - 1
            /\ i = (ACTS_CAP * b) + (i % ACTS_CAP) /\ i % ACTS_CAP \in 0 .. ACTS_CAP - 1
        BY <1>2, <2>1, UpstreamAssumption
      <3> DEFINE x == j % ACTS_CAP
                 y == i % ACTS_CAP
      <3>2. /\ j = ACTS_CAP * a + x /\ i = ACTS_CAP * b + y
            /\ x \in Nat /\ y \in Nat /\ x < ACTS_CAP /\ y < ACTS_CAP
            /\ ACTS_CAP \in Nat \ {0}
        BY <3>1, UpstreamAssumption
      <3> HIDE DEF a, b, x, y
      <3>3. ASSUME a >= b + 1
            PROVE  FALSE
        <4> DEFINE d == a - (b + 1)
        <4>1. d \in Nat /\ a = b + 1 + d
          BY <3>1, <3>3
        <4> HIDE DEF d
        <4>2. ACTS_CAP * a = ACTS_CAP * b + ACTS_CAP + ACTS_CAP * d
          BY <3>1, <3>2, <4>1
        <4>3. ACTS_CAP * d \in Nat /\ ACTS_CAP * b \in Nat
          BY <3>1, <3>2, <4>1
        <4>4. QED
          BY <2>1, <3>2, <4>2, <4>3
      <3>4. QED
        BY <3>1, <3>3
    <2>3. MaxLag * a <= MaxLag * b
      <3> HIDE DEF a, b
      <3> DEFINE d == b - a
      <3>1. d \in Nat /\ b = a + d /\ MaxLag \in Nat
        BY <2>2, UpstreamAssumption
      <3> HIDE DEF d
      <3>2. MaxLag * b = MaxLag * a + MaxLag * d /\ MaxLag * d \in Nat /\ MaxLag * a \in Nat
        BY <2>2, <3>1
      <3>3. QED
        BY <3>2
    <2>4. MaxLag * a \in Nat /\ MaxLag * b \in Nat /\ TIMEOUT \in Nat /\ MaxLag * b < TIMEOUT
      BY <2>2, UpstreamAssumption DEF Alcanzable
    <2> DEFINE p == MaxLag * a
               q == MaxLag * b
    <2> HIDE DEF p, q
    <2>5. p < TIMEOUT
      BY <2>3, <2>4 DEF p, q
    <2>6. QED
      BY <2>1, <2>5 DEF EnUso, Alcanzable, p
  <1>4. Corrida(t, n, l, i) >= TIMEOUT + MaxLag * w
    BY <1>1
  <1>5. (w + 1) * ACTS_CAP <= Cardinality(Recientes(t, n, l, i, MaxLag * w))
    BY <1>4 DEF Turnos, Turno
  <1>6. Recientes(t, Suma(n, 1), l + 1, i, MaxLag * w) = Recientes(t, n, l, i, MaxLag * w)
    <2>1. \A j \in 0 .. i - 1 : \/ t[j] = Libre
                                \/ Corrida(t, Suma(n, 1), l + 1, j) = Corrida(t, n, l, j)
      BY <1>1, <1>3
    <2>2. QED
      BY <2>1 DEF Recientes
  <1>7. QED
    BY <1>5, <1>6

\* The first ACTS_CAP expired slots are handled: if i is not one of them, all of
\* them are before i.
LEMMA LosPrimeros ==
  ASSUME NEW v \in SUBSET Slots, NEW i \in v,
         ~(Cardinality({j \in v : j < i}) < ACTS_CAP)
  PROVE  \E P \in SUBSET (0 .. i - 1) :
           /\ Cardinality(P) >= ACTS_CAP
           /\ \A j \in P : j \in v /\ Cardinality({h \in v : h < j}) < ACTS_CAP
  <1> DEFINE Menores(j) == {h \in v : h < j}
             M == {j \in v : ~(Cardinality(Menores(j)) < ACTS_CAP)}
  <1>1. v \in SUBSET Nat /\ i \in M /\ M \in SUBSET Nat
    <2>1. v \in SUBSET Nat
      BY DEF Slots
    <2>2. i \in M
      OBVIOUS
    <2>3. M \subseteq v
      OBVIOUS
    <2>4. QED
      BY <2>1, <2>2, <2>3
  <1>2. PICK m \in M : \A y \in M : m <= y
    <2> HIDE DEF M
    <2>1. QED
      BY <1>1, Minimo
  <1>3. m \in v /\ ~(Cardinality(Menores(m)) < ACTS_CAP) /\ m <= i /\ m \in Nat /\ i \in Nat
    BY <1>1, <1>2
  <1>4. \A j \in Menores(m) : j \in v /\ Cardinality(Menores(j)) < ACTS_CAP
    <2> SUFFICES ASSUME NEW j \in Menores(m) PROVE Cardinality(Menores(j)) < ACTS_CAP
      OBVIOUS
    <2>1. j \in v /\ j \in Nat /\ ~(m <= j)
      BY <1>1, <1>3
    <2>2. j \notin M
      BY <1>2, <2>1
    <2>3. QED
      BY <2>1, <2>2
  <1>5. Menores(m) \in SUBSET (0 .. i - 1)
    <2> SUFFICES ASSUME NEW h \in v, h < m PROVE h \in 0 .. i - 1
      OBVIOUS
    <2>1. h \in Nat
      BY <1>1
    <2>2. QED
      BY <1>3, <2>1
  <1>6. Cardinality(Menores(m)) \in Nat
    <2>1. Menores(m) \in SUBSET Slots
      OBVIOUS
    <2>2. QED
      BY <2>1, SlotsFinitos
  <1>7. Cardinality(Menores(m)) >= ACTS_CAP
    BY <1>3, <1>6, UpstreamAssumption
  <1>8. QED
    BY <1>4, <1>5, <1>7

\* A run of the timer handles ACTS_CAP slots before each expired one it passes
\* over, and leaves them newer.
LEMMA TurnosExpiraciones ==
  ASSUME NEW t \in Tabla, NEW n \in Clock, NEW l \in 0 .. MaxLag, Turnos(t, n, l),
         NEW u \in Tabla, NEW S, S = PorVencer(t, n, TIMEOUT, ACTS_CAP),
         \A j \in Slots \ S : u[j] = t[j],
         \A j \in S : u[j] = Libre \/ u[j].enviado_en = n
  PROVE  Turnos(u, n, 0)
  <1> SUFFICES ASSUME NEW i \in EnUso(u), Alcanzable(i), NEW w \in Nat,
                      MaxLag * w < TIMEOUT,
                      Corrida(u, n, 0, i) >= TIMEOUT + MaxLag * w
               PROVE  (w + 1) * ACTS_CAP <= Cardinality(Recientes(u, n, 0, i, MaxLag * w))
    BY DEF Turnos, Turno
  <1> DEFINE v == Vencidas(t, n, TIMEOUT)
             k == MaxLag * w
             R == Recientes(u, n, 0, i, k)
  <1>1. /\ k \in Nat /\ TIMEOUT \in Nat \ {0} /\ l \in Nat /\ l <= MaxLag /\ MaxLag \in Nat
        /\ ACTS_CAP \in Nat /\ k < TIMEOUT
    BY UpstreamAssumption
  <1>2. i \in Slots /\ i \in Nat /\ u[i] # Libre
    BY EnUsoEntrada DEF Slots, EnUso
  <1>3. S \subseteq v /\ v \in SUBSET Slots /\ \A j \in v : t[j] # Libre
    BY DEF PorVencer, Vencidas, EnUso
  <1>4. \A j \in EnUso(t) : t[j].enviado_en \in Clock /\ Edad(n, t[j].enviado_en) \in Nat
    <2> SUFFICES ASSUME NEW j \in EnUso(t)
                 PROVE  t[j].enviado_en \in Clock /\ Edad(n, t[j].enviado_en) \in Nat
      OBVIOUS
    <2>1. t[j].enviado_en \in Clock
      BY EnUsoEntrada DEF Entrada
    <2>2. Edad(n, t[j].enviado_en) \in Clock
      BY <2>1, EdadClock
    <2>3. QED
      BY <2>1, <2>2 DEF Clock
  <1> HIDE DEF k
  <1>5. \A j \in S : u[j] = Libre \/ Corrida(u, n, 0, j) = 0
    BY EdadClock DEF Corrida
  <1>6. i \notin S
    BY <1>1, <1>2, <1>5 DEF k
  <1>7. u[i] = t[i] /\ i \in EnUso(t)
    BY <1>2, <1>6 DEF EnUso
  <1>8. Edad(n, t[i].enviado_en) >= TIMEOUT + k
    BY <1>4, <1>7 DEF Corrida, k
  <1>9. i \in v
    <2>1. Edad(n, t[i].enviado_en) >= TIMEOUT
      BY <1>1, <1>4, <1>7, <1>8
    <2>2. QED
      BY <1>7, <2>1 DEF Vencidas
  <1>10. PICK P \in SUBSET (0 .. i - 1) : Cardinality(P) >= ACTS_CAP /\ P \subseteq S
    <2>1. ~(Cardinality({j \in v : j < i}) < ACTS_CAP)
      BY <1>6, <1>9 DEF PorVencer
    <2> HIDE DEF v
    <2>2. PICK P \in SUBSET (0 .. i - 1) :
            /\ Cardinality(P) >= ACTS_CAP
            /\ \A j \in P : j \in v /\ Cardinality({h \in v : h < j}) < ACTS_CAP
      BY <1>3, <1>9, <2>1, LosPrimeros
    <2>3. P \subseteq S
      BY <2>2 DEF PorVencer, v
    <2>4. QED
      BY <2>2, <2>3
  <1>11. P \subseteq R
    <2> SUFFICES ASSUME NEW j \in P PROVE u[j] = Libre \/ Corrida(u, n, 0, j) <= k
      BY DEF Recientes
    <2>1. u[j] = Libre \/ Corrida(u, n, 0, j) = 0
      BY <1>5, <1>10
    <2>2. QED
      BY <1>1, <2>1
  <1>12. /\ IsFiniteSet(R) /\ Cardinality(R) \in Nat
         /\ IsFiniteSet(P) /\ Cardinality(P) \in Nat /\ Cardinality(P) <= Cardinality(R)
    <2>1. IsFiniteSet(R) /\ Cardinality(R) \in Nat
      BY <1>2, RecientesFinita
    <2> HIDE DEF R
    <2>2. IsFiniteSet(P) /\ Cardinality(P) <= Cardinality(R)
      BY <1>11, <2>1, FS_Subset
    <2>3. QED
      BY <2>1, <2>2, FS_CardinalityType
  <1>13. CASE w = 0
    <2>1. (w + 1) * ACTS_CAP = ACTS_CAP
      BY <1>1, <1>13
    <2> HIDE DEF R
    <2>2. ACTS_CAP <= Cardinality(R)
      BY <1>1, <1>10, <1>12
    <2>3. QED
      BY <2>1, <2>2 DEF R, k
  <1>14. CASE w # 0
    <2> DEFINE x == w - 1
               h == MaxLag * x
               Q == Recientes(t, n, l, i, h)
    <2>1. x \in Nat /\ w = x + 1
      BY <1>14
    <2> HIDE DEF x
    <2>2. k = h + MaxLag /\ h \in Nat
      BY <1>1, <2>1 DEF k
    <2>3. (w + 1) * ACTS_CAP = (x + 1) * ACTS_CAP + ACTS_CAP /\ (x + 1) * ACTS_CAP \in Nat
      BY <1>1, <2>1
    <2> HIDE DEF h
    <2>4. Corrida(t, n, l, i) >= TIMEOUT + h /\ h < TIMEOUT
      BY <1>1, <1>4, <1>7, <1>8, <2>2 DEF Corrida
    <2>5. (x + 1) * ACTS_CAP <= Cardinality(Q)
      BY <1>7, <2>1, <2>4 DEF Turnos, Turno, h
    <2>6. P \cap Q = {}
      <3> SUFFICES ASSUME NEW j \in P, j \in Q PROVE FALSE
        OBVIOUS
      <3>1. j \in v /\ t[j] # Libre /\ j \in EnUso(t)
        BY <1>3, <1>10 DEF EnUso
      <3>2. Edad(n, t[j].enviado_en) >= TIMEOUT
        BY <3>1 DEF Vencidas
      <3>3. Edad(n, t[j].enviado_en) - l <= h
        BY <3>1 DEF Recientes, Corrida
      <3>4. QED
        BY <1>1, <1>4, <2>2, <3>1, <3>2, <3>3
    <2>7. Q \subseteq R
      <3> SUFFICES ASSUME NEW j \in 0 .. i - 1, t[j] = Libre \/ Corrida(t, n, l, j) <= h
                   PROVE  u[j] = Libre \/ Corrida(u, n, 0, j) <= k
        BY DEF Recientes
      <3>1. j \in Slots
        BY <1>2, PendingAssumption DEF Slots
      <3>2. CASE j \in S
        BY <1>1, <1>5, <3>2
      <3>3. CASE j \notin S
        <4>1. u[j] = t[j]
          BY <3>1, <3>3
        <4>2. CASE t[j] # Libre
          <5>1. j \in EnUso(t) /\ Edad(n, t[j].enviado_en) - l <= h
            BY <3>1, <4>2 DEF EnUso, Corrida
          <5>2. Edad(n, t[j].enviado_en) - 0 <= k
            BY <1>1, <1>4, <2>2, <5>1
          <5>3. QED
            BY <4>1, <5>2 DEF Corrida
        <4>3. QED
          BY <4>1, <4>2
      <3>4. QED
        BY <3>2, <3>3
    <2>8. IsFiniteSet(Q) /\ Cardinality(Q) \in Nat
      BY <1>2, RecientesFinita
    <2> HIDE DEF Q, R
    <2>9. Cardinality(P \cup Q) = Cardinality(P) + Cardinality(Q) - Cardinality({})
      BY <1>12, <2>6, <2>8, FS_Union
    <2>10. Cardinality({}) = 0
      BY FS_EmptySet
    <2>11. Cardinality(P \cup Q) <= Cardinality(R)
      BY <1>11, <1>12, <2>7, FS_Subset
    <2> DEFINE a == (x + 1) * ACTS_CAP
    <2>12. a \in Nat /\ a <= Cardinality(Q)
      BY <2>3, <2>5
    <2> HIDE DEF a
    <2>13. a + ACTS_CAP <= Cardinality(R)
      BY <1>1, <1>10, <1>12, <2>8, <2>9, <2>10, <2>11, <2>12
    <2>14. QED
      BY <2>3, <2>13 DEF a, R, k
  <1>15. QED
    BY <1>13, <1>14

LEMMA TurnosSiempre == Spec => []Turnos(pend, now, lag)
  <1>1. Init => Turnos(pend, now, lag)
    BY DEF Init, TablaVacia, EnUso, Turnos
  <1>2. TypeOK /\ TypeOK' /\ Turnos(pend, now, lag) /\ [Next]_vars => Turnos(pend, now, lag)'
    <2> SUFFICES ASSUME TypeOK, TypeOK', Turnos(pend, now, lag), [Next]_vars
                 PROVE  Turnos(pend', now', lag')
      BY DEF Turnos, Turno, Recientes, Corrida, EnUso
    <2>1. /\ pend \in Tabla /\ pend' \in Tabla /\ now \in Clock /\ lag \in 0 .. MaxLag
          /\ \A j \in Slots : pend[j] # Libre => j \in EnUso(pend)
      BY DEF TypeOK, Tabla, EnUso
    <2>2. ASSUME now' = now, lag' = lag, Relevo(pend, pend', now)
          PROVE  Turnos(pend', now', lag')
      BY <2>1, <2>2, TurnosRelevo
    <2>3. CASE UNCHANGED <<now, lag, pend>>
      BY <2>3
    <2>4. CASE \E r \in Reqs, k \in Keys : SubmitAgrupa(r, k)
      <3>1. PICK i \in Slots, r \in Reqs, k \in Keys :
              /\ PuedeAgrupar(pend, k, i)
              /\ pend' = [pend EXCEPT ![i].waiters = @ \cup {r}]
              /\ now' = now /\ lag' = lag
        BY <2>4 DEF SubmitAgrupa, Agrupa
      <3>2. i \in EnUso(pend) /\ pend[i] # Libre
        BY <3>1 DEF PuedeAgrupar, EsPrimera, MismaClave, EnUso
      <3>3. pend[i] \in Entrada
        BY <2>1, <3>2, EnUsoEntrada
      <3>4. \A j \in Slots \ {i} : pend'[j] = pend[j]
        BY <2>1, <3>1 DEF Tabla
      <3>5. pend'[i] = [pend[i] EXCEPT !.waiters = @ \cup {r}]
        BY <2>1, <3>1 DEF Tabla
      <3>6. pend'[i].enviado_en = pend[i].enviado_en
        BY <3>3, <3>5 DEF Entrada
      <3>7. Relevo(pend, pend', now)
        BY <3>2, <3>4, <3>6 DEF Relevo
      <3>8. QED
        BY <2>2, <3>1, <3>7
    <2>5. CASE \E r \in Reqs, k \in Keys : SubmitEnvia(r, k)
      BY <2>1, <2>2, <2>5 DEF SubmitEnvia, NuevaEntrada, Relevo, Tabla
    <2>6. CASE \E m \in wire : RespuestaCasa(m)
      BY <2>1, <2>2, <2>6 DEF RespuestaCasa, Libera, Relevo, Tabla
    <2>7. CASE ProcesaExpiraciones
      <3> DEFINE S == PorVencer(pend, now, TIMEOUT, ACTS_CAP)
      <3>1. PICK x : pend' = TrasVencer(pend, S, x, now)
        BY <2>7 DEF ProcesaExpiraciones
      <3>2. now' = now /\ lag' = 0
        BY <2>7 DEF ProcesaExpiraciones
      <3>3. S \subseteq EnUso(pend)
        BY DEF PorVencer, Vencidas
      <3>4. \A j \in S : pend[j].reintentos \in {0, 1}
        BY <2>1, <3>3, EnUsoEntrada DEF Entrada
      <3>5. S \subseteq Slots
        BY <3>3 DEF EnUso
      <3> HIDE DEF S
      <3>6. \A j \in Slots \ S : pend'[j] = pend[j]
        BY <3>1 DEF TrasVencer, AReintentar, AFallar
      <3>7. \A j \in S : pend'[j] = Libre \/ pend'[j].enviado_en = now
        BY <3>1, <3>4, <3>5 DEF TrasVencer, AReintentar, AFallar, Reintento
      <3>8. Turnos(pend', now, 0)
        BY <2>1, <3>6, <3>7, TurnosExpiraciones DEF S
      <3>9. QED
        BY <3>2, <3>8
    <2>8. CASE Tick
      BY <2>1, <2>8, TurnosTick DEF Tick
    <2>9. QED
      BY <2>3, <2>4, <2>5, <2>6, <2>7, <2>8
      DEF Next, vars, SubmitCrudo, RespuestaCruda, Descarta, Consume, Desiste
  <1>3. QED
    BY <1>1, <1>2, TipoCorrecto, PTL DEF Spec

\* No attempt outlives its timeout by more than the runs of the timer it takes to
\* reach its slot, if they fit in a timeout (procesa_expiraciones, s_acts).
THEOREM IntentosAcotados == Spec => []IntentoAcotado
  <1>1. TypeOK /\ Turnos(pend, now, lag) => IntentoAcotado
    <2> SUFFICES ASSUME TypeOK, Turnos(pend, now, lag), NEW i \in EnUso(pend), Alcanzable(i)
                 PROVE  Edad(now, pend[i].enviado_en) < TIMEOUT + MaxLag * (i \div ACTS_CAP) + lag
      BY DEF IntentoAcotado, Alcanzable
    <2>1. pend \in Tabla /\ now \in Clock /\ lag \in 0 .. MaxLag /\ Turno(pend, now, lag, i)
      BY DEF TypeOK, Tabla, Turnos
    <2>2. QED
      BY <2>1, EdadAcotada
  <1>2. QED
    BY <1>1, TurnosSiempre, TipoCorrecto, PTL
=============================================================================
