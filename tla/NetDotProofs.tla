---------------------------- MODULE NetDotProofs ----------------------------
(***************************************************************************)
(* One DoT task at a time, and what hangs on it: the connection, the       *)
(* forward of net_dns, and what a SERVFAIL says, while no two callers are  *)
(* inside net_dot_start or net_dot_stop at once.  The 15 s that            *)
(* net_dot_stop waits are enough while no resolver keeps the bytes of an   *)
(* answer coming for longer than LECTURA ticks, and 2 * LECTURA + 1 is     *)
(* less than JOIN: a task that is being stopped may still read over the    *)
(* connection it had, make another and read over that one.                 *)
(***************************************************************************)
EXTENDS NetDot, TLAPS

USE NetDotAssumption

-----------------------------------------------------------------------------
(***************************************************************************)
(* The invariant                                                           *)
(***************************************************************************)
Viva(x) == tarea[x].pc # "no"

\* One caller at a time, and one task.
Unicos ==
  /\ \A c, d \in Llamadores : ~Quieto(c) /\ ~Quieto(d) => c = d
  /\ \A x, y \in Tareas : Viva(x) /\ Viva(y) => x = y

\* What there is while a caller is where it is, and when none has anything under way.
Papeles ==
  /\ \A c \in Llamadores :
       /\ llam[c].pc = "arranca" =>
            ~s_running /\ forward = "udp" /\ (\A x \in Tareas : ~Viva(x))
       /\ llam[c].pc = "conmuta" => s_running /\ ~s_stop /\ forward = "udp"
       /\ llam[c].pc = "join" => s_stop /\ forward = "udp"
  /\ (\A c \in Llamadores : Quieto(c)) =>
       IF s_running THEN forward = "dot" /\ saved = "udp" /\ ~s_stop ELSE forward = "udp"

\* What the task and the variables it shares with the callers say of each other.
Avisos ==
  /\ s_running <=> \E x \in Tareas : Viva(x) /\ tarea[x].pc # "avisa"
  /\ \A x \in Tareas :
       /\ tarea[x].pc \in {"sale", "avisa"} => s_stop
       /\ Viva(x) => ~done
       /\ Viva(x) /\ s_stop => \E c \in Llamadores : llam[c].pc = "join"

Maximo == 2 * LECTURA + 1

\* The ticks that a task that is being stopped may still take.
Falta(r) ==
  CASE r.pc = "precalienta" -> 1 - r.t
    [] r.pc = "conecta"     -> 1 - r.t + LECTURA
    [] r.pc = "escribe"     -> IF r.reused THEN Maximo ELSE LECTURA
    [] r.pc = "lee"         -> LECTURA - r.t + IF r.reused THEN 1 + LECTURA ELSE 0
    [] OTHER                -> 0

Tiempo ==
  \A c \in Llamadores : \A x \in Tareas :
    llam[c].pc = "join" /\ Viva(x) => llam[c].t + Falta(tarea[x]) <= Maximo

Intento == {"conecta", "escribe", "lee"}

EnlaceDe(r) ==
  /\ r.pc = "espera" => r.tries = 0
  /\ r.pc = "conecta" => ~r.reused
  /\ r.pc \in Intento \cup {"precalienta"} => r.tries < COUNT
  /\ r.pc \in Intento \cup {"prueba"} => r.q \in Consultas
  /\ r.pc = "lee" /\ tls # Nada => tls.resp \subseteq {r.q}

Enlace == \A x \in Tareas : EnlaceDe(tarea[x])

\* The resolvers k places before s, and k after.
Detras(s, k) == IF k <= s THEN s - k ELSE s - k + COUNT
Delante(s, k) == IF s + k < COUNT THEN s + k ELSE s + k - COUNT

\* The resolvers that the task has gone through have failed; once it has gone
\* through all of them there is nothing to wait for.
RecorridoDe(r) ==
  /\ r.pc # "no" => s_active \in Resolvedores
  /\ r.pc \in Intento => r.idx = s_active
  /\ r.pc \in Intento \cup {"prueba"} =>
       \A k \in 1 .. r.tries : Detras(s_active, k) \in caidos
  /\ r.pc = "precalienta" =>
       /\ alldown = 0
       /\ \A k \in 0 .. r.tries - 1 : Delante(s_active, k) \in caidos

Recorrido ==
  /\ \A x \in Tareas : RecorridoDe(tarea[x])
  /\ alldown > 0 => caidos = Resolvedores

Limpia == (\A x \in Tareas : tarea[x].pc # "lee") /\ tls # Nada => tls.resp = {}

Invariante ==
  TypeOK /\ Unicos /\ Papeles /\ Avisos /\ Tiempo /\ Enlace /\ Limpia /\ Recorrido

-----------------------------------------------------------------------------
(***************************************************************************)
(* What every step of the task does                                        *)
(***************************************************************************)
LEMMA EnSilencio == Silencio \in Salida
  BY DEF Silencio, Salida

LEMMA PasoControl ==
  ASSUME Unicos, Papeles, Avisos, NEW x \in Tareas, Viva(x), tarea[x].pc # "avisa",
         \A y \in Tareas : y # x => tarea'[y] = tarea[y],
         tarea'[x].pc \notin {"no", "avisa"}, tarea'[x].pc = "sale" => s_stop,
         UNCHANGED control
  PROVE  Unicos' /\ Papeles' /\ Avisos'
  <1>1. \A y \in Tareas : y # x => tarea[y].pc = "no" /\ tarea'[y].pc = "no"
    BY DEF Quieto, Unicos, Viva
  <1>2. UNCHANGED <<forward, saved, s_running, s_stop, done, llam, solapados>>
    BY DEF control
  <1>3. Unicos'
    BY <1>1, <1>2 DEF Quieto, Unicos, Viva
  <1>4. Papeles'
    BY <1>1, <1>2 DEF Quieto, Papeles, Viva
  <1>5. Avisos'
    BY <1>1, <1>2 DEF Avisos, Viva
  <1>6. QED
    BY <1>3, <1>4, <1>5

LEMMA PasoTiempo ==
  ASSUME Unicos, Papeles, Tiempo, TypeOK, NEW x \in Tareas, Viva(x), UNCHANGED <<llam, s_stop>>,
         \A y \in Tareas : y # x => tarea'[y] = tarea[y],
         Falta(tarea[x]) \in Int, Falta(tarea'[x]) \in Int,
         s_stop => Falta(tarea'[x]) <= Falta(tarea[x])
  PROVE  Tiempo'
  <1>1. \A y \in Tareas : y # x => ~Viva(y)'
    BY DEF Quieto, Unicos, Viva
  <1>2. ASSUME NEW c \in Llamadores, llam'[c].pc = "join"
        PROVE  llam'[c].t + Falta(tarea'[x]) <= Maximo
    <2>1. llam[c].pc = "join" /\ llam'[c] = llam[c] /\ s_stop
      BY <1>2 DEF Quieto, Papeles
    <2>2. llam[c].t + Falta(tarea[x]) <= Maximo
      BY <2>1 DEF Tiempo
    <2>3. llam[c].t \in Int /\ Maximo \in Int
      BY DEF TypeOK, Llamador, Maximo
    <2>4. QED
      BY <2>1, <2>2, <2>3
  <1>3. QED
    BY <1>1, <1>2 DEF Tiempo

LEMMA FaltaNat ==
  ASSUME NEW r \in Tarea, r.t <= Limite(r)
  PROVE  Falta(r) \in Nat /\ Falta(r) <= Maximo
  BY DEF Tarea, Limite, Falta, Maximo, EnRed

\* A step of the task x, by what it leaves.
LEMMA Pasa ==
  ASSUME Invariante, NEW x \in Tareas, Viva(x), tarea[x].pc # "avisa",
         UNCHANGED control,
         tarea' \in [Tareas -> Tarea], \A y \in Tareas : y # x => tarea'[y] = tarea[y],
         tarea'[x].t <= Limite(tarea'[x]),
         tarea'[x].pc \notin {"no", "avisa"}, tarea'[x].pc = "sale" => s_stop,
         s_stop => Falta(tarea'[x]) <= Falta(tarea[x]),
         queue' \in Seq(Consultas), Len(queue') <= DOT_QUEUE_DEPTH,
         tls' \in Conexion \cup {Nada}, s_active' \in Resolvedores \cup {-1},
         alldown' \in 0 .. DOT_BACKOFF, esperan' \subseteq Consultas,
         caidos' \subseteq Resolvedores, salida' \in Salida,
         EnlaceDe(tarea[x])', RecorridoDe(tarea[x])',
         tarea'[x].pc # "lee" /\ tls' # Nada => tls'.resp = {},
         alldown' > 0 => caidos' = Resolvedores
  PROVE  Invariante'
  <1>1. /\ TypeOK /\ Unicos /\ Papeles /\ Avisos /\ Tiempo
    BY DEF Invariante
  <1>2. \A y \in Tareas : y # x => tarea[y].pc = "no" /\ tarea'[y].pc = "no"
    BY <1>1 DEF Quieto, Unicos, Viva
  <1>3. UNCHANGED <<forward, saved, s_running, s_stop, done, llam, solapados>>
    BY DEF control
  <1>4. Unicos' /\ Papeles' /\ Avisos'
    BY <1>1, PasoControl
  <1>5. \A y \in Tareas : tarea'[y].t <= Limite(tarea'[y])
    BY <1>1 DEF TypeOK
  <1>6. TypeOK'
    BY <1>1, <1>3, <1>5 DEF TypeOK
  <1>7. Tiempo'
    <2>1. tarea[x] \in Tarea /\ tarea[x].t <= Limite(tarea[x])
      BY <1>1 DEF TypeOK
    <2>2. tarea'[x] \in Tarea
      OBVIOUS
    <2>3. Falta(tarea[x]) \in Int
      BY <2>1, FaltaNat
    <2>4. Falta(tarea'[x]) \in Int
      BY <2>2, FaltaNat
    <2>5. QED
      BY <1>1, <1>3, <2>3, <2>4, PasoTiempo
  <1>8. Enlace'
    <2>1. ASSUME NEW y \in Tareas
          PROVE  EnlaceDe(tarea[y])'
      <3>1. CASE y = x
        BY <3>1
      <3>2. CASE y # x
        BY <1>2, <3>2 DEF EnlaceDe, Intento
      <3>3. QED
        BY <3>1, <3>2
    <2>2. QED
      BY <2>1 DEF Enlace
  <1>9. Recorrido'
    <2>1. ASSUME NEW y \in Tareas
          PROVE  RecorridoDe(tarea[y])'
      <3>1. CASE y = x
        BY <3>1
      <3>2. CASE y # x
        BY <1>2, <3>2 DEF RecorridoDe, Intento
      <3>3. QED
        BY <3>1, <3>2
    <2>2. QED
      BY <2>1 DEF Recorrido
  <1>10. Limpia'
    BY DEF Limpia
  <1>11. QED
    BY <1>4, <1>6, <1>7, <1>8, <1>9, <1>10 DEF Invariante

\* The circle of the resolvers.
LEMMA Siguiente ==
  ASSUME NEW s \in Resolvedores
  PROVE  Proximo(s) \in Resolvedores /\ Proximo(s) = IF s + 1 = COUNT THEN 0 ELSE s + 1
  BY DEF Proximo, Resolvedores

LEMMA DaVuelta ==
  ASSUME NEW C \in Nat \ {0}, NEW s \in 0 .. C - 1, NEW n \in 0 .. C - 1, s + n >= C
  PROVE  (s + n) % C = s + n - C
  OBVIOUS

LEMMA Avanza ==
  ASSUME NEW s \in Resolvedores, NEW n \in Nat, n < COUNT
  PROVE  (s + n) % COUNT = Delante(s, n) /\ Delante(s, n) \in Resolvedores
  <1>1. s \in 0 .. COUNT - 1 /\ COUNT \in Nat \ {0}
    BY DEF Resolvedores
  <1>2. CASE s + n < COUNT
    BY <1>1, <1>2 DEF Delante, Resolvedores
  <1>3. CASE ~(s + n < COUNT)
    <2>1. s + n >= COUNT /\ n \in 0 .. COUNT - 1
      BY <1>1, <1>3
    <2>2. (s + n) % COUNT = s + n - COUNT
      BY <1>1, <2>1, DaVuelta, Zenon
    <2>3. Delante(s, n) = s + n - COUNT
      BY <1>3 DEF Delante
    <2>4. Delante(s, n) \in Resolvedores
      BY <1>1, <2>1, <2>3 DEF Resolvedores
    <2>5. QED
      BY <2>2, <2>3, <2>4
  <1>4. QED
    BY <1>2, <1>3

\* Going on from s: its neighbour's neighbours behind are s and those of s.
LEMMA DetrasProximo ==
  ASSUME NEW s \in Resolvedores, NEW k \in 1 .. COUNT
  PROVE  Detras(Proximo(s), k) = IF k = 1 THEN s ELSE Detras(s, k - 1)
  <1>1. Proximo(s) = IF s + 1 = COUNT THEN 0 ELSE s + 1
    BY Siguiente
  <1>2. QED
    BY <1>1 DEF Detras, Resolvedores

\* Who has gone COUNT places has been everywhere.
LEMMA VueltaDetras ==
  ASSUME NEW s \in Resolvedores, NEW S, \A k \in 1 .. COUNT : Detras(s, k) \in S
  PROVE  Resolvedores \subseteq S
  <1> SUFFICES ASSUME NEW r \in Resolvedores
               PROVE  r \in S
    OBVIOUS
  <1>1. CASE r < s
    <2>1. s - r \in 1 .. COUNT /\ Detras(s, s - r) = r
      BY <1>1 DEF Detras, Resolvedores
    <2>2. QED
      BY <2>1
  <1>2. CASE ~(r < s)
    <2>1. s - r + COUNT \in 1 .. COUNT /\ Detras(s, s - r + COUNT) = r
      BY <1>2 DEF Detras, Resolvedores
    <2>2. QED
      BY <2>1
  <1>3. QED
    BY <1>1, <1>2

LEMMA VueltaDelante ==
  ASSUME NEW s \in Resolvedores, NEW S, \A k \in 0 .. COUNT - 1 : Delante(s, k) \in S
  PROVE  Resolvedores \subseteq S
  <1> SUFFICES ASSUME NEW r \in Resolvedores
               PROVE  r \in S
    OBVIOUS
  <1>1. CASE r < s
    <2>1. r - s + COUNT \in 0 .. COUNT - 1 /\ Delante(s, r - s + COUNT) = r
      BY <1>1 DEF Delante, Resolvedores
    <2>2. QED
      BY <2>1
  <1>2. CASE ~(r < s)
    <2>1. r - s \in 0 .. COUNT - 1 /\ Delante(s, r - s) = r
      BY <1>2 DEF Delante, Resolvedores
    <2>2. QED
      BY <2>1
  <1>3. QED
    BY <1>1, <1>2

(***************************************************************************)
(* The steps of the task                                                   *)
(***************************************************************************)
\* What is known of the task x, and of the shared state, before its step.
LEMMA Sabe ==
  ASSUME Invariante, NEW x \in Tareas
  PROVE  /\ TypeOK /\ tarea[x] \in Tarea /\ tarea[x].t <= Limite(tarea[x])
         /\ EnlaceDe(tarea[x]) /\ RecorridoDe(tarea[x])
         /\ alldown > 0 => caidos = Resolvedores
         /\ tarea[x].pc \notin {"no", "lee"} => (tls # Nada => tls.resp = {})
  <1>1. /\ TypeOK /\ tarea[x] \in Tarea /\ tarea[x].t <= Limite(tarea[x])
        /\ EnlaceDe(tarea[x]) /\ RecorridoDe(tarea[x])
        /\ alldown > 0 => caidos = Resolvedores
    BY DEF Invariante, TypeOK, Enlace, Recorrido
  <1>2. ASSUME tarea[x].pc \notin {"no", "lee"}, tls # Nada
        PROVE  tls.resp = {}
    <2>1. \A y \in Tareas : tarea[y].pc # "lee"
      BY <1>2 DEF Quieto, Invariante, Unicos, Viva
    <2>2. QED
      BY <1>2, <2>1 DEF Invariante, Limpia
  <1>3. QED
    BY <1>1, <1>2

\* The task goes back to the head of its loop.
LEMMA EnBucle ==
  ASSUME tarea \in [Tareas -> Tarea], s_stop \in BOOLEAN, NEW x \in Tareas, Bucle(x)
  PROVE  /\ tarea' \in [Tareas -> Tarea]
         /\ \A y \in Tareas : y # x => tarea'[y] = tarea[y]
         /\ tarea'[x].pc = IF s_stop THEN "sale" ELSE "espera"
         /\ tarea'[x].t = 0 /\ tarea'[x].tries = 0
         /\ tarea'[x].t <= Limite(tarea'[x])
         /\ Falta(tarea'[x]) = 0
  <1> DEFINE r == [SinTarea EXCEPT !.pc = IF s_stop THEN "sale" ELSE "espera"]
  <1>1. r \in Tarea
    <2>1. 0 \in Resolvedores /\ 0 \in 0 .. COUNT /\ 0 \in Nat
      BY DEF Resolvedores
    <2>2. SinTarea \in Tarea
      BY <2>1 DEF SinTarea, Tarea
    <2>3. QED
      BY <2>2 DEF Tarea
  <1>2. r.pc = (IF s_stop THEN "sale" ELSE "espera") /\ r.t = 0 /\ r.tries = 0
    BY DEF SinTarea
  <1>3. tarea' = [tarea EXCEPT ![x] = r]
    BY DEF Bucle
  <1> HIDE DEF r
  <1>4. tarea'[x] = r /\ tarea' \in [Tareas -> Tarea]
    BY <1>1, <1>3
  <1>5. r.t <= Limite(r) /\ Falta(r) = 0
    BY <1>2 DEF Limite, Falta
  <1>6. QED
    BY <1>2, <1>3, <1>4, <1>5

\* A step that ends at the head of the loop.
LEMMA PasaBucle ==
  ASSUME Invariante, NEW x \in Tareas, Viva(x), tarea[x].pc # "avisa", Bucle(x),
         UNCHANGED control,
         queue' \in Seq(Consultas), Len(queue') <= DOT_QUEUE_DEPTH,
         tls' \in Conexion \cup {Nada}, s_active' \in Resolvedores,
         alldown' \in 0 .. DOT_BACKOFF, esperan' \subseteq Consultas,
         caidos' \subseteq Resolvedores, salida' \in Salida,
         tls' # Nada => tls'.resp = {},
         alldown' > 0 => caidos' = Resolvedores
  PROVE  Invariante'
  <1>1. tarea \in [Tareas -> Tarea] /\ s_stop \in BOOLEAN
        /\ tarea[x] \in Tarea /\ tarea[x].t <= Limite(tarea[x])
    BY Sabe DEF TypeOK
  <1>2. /\ tarea' \in [Tareas -> Tarea]
        /\ \A y \in Tareas : y # x => tarea'[y] = tarea[y]
        /\ tarea'[x].pc = IF s_stop THEN "sale" ELSE "espera"
        /\ tarea'[x].t = 0 /\ tarea'[x].tries = 0
        /\ tarea'[x].t <= Limite(tarea'[x])
        /\ Falta(tarea'[x]) = 0
    BY <1>1, EnBucle
  <1>3. Falta(tarea'[x]) <= Falta(tarea[x])
    <2>1. Falta(tarea[x]) \in Nat
      BY <1>1, FaltaNat
    <2>2. QED
      BY <1>2, <2>1
  <1>4. EnlaceDe(tarea[x])' /\ RecorridoDe(tarea[x])'
    BY <1>1, <1>2 DEF EnlaceDe, RecorridoDe, Intento
  <1>5. tarea'[x].pc \notin {"no", "avisa", "lee"} /\ (tarea'[x].pc = "sale" => s_stop)
    BY <1>1, <1>2
  <1>6. QED
    BY <1>2, <1>3, <1>4, <1>5, Pasa

LEMMA PrecalientaPasa ==
  ASSUME Invariante, NEW x \in Tareas, Precalienta(x)
  PROVE  Invariante'
  <1> DEFINE n == tarea[x].tries
             idx == (s_active + n) % COUNT
  <1>1. /\ TypeOK /\ tarea[x] \in Tarea /\ tarea[x].t <= Limite(tarea[x])
        /\ EnlaceDe(tarea[x]) /\ RecorridoDe(tarea[x])
        /\ tls # Nada => tls.resp = {}
        /\ tarea[x].pc = "precalienta" /\ Viva(x)
    BY Sabe DEF Precalienta, Viva
  <1>2. /\ UNCHANGED control /\ UNCHANGED <<queue, esperan>> /\ salida' \in Salida
        /\ \/ s_stop /\ Bucle(x) /\ UNCHANGED <<tls, s_active, alldown, caidos>>
           \/ /\ ~s_stop /\ tls' = [idx |-> idx, resp |-> {}] /\ s_active' = idx
              /\ caidos' = caidos \ {idx} /\ Bucle(x) /\ UNCHANGED alldown
           \/ /\ ~s_stop /\ tls' = Nada /\ caidos' = caidos \cup {idx}
              /\ IF n + 1 < COUNT
                   THEN /\ tarea' = [tarea EXCEPT ![x].tries = n + 1, ![x].t = 0]
                        /\ UNCHANGED alldown
                   ELSE Bucle(x) /\ alldown' = DOT_BACKOFF
              /\ UNCHANGED s_active
    BY EnSilencio DEF Precalienta
  <1>3. n \in Nat /\ n < COUNT /\ s_active \in Resolvedores /\ alldown = 0
    BY <1>1 DEF EnlaceDe, RecorridoDe, Intento, Tarea
  <1>4. idx = Delante(s_active, n) /\ idx \in Resolvedores
    BY <1>3, Avanza
  <1>5. \A k \in 0 .. n - 1 : Delante(s_active, k) \in caidos
    BY <1>1 DEF RecorridoDe
  <1> HIDE DEF n, idx
  <1>6. /\ queue' \in Seq(Consultas) /\ Len(queue') <= DOT_QUEUE_DEPTH
        /\ esperan' \subseteq Consultas
        /\ tarea[x].pc # "avisa" /\ DOT_BACKOFF \in 0 .. DOT_BACKOFF
    BY <1>1, <1>2 DEF TypeOK
  <1>7. CASE s_stop /\ Bucle(x) /\ UNCHANGED <<tls, s_active, alldown, caidos>>
    BY <1>1, <1>2, <1>3, <1>6, <1>7, PasaBucle DEF TypeOK
  <1>8. CASE /\ ~s_stop /\ tls' = [idx |-> idx, resp |-> {}] /\ s_active' = idx
             /\ caidos' = caidos \ {idx} /\ Bucle(x) /\ UNCHANGED alldown
    <2>1. tls' \in Conexion \cup {Nada} /\ tls'.resp = {} /\ s_active' \in Resolvedores
      BY <1>4, <1>8 DEF Conexion
    <2>2. alldown' = 0 /\ alldown' \in 0 .. DOT_BACKOFF /\ caidos' \subseteq Resolvedores
      BY <1>1, <1>3, <1>8 DEF TypeOK
    <2>3. /\ alldown' > 0 => caidos' = Resolvedores
          /\ tls' # Nada => tls'.resp = {}
          /\ salida' \in Salida
      BY <1>2, <2>1, <2>2
    <2>4. UNCHANGED control /\ Bucle(x)
      BY <1>2, <1>8
    <2>5. QED
      BY <1>1, <1>6, <2>1, <2>2, <2>3, <2>4, PasaBucle, Zenon
  <1>9. CASE /\ ~s_stop /\ tls' = Nada /\ caidos' = caidos \cup {idx} /\ UNCHANGED s_active
             /\ n + 1 < COUNT
             /\ tarea' = [tarea EXCEPT ![x].tries = n + 1, ![x].t = 0]
             /\ UNCHANGED alldown
    <2>1. /\ tarea'[x] \in Tarea /\ tarea'[x].pc = "precalienta" /\ tarea'[x].tries = n + 1
          /\ tarea'[x].t = 0 /\ tarea' \in [Tareas -> Tarea]
          /\ \A y \in Tareas : y # x => tarea'[y] = tarea[y]
      <3> DEFINE r == [tarea[x] EXCEPT !.tries = n + 1, !.t = 0]
      <3>1. n + 1 \in 0 .. COUNT
        BY <1>3, <1>9
      <3>2. r \in Tarea /\ r.pc = "precalienta" /\ r.tries = n + 1 /\ r.t = 0
        BY <1>1, <3>1 DEF Tarea
      <3>3. tarea' = [tarea EXCEPT ![x] = r]
        BY <1>1, <1>9 DEF TypeOK
      <3> HIDE DEF r
      <3>4. QED
        BY <1>1, <3>2, <3>3 DEF TypeOK
    <2>2. tarea'[x].t <= Limite(tarea'[x])
      BY <2>1 DEF Limite
    <2>3. caidos' \subseteq Resolvedores /\ tls' \in Conexion \cup {Nada}
      BY <1>1, <1>4, <1>9 DEF TypeOK
    <2>4. EnlaceDe(tarea[x])'
      BY <1>9, <2>1 DEF EnlaceDe, Intento
    <2>5. RecorridoDe(tarea[x])'
      <3>1. ASSUME NEW k \in 0 .. tarea'[x].tries - 1
            PROVE  Delante(s_active', k) \in caidos'
        <4>1. k \in 0 .. n - 1 \/ k = n
          BY <1>3, <2>1
        <4>2. s_active' = s_active /\ caidos' = caidos \cup {idx}
          BY <1>9
        <4>3. QED
          BY <1>4, <1>5, <4>1, <4>2
      <3>2. QED
        BY <1>3, <1>9, <2>1, <3>1 DEF RecorridoDe, Intento
    <2>6. s_active' \in Resolvedores \cup {-1} /\ alldown' \in 0 .. DOT_BACKOFF
          /\ alldown' = 0
      BY <1>1, <1>3, <1>9 DEF TypeOK
    <2>7. QED
      BY <1>1, <1>2, <1>6, <1>9, <2>1, <2>2, <2>3, <2>4, <2>5, <2>6, Pasa
  <1>10. CASE /\ ~s_stop /\ tls' = Nada /\ caidos' = caidos \cup {idx} /\ UNCHANGED s_active
              /\ ~(n + 1 < COUNT)
              /\ Bucle(x) /\ alldown' = DOT_BACKOFF
    <2>1. caidos' = Resolvedores
      <3>1. ASSUME NEW k \in 0 .. COUNT - 1
            PROVE  Delante(s_active, k) \in caidos'
        <4>1. k \in 0 .. n - 1 \/ k = n
          BY <1>3, <1>10
        <4>2. QED
          BY <1>4, <1>5, <1>10, <4>1
      <3>2. Resolvedores \subseteq caidos'
        BY <1>3, <3>1, VueltaDelante
      <3>3. QED
        BY <1>1, <1>4, <1>10, <3>2 DEF TypeOK
    <2>2. tls' \in Conexion \cup {Nada} /\ s_active' \in Resolvedores
      BY <1>3, <1>10
    <2>3. QED
      BY <1>1, <1>2, <1>6, <1>10, <2>1, <2>2, PasaBucle
  <1>11. QED
    BY <1>2, <1>7, <1>8, <1>9, <1>10

LEMMA RecibePasa ==
  ASSUME Invariante, NEW x \in Tareas, Recibe(x)
  PROVE  Invariante'
  <1>1. /\ TypeOK /\ tarea[x] \in Tarea /\ tarea[x].t <= Limite(tarea[x])
        /\ EnlaceDe(tarea[x]) /\ RecorridoDe(tarea[x])
        /\ alldown > 0 => caidos = Resolvedores
        /\ tls # Nada => tls.resp = {}
        /\ tarea[x].pc = "espera" /\ Viva(x)
    BY Sabe DEF Recibe, Viva
  <1>2. /\ queue \in Seq(Consultas) /\ Len(queue) <= DOT_QUEUE_DEPTH /\ queue # <<>>
        /\ queue' = Tail(queue)
        /\ UNCHANGED <<tls, s_active, alldown, caidos>> /\ UNCHANGED control
    BY <1>1 DEF Recibe, TypeOK
  <1>3. /\ queue' \in Seq(Consultas) /\ Len(queue') <= DOT_QUEUE_DEPTH
        /\ Head(queue) \in Consultas
    BY <1>2
  <1>4. /\ tls' \in Conexion \cup {Nada} /\ s_active' \in Resolvedores
        /\ alldown' \in 0 .. DOT_BACKOFF /\ caidos' \subseteq Resolvedores
        /\ tls' # Nada => tls'.resp = {}
        /\ alldown' > 0 => caidos' = Resolvedores
    BY <1>1, <1>2 DEF TypeOK, RecorridoDe
  <1>5. CASE alldown > 0 /\ send_servfail(Head(queue)) /\ Bucle(x)
    <2>1. esperan' \subseteq Consultas /\ salida' \in Salida
      BY <1>1, <1>3, <1>5 DEF send_servfail, Responde, TypeOK, Salida
    <2>2. QED
      BY <1>1, <1>2, <1>3, <1>4, <1>5, <2>1, PasaBucle
  <1>6. CASE /\ tarea' = [tarea EXCEPT ![x].pc = "prueba", ![x].q = Head(queue)]
             /\ salida' = Silencio /\ UNCHANGED esperan
    <2>1. /\ tarea'[x] \in Tarea /\ tarea'[x].pc = "prueba" /\ tarea'[x].q \in Consultas
          /\ tarea'[x].tries = 0 /\ tarea'[x].t = tarea[x].t /\ tarea' \in [Tareas -> Tarea]
          /\ \A y \in Tareas : y # x => tarea'[y] = tarea[y]
      BY <1>1, <1>3, <1>6 DEF TypeOK, Tarea, EnlaceDe
    <2>2. tarea'[x].t <= Limite(tarea'[x]) /\ Falta(tarea'[x]) <= Falta(tarea[x])
      BY <1>1, <2>1 DEF Limite, Falta
    <2>3. EnlaceDe(tarea[x])' /\ RecorridoDe(tarea[x])'
      BY <1>4, <2>1 DEF EnlaceDe, RecorridoDe, Intento
    <2>4. esperan' \subseteq Consultas
      BY <1>1, <1>6 DEF TypeOK
    <2>5. QED
      BY <1>1, <1>2, <1>3, <1>4, <1>6, <2>1, <2>2, <2>3, <2>4, EnSilencio, Pasa
  <1>7. QED
    BY <1>5, <1>6 DEF Recibe

LEMMA NadaPasa ==
  ASSUME Invariante, NEW x \in Tareas, NadaQueHacer(x)
  PROVE  Invariante'
  <1>1. /\ TypeOK /\ RecorridoDe(tarea[x])
        /\ alldown > 0 => caidos = Resolvedores
        /\ tls # Nada => tls.resp = {}
        /\ tarea[x].pc = "espera" /\ Viva(x)
    BY Sabe DEF NadaQueHacer, Viva
  <1>2. /\ UNCHANGED <<queue, tls, s_active, alldown, esperan, caidos>> /\ UNCHANGED control
        /\ salida' \in Salida /\ Bucle(x)
    BY EnSilencio DEF NadaQueHacer
  <1>3. QED
    BY <1>1, <1>2, PasaBucle DEF TypeOK, RecorridoDe

LEMMA AgotadaPasa ==
  ASSUME Invariante, NEW x \in Tareas, Agotada(x)
  PROVE  Invariante' /\ caidos' = Resolvedores
  <1>1. /\ TypeOK /\ EnlaceDe(tarea[x]) /\ RecorridoDe(tarea[x])
        /\ tls # Nada => tls.resp = {}
        /\ tarea[x].pc = "prueba" /\ Viva(x)
    BY Sabe DEF Agotada, Viva
  <1>2. /\ UNCHANGED <<queue, tls, s_active, caidos>> /\ UNCHANGED control
        /\ alldown' = DOT_BACKOFF /\ Bucle(x) /\ send_servfail(tarea[x].q)
        /\ tarea[x].tries = COUNT
    BY DEF Agotada
  <1>3. s_active \in Resolvedores
    BY <1>1 DEF RecorridoDe
  <1>4. \A k \in 1 .. COUNT : Detras(s_active, k) \in caidos
    BY <1>1, <1>2 DEF RecorridoDe
  <1>5. Resolvedores \subseteq caidos
    BY <1>3, <1>4, VueltaDetras
  <1>6. caidos' = Resolvedores
    BY <1>1, <1>2, <1>5 DEF TypeOK
  <1>7. esperan' \subseteq Consultas /\ salida' \in Salida
    BY <1>1, <1>2 DEF send_servfail, Responde, TypeOK, Salida, EnlaceDe, Intento
  <1>8. /\ queue' \in Seq(Consultas) /\ Len(queue') <= DOT_QUEUE_DEPTH
        /\ tls' \in Conexion \cup {Nada} /\ s_active' \in Resolvedores
        /\ tls' # Nada => tls'.resp = {}
        /\ alldown' \in 0 .. DOT_BACKOFF
    BY <1>1, <1>2, <1>3 DEF TypeOK
  <1>9. QED
    BY <1>1, <1>2, <1>6, <1>7, <1>8, PasaBucle

LEMMA AbandonaPasa ==
  ASSUME Invariante, NEW x \in Tareas, Abandona(x)
  PROVE  Invariante'
  <1>1. /\ TypeOK /\ EnlaceDe(tarea[x]) /\ RecorridoDe(tarea[x])
        /\ alldown > 0 => caidos = Resolvedores
        /\ tls # Nada => tls.resp = {}
        /\ tarea[x].pc = "prueba" /\ Viva(x)
    BY Sabe DEF Abandona, Viva
  <1>2. /\ UNCHANGED <<queue, tls, s_active, alldown, caidos>> /\ UNCHANGED control
        /\ Bucle(x) /\ Responde(tarea[x].q, "nada")
    BY DEF Abandona
  <1>3. esperan' \subseteq Consultas /\ salida' \in Salida
    BY <1>1, <1>2, EnSilencio DEF Responde, TypeOK, Salida, EnlaceDe, Intento
  <1>4. QED
    BY <1>1, <1>2, <1>3, PasaBucle DEF TypeOK, RecorridoDe

\* What a step that moves the task x to another blocking call leaves.
LEMMA PruebaPasa ==
  ASSUME Invariante, NEW x \in Tareas, Prueba(x)
  PROVE  Invariante'
  <1> DEFINE idx == IF s_active >= 0 THEN s_active ELSE 0
             reused == tls # Nada /\ tls.idx = idx
             r == [tarea[x] EXCEPT !.idx = idx, !.reused = reused, !.t = 0,
                                   !.pc = IF reused THEN "escribe" ELSE "conecta"]
  <1>1. /\ TypeOK /\ tarea[x] \in Tarea /\ EnlaceDe(tarea[x]) /\ RecorridoDe(tarea[x])
        /\ alldown > 0 => caidos = Resolvedores
        /\ tls # Nada => tls.resp = {}
        /\ tarea[x].pc = "prueba" /\ Viva(x)
    BY Sabe DEF Prueba, Viva
  <1>2. /\ UNCHANGED <<queue, s_active, alldown, esperan, caidos>> /\ UNCHANGED control
        /\ ~s_stop /\ tarea[x].tries < COUNT /\ salida' \in Salida
        /\ tls' = tls \/ tls' = Nada
    BY EnSilencio DEF Prueba
  <1>3. s_active \in Resolvedores /\ idx = s_active
    BY <1>1 DEF RecorridoDe, Resolvedores
  <1>4. tarea' = [tarea EXCEPT ![x] = r]
    BY <1>1 DEF Prueba, TypeOK
  <1>5. reused \in BOOLEAN
    OBVIOUS
  <1> HIDE DEF idx, reused
  <1>6. /\ r \in Tarea /\ r.pc \in {"escribe", "conecta"} /\ r.t = 0 /\ r.idx = s_active
        /\ r.tries = tarea[x].tries /\ r.q = tarea[x].q
        /\ r.pc = "conecta" => ~r.reused
    <2>1. r \in Tarea
      BY <1>1, <1>3, <1>5 DEF Tarea, EnRed
    <2>2. r.pc = (IF reused THEN "escribe" ELSE "conecta") /\ r.reused = reused
          /\ r.t = 0 /\ r.idx = idx /\ r.tries = tarea[x].tries /\ r.q = tarea[x].q
      BY <1>1 DEF Tarea
    <2> HIDE DEF r
    <2>3. QED
      BY <1>3, <2>1, <2>2
  <1> HIDE DEF r
  <1>7. /\ tarea'[x] = r /\ tarea' \in [Tareas -> Tarea]
        /\ \A y \in Tareas : y # x => tarea'[y] = tarea[y]
    BY <1>1, <1>4, <1>6 DEF TypeOK
  <1>8. r.t <= Limite(r)
    BY <1>6 DEF Limite
  <1>9. EnlaceDe(tarea[x])'
    BY <1>1, <1>2, <1>6, <1>7 DEF EnlaceDe, Intento
  <1>10. RecorridoDe(tarea[x])'
    BY <1>1, <1>2, <1>3, <1>6, <1>7 DEF RecorridoDe, Intento
  <1>11. /\ queue' \in Seq(Consultas) /\ Len(queue') <= DOT_QUEUE_DEPTH
         /\ tls' \in Conexion \cup {Nada} /\ s_active' \in Resolvedores \cup {-1}
         /\ alldown' \in 0 .. DOT_BACKOFF /\ esperan' \subseteq Consultas
         /\ caidos' \subseteq Resolvedores
         /\ tls' # Nada => tls'.resp = {}
         /\ alldown' > 0 => caidos' = Resolvedores
    BY <1>1, <1>2 DEF TypeOK
  <1>12. QED
    BY <1>1, <1>2, <1>6, <1>7, <1>8, <1>9, <1>10, <1>11, Pasa

LEMMA EnVa ==
  ASSUME tarea \in [Tareas -> Tarea], NEW x \in Tareas,
         NEW pc \in {"escribe", "lee"}, Va(x, pc)
  PROVE  /\ tarea' \in [Tareas -> Tarea]
         /\ \A y \in Tareas : y # x => tarea'[y] = tarea[y]
         /\ tarea'[x].pc = pc /\ tarea'[x].t = 0
         /\ tarea'[x].q = tarea[x].q /\ tarea'[x].tries = tarea[x].tries
         /\ tarea'[x].idx = tarea[x].idx /\ tarea'[x].reused = tarea[x].reused
         /\ tarea'[x].t <= Limite(tarea'[x])
  <1> DEFINE r == [tarea[x] EXCEPT !.pc = pc, !.t = 0]
  <1>1. tarea' = [tarea EXCEPT ![x] = r]
    BY DEF Va
  <1>2. /\ r \in Tarea /\ r.pc = pc /\ r.t = 0 /\ r.q = tarea[x].q /\ r.tries = tarea[x].tries
        /\ r.idx = tarea[x].idx /\ r.reused = tarea[x].reused
    BY DEF Tarea, EnRed
  <1> HIDE DEF r
  <1>3. r.t <= Limite(r)
    BY <1>2 DEF Limite
  <1>4. tarea'[x] = r /\ tarea' \in [Tareas -> Tarea]
    BY <1>1, <1>2
  <1>5. QED
    BY <1>1, <1>2, <1>3, <1>4

LEMMA ConectaPasa ==
  ASSUME Invariante, NEW x \in Tareas, Conecta(x)
  PROVE  Invariante'
  <1>1. /\ TypeOK /\ tarea[x] \in Tarea /\ tarea[x].t <= Limite(tarea[x])
        /\ EnlaceDe(tarea[x]) /\ RecorridoDe(tarea[x])
        /\ alldown > 0 => caidos = Resolvedores
        /\ tarea[x].pc = "conecta" /\ Viva(x)
    BY Sabe DEF Conecta, Viva
  <1>2. /\ UNCHANGED <<queue, s_active, alldown, esperan, caidos>> /\ UNCHANGED control
        /\ tls' = [idx |-> tarea[x].idx, resp |-> {}] /\ salida' \in Salida
        /\ Va(x, "escribe")
    BY EnSilencio DEF Conecta
  <1>3. /\ tarea' \in [Tareas -> Tarea]
        /\ \A y \in Tareas : y # x => tarea'[y] = tarea[y]
        /\ tarea'[x].pc = "escribe" /\ tarea'[x].t = 0
        /\ tarea'[x].q = tarea[x].q /\ tarea'[x].tries = tarea[x].tries
        /\ tarea'[x].idx = tarea[x].idx /\ tarea'[x].reused = tarea[x].reused
        /\ tarea'[x].t <= Limite(tarea'[x])
    BY <1>1, <1>2, EnVa DEF TypeOK
  <1>4. tls' \in Conexion /\ tls'.resp = {}
    BY <1>1, <1>2 DEF Conexion, Tarea
  <1>5. Falta(tarea'[x]) <= Falta(tarea[x])
    BY <1>1, <1>3 DEF Falta, Limite, EnlaceDe, Tarea
  <1>6. EnlaceDe(tarea[x])'
    BY <1>1, <1>3 DEF EnlaceDe, Intento
  <1>7. RecorridoDe(tarea[x])'
    BY <1>1, <1>2, <1>3 DEF RecorridoDe, Intento
  <1>8. /\ queue' \in Seq(Consultas) /\ Len(queue') <= DOT_QUEUE_DEPTH
        /\ s_active' \in Resolvedores \cup {-1}
        /\ alldown' \in 0 .. DOT_BACKOFF /\ esperan' \subseteq Consultas
        /\ caidos' \subseteq Resolvedores
        /\ alldown' > 0 => caidos' = Resolvedores
    BY <1>1, <1>2 DEF TypeOK
  <1>9. QED
    BY <1>1, <1>2, <1>3, <1>4, <1>5, <1>6, <1>7, <1>8, Pasa

LEMMA EscribePasa ==
  ASSUME Invariante, NEW x \in Tareas, Escribe(x)
  PROVE  Invariante'
  <1>1. /\ TypeOK /\ tarea[x] \in Tarea /\ tarea[x].t <= Limite(tarea[x])
        /\ EnlaceDe(tarea[x]) /\ RecorridoDe(tarea[x])
        /\ alldown > 0 => caidos = Resolvedores
        /\ tls # Nada => tls.resp = {}
        /\ tarea[x].pc = "escribe" /\ Viva(x)
    BY Sabe DEF Escribe, Viva
  <1>2. /\ UNCHANGED <<queue, s_active, alldown, esperan, caidos>> /\ UNCHANGED control
        /\ tls # Nada /\ tls' = [tls EXCEPT !.resp = @ \cup {tarea[x].q}] /\ salida' \in Salida
        /\ Va(x, "lee")
    BY EnSilencio DEF Escribe
  <1>3. /\ tarea' \in [Tareas -> Tarea]
        /\ \A y \in Tareas : y # x => tarea'[y] = tarea[y]
        /\ tarea'[x].pc = "lee" /\ tarea'[x].t = 0
        /\ tarea'[x].q = tarea[x].q /\ tarea'[x].tries = tarea[x].tries
        /\ tarea'[x].idx = tarea[x].idx /\ tarea'[x].reused = tarea[x].reused
        /\ tarea'[x].t <= Limite(tarea'[x])
    BY <1>1, <1>2, EnVa DEF TypeOK
  <1>4. tls' \in Conexion /\ tls'.resp = {tarea[x].q}
    <2>1. tls \in Conexion /\ tls.resp = {} /\ tarea[x].q \in Consultas
      BY <1>1, <1>2 DEF TypeOK, EnlaceDe, Intento
    <2>2. QED
      BY <1>2, <2>1 DEF Conexion
  <1>5. Falta(tarea'[x]) <= Falta(tarea[x])
    BY <1>1, <1>3 DEF Falta, Maximo, Tarea
  <1>6. EnlaceDe(tarea[x])'
    BY <1>1, <1>3, <1>4 DEF EnlaceDe, Intento
  <1>7. RecorridoDe(tarea[x])'
    BY <1>1, <1>2, <1>3 DEF RecorridoDe, Intento
  <1>8. /\ queue' \in Seq(Consultas) /\ Len(queue') <= DOT_QUEUE_DEPTH
        /\ s_active' \in Resolvedores \cup {-1}
        /\ alldown' \in 0 .. DOT_BACKOFF /\ esperan' \subseteq Consultas
        /\ caidos' \subseteq Resolvedores
        /\ alldown' > 0 => caidos' = Resolvedores
    BY <1>1, <1>2 DEF TypeOK
  <1>9. QED
    BY <1>1, <1>2, <1>3, <1>4, <1>5, <1>6, <1>7, <1>8, Pasa

LEMMA LeePasa ==
  ASSUME Invariante, NEW x \in Tareas, LeeSuya(x)
  PROVE  Invariante'
  <1>1. /\ TypeOK /\ tarea[x] \in Tarea /\ EnlaceDe(tarea[x])
        /\ tarea[x].pc = "lee" /\ Viva(x)
    BY Sabe DEF LeeSuya, Viva
  <1>2. /\ UNCHANGED queue /\ UNCHANGED control
        /\ tls # Nada /\ tls' = [tls EXCEPT !.resp = @ \ {tarea[x].q}]
        /\ Responde(tarea[x].q, "respuesta") /\ s_active' = tarea[x].idx /\ alldown' = 0
        /\ caidos' = caidos \ {tarea[x].idx} /\ Bucle(x)
    BY DEF LeeSuya
  <1>3. tls' \in Conexion /\ tls'.resp = {}
    <2>1. tls \in Conexion /\ tls.resp \subseteq {tarea[x].q}
      BY <1>1, <1>2 DEF TypeOK, EnlaceDe
    <2>2. QED
      BY <1>2, <2>1 DEF Conexion
  <1>4. esperan' \subseteq Consultas /\ salida' \in Salida
    BY <1>1, <1>2 DEF Responde, TypeOK, Salida, EnlaceDe, Intento
  <1>5. /\ queue' \in Seq(Consultas) /\ Len(queue') <= DOT_QUEUE_DEPTH
        /\ s_active' \in Resolvedores /\ caidos' \subseteq Resolvedores
        /\ alldown' \in 0 .. DOT_BACKOFF
        /\ alldown' > 0 => caidos' = Resolvedores
    BY <1>1, <1>2 DEF TypeOK, Tarea
  <1>6. QED
    BY <1>1, <1>2, <1>3, <1>4, <1>5, PasaBucle

LEMMA FallaPasa ==
  ASSUME Invariante, NEW x \in Tareas, Falla(x)
  PROVE  Invariante'
  <1>1. /\ TypeOK /\ tarea[x] \in Tarea /\ tarea[x].t <= Limite(tarea[x])
        /\ EnlaceDe(tarea[x]) /\ RecorridoDe(tarea[x])
        /\ alldown > 0 => caidos = Resolvedores
        /\ tarea[x].pc \in Intento /\ Viva(x)
    BY Sabe DEF Falla, Viva, Intento
  <1>2. /\ UNCHANGED <<queue, alldown, esperan>> /\ UNCHANGED control
        /\ tls' = Nada /\ salida' \in Salida
    BY EnSilencio DEF Falla, CierraConexion
  <1>3. /\ tarea[x].tries \in Nat /\ tarea[x].tries < COUNT
        /\ s_active \in Resolvedores /\ tarea[x].idx = s_active
        /\ tarea[x].q \in Consultas
        /\ \A k \in 1 .. tarea[x].tries : Detras(s_active, k) \in caidos
    BY <1>1 DEF EnlaceDe, RecorridoDe, Tarea
  <1>4. CASE tarea[x].reused
    <2> DEFINE r == [tarea[x] EXCEPT !.pc = "conecta", !.reused = FALSE, !.t = 0]
    <2>1. /\ r \in Tarea /\ r.pc = "conecta" /\ ~r.reused /\ r.t = 0 /\ r.q = tarea[x].q
          /\ r.tries = tarea[x].tries /\ r.idx = tarea[x].idx
      BY <1>1 DEF Tarea, EnRed
    <2>2. tarea' = [tarea EXCEPT ![x] = r] /\ UNCHANGED <<s_active, caidos>>
      BY <1>4 DEF Falla
    <2> HIDE DEF r
    <2>3. /\ tarea'[x] = r /\ tarea' \in [Tareas -> Tarea]
          /\ \A y \in Tareas : y # x => tarea'[y] = tarea[y]
      BY <1>1, <2>1, <2>2 DEF TypeOK
    <2>4. r.t <= Limite(r)
      BY <2>1 DEF Limite
    <2>5. Falta(r) <= Falta(tarea[x])
      <3>1. Falta(r) = 1 + LECTURA
        BY <2>1 DEF Falta
      <3>2. tarea[x].pc \in {"escribe", "lee"}
        BY <1>1, <1>4 DEF EnlaceDe, Intento
      <3>3. CASE tarea[x].pc = "escribe"
        <4>1. Falta(tarea[x]) = Maximo
          BY <1>4, <3>3 DEF Falta
        <4>2. QED
          BY <3>1, <4>1 DEF Maximo
      <3>4. CASE tarea[x].pc = "lee"
        <4>1. Falta(tarea[x]) = LECTURA - tarea[x].t + (1 + LECTURA)
          BY <1>4, <3>4 DEF Falta
        <4>2. tarea[x].t <= LECTURA /\ tarea[x].t \in Nat
          BY <1>1, <3>4 DEF Limite, Tarea
        <4>3. QED
          BY <3>1, <4>1, <4>2
      <3>5. QED
        BY <3>2, <3>3, <3>4
    <2>6. EnlaceDe(tarea[x])'
      BY <1>2, <1>3, <2>1, <2>3 DEF EnlaceDe, Intento
    <2>7. RecorridoDe(tarea[x])'
      BY <1>3, <2>1, <2>2, <2>3 DEF RecorridoDe, Intento
    <2>8. /\ queue' \in Seq(Consultas) /\ Len(queue') <= DOT_QUEUE_DEPTH
          /\ s_active' \in Resolvedores \cup {-1}
          /\ alldown' \in 0 .. DOT_BACKOFF /\ esperan' \subseteq Consultas
          /\ caidos' \subseteq Resolvedores
          /\ alldown' > 0 => caidos' = Resolvedores
      BY <1>1, <1>2, <2>2 DEF TypeOK
    <2>9. tarea[x].pc # "avisa"
      BY <1>1 DEF Intento
    <2>10. QED
      BY <1>1, <1>2, <2>1, <2>3, <2>4, <2>5, <2>6, <2>7, <2>8, <2>9, Pasa
  <1>5. CASE ~tarea[x].reused
    <2> DEFINE n == tarea[x].tries
               r == [tarea[x] EXCEPT !.pc = "prueba", !.tries = n + 1, !.t = 0]
    <2>1. n + 1 \in 1 .. COUNT
      BY <1>3
    <2>2. r \in Tarea /\ r.pc = "prueba" /\ r.tries = n + 1 /\ r.t = 0 /\ r.q = tarea[x].q
      <3>1. n + 1 \in 0 .. COUNT
        BY <2>1
      <3>2. QED
        BY <1>1, <3>1 DEF Tarea
    <2>3. /\ tarea' = [tarea EXCEPT ![x] = r]
          /\ s_active' = Proximo(s_active) /\ caidos' = caidos \cup {s_active}
      BY <1>1, <1>3, <1>5 DEF Falla, OtroMas, TypeOK
    <2> HIDE DEF r
    <2>4. /\ tarea'[x] = r /\ tarea' \in [Tareas -> Tarea]
          /\ \A y \in Tareas : y # x => tarea'[y] = tarea[y]
      BY <1>1, <2>2, <2>3 DEF TypeOK
    <2>5. r.t <= Limite(r) /\ Falta(r) = 0
      BY <2>2 DEF Limite, Falta
    <2>6. Falta(r) <= Falta(tarea[x])
      <3>1. Falta(tarea[x]) \in Nat
        BY <1>1, FaltaNat
      <3>2. QED
        BY <2>5, <3>1
    <2>7. EnlaceDe(tarea[x])'
      BY <1>3, <2>2, <2>4 DEF EnlaceDe, Intento
    <2>8. s_active' \in Resolvedores
      BY <1>3, <2>3, Siguiente
    <2>9. \A k \in 1 .. n + 1 : Detras(s_active', k) \in caidos'
      <3> SUFFICES ASSUME NEW k \in 1 .. n + 1
                   PROVE  Detras(s_active', k) \in caidos'
        OBVIOUS
      <3>1. k \in 1 .. COUNT
        BY <1>3
      <3>2. Detras(s_active', k) = IF k = 1 THEN s_active ELSE Detras(s_active, k - 1)
        BY <1>3, <2>3, <3>1, DetrasProximo
      <3>3. k # 1 => k - 1 \in 1 .. n
        BY <1>3
      <3>4. QED
        BY <1>3, <2>3, <3>2, <3>3
    <2>10. RecorridoDe(tarea[x])'
      BY <2>2, <2>4, <2>8, <2>9 DEF RecorridoDe, Intento
    <2>11. /\ queue' \in Seq(Consultas) /\ Len(queue') <= DOT_QUEUE_DEPTH
           /\ alldown' \in 0 .. DOT_BACKOFF /\ esperan' \subseteq Consultas
           /\ caidos' \subseteq Resolvedores
           /\ alldown' > 0 => caidos' = Resolvedores
      BY <1>1, <1>2, <1>3, <2>3 DEF TypeOK
    <2>12. tarea[x].pc # "avisa"
      BY <1>1 DEF Intento
    <2>13. QED
      BY <1>1, <1>2, <2>2, <2>4, <2>5, <2>6, <2>7, <2>8, <2>10, <2>11, <2>12, Pasa
  <1>6. tarea[x].reused \in BOOLEAN
    BY <1>1 DEF Tarea
  <1>7. QED
    BY <1>4, <1>5, <1>6

\* The end of the task.
LEMMA SalePasa ==
  ASSUME Invariante, NEW x \in Tareas, Sale(x)
  PROVE  Invariante'
  <1> DEFINE r == [tarea[x] EXCEPT !.pc = "avisa", !.t = 0]
  <1>1. /\ TypeOK /\ Unicos /\ Papeles /\ Avisos /\ Tiempo /\ tarea[x] \in Tarea
        /\ tarea[x].pc = "sale" /\ s_active \in Resolvedores
        /\ alldown > 0 => caidos = Resolvedores
    BY Sabe DEF Sale, Invariante, RecorridoDe
  <1>2. /\ tarea' = [tarea EXCEPT ![x] = r] /\ tls' = Nada /\ s_running' = FALSE
        /\ salida' \in Salida
        /\ UNCHANGED <<forward, saved, s_stop, done, llam, queue, s_active, alldown, esperan, caidos,
                       solapados>>
    BY EnSilencio DEF Sale, Va
  <1>3. r \in Tarea /\ r.pc = "avisa" /\ r.t = 0
    BY <1>1 DEF Tarea
  <1> HIDE DEF r
  <1>4. /\ tarea'[x] = r /\ tarea' \in [Tareas -> Tarea]
        /\ \A y \in Tareas : y # x => tarea'[y] = tarea[y] /\ tarea[y].pc = "no"
    BY <1>1, <1>2, <1>3 DEF Quieto, TypeOK, Unicos, Viva
  <1>5. r.t <= Limite(r) /\ Falta(r) = 0
    BY <1>3 DEF Limite, Falta
  <1>6. \A y \in Tareas : tarea'[y].t <= Limite(tarea'[y])
    BY <1>1, <1>4, <1>5 DEF TypeOK
  <1>7. TypeOK'
    BY <1>1, <1>2, <1>4, <1>6 DEF TypeOK
  <1>8. Unicos'
    BY <1>1, <1>2, <1>4 DEF Quieto, Unicos, Viva
  <1>9. \E c \in Llamadores : llam[c].pc = "join"
    BY <1>1 DEF Avisos, Viva
  <1>10. Papeles'
    BY <1>1, <1>2, <1>3, <1>4, <1>9 DEF Quieto, Papeles, Viva, Unicos
  <1>11. Avisos'
    BY <1>1, <1>2, <1>3, <1>4, <1>9 DEF Avisos, Viva
  <1>12. Tiempo'
    <2>1. s_stop /\ Falta(tarea[x]) = 0
      BY <1>1 DEF Avisos, Falta
    <2>2. QED
      BY <1>1, <1>2, <1>4, <1>5, <2>1, PasoTiempo DEF Viva
  <1>13. Enlace' /\ Limpia'
    BY <1>2, <1>3, <1>4 DEF Enlace, EnlaceDe, Limpia, Intento
  <1>14. Recorrido'
    BY <1>1, <1>2, <1>3, <1>4 DEF Recorrido, RecorridoDe, Intento
  <1>15. QED
    BY <1>7, <1>8, <1>10, <1>11, <1>12, <1>13, <1>14 DEF Invariante

LEMMA AvisaPasa ==
  ASSUME Invariante, NEW x \in Tareas, Avisa(x)
  PROVE  Invariante'
  <1>1. /\ TypeOK /\ Unicos /\ Papeles /\ Avisos
        /\ tarea[x].pc = "avisa"
        /\ alldown > 0 => caidos = Resolvedores
        /\ tls # Nada => tls.resp = {}
    BY Sabe DEF Avisa, Invariante
  <1>2. /\ tarea' = [tarea EXCEPT ![x] = SinTarea] /\ done' = TRUE /\ salida' \in Salida
        /\ UNCHANGED <<forward, saved, s_running, s_stop, llam, queue, tls, s_active, alldown,
                       esperan, caidos, solapados>>
    BY EnSilencio DEF Avisa
  <1>3. SinTarea \in Tarea /\ SinTarea.pc = "no" /\ SinTarea.t <= Limite(SinTarea)
    <2>1. 0 \in Resolvedores /\ 0 \in 0 .. COUNT /\ 0 \in Nat
      BY DEF Resolvedores
    <2>2. QED
      BY <2>1 DEF SinTarea, Tarea, Limite
  <1>4. tarea' \in [Tareas -> Tarea] /\ \A y \in Tareas : tarea'[y].pc = "no"
    BY <1>1, <1>2, <1>3 DEF Quieto, TypeOK, Unicos, Viva
  <1>5. \A y \in Tareas : tarea'[y].t <= Limite(tarea'[y])
    BY <1>1, <1>2, <1>3 DEF TypeOK
  <1>6. TypeOK'
    BY <1>1, <1>2, <1>4, <1>5 DEF TypeOK
  <1>7. \E c \in Llamadores : llam[c].pc = "join"
    BY <1>1 DEF Avisos, Viva
  <1>8. Unicos' /\ Papeles'
    BY <1>1, <1>2, <1>4, <1>7 DEF Quieto, Unicos, Papeles, Viva
  <1>9. ~s_running
    BY <1>1 DEF Quieto, Avisos, Unicos, Viva
  <1>10. Avisos' /\ Tiempo'
    BY <1>2, <1>4, <1>9 DEF Avisos, Tiempo, Viva
  <1>11. Enlace' /\ Limpia' /\ Recorrido'
    BY <1>1, <1>2, <1>4 DEF Enlace, EnlaceDe, Limpia, Recorrido, RecorridoDe, Intento
  <1>12. QED
    BY <1>6, <1>8, <1>10, <1>11 DEF Invariante

(***************************************************************************)
(* The tcpip thread, the callers and the clock                             *)
(***************************************************************************)
\* The task, its connection and what it has learnt stay as they are.
LEMMA TareaIgual ==
  ASSUME Invariante, UNCHANGED <<tls, s_active, alldown, tarea, caidos>>
  PROVE  /\ Enlace' /\ Limpia' /\ Recorrido'
         /\ \A x \in Tareas : tarea'[x].t <= Limite(tarea'[x])
  BY DEF Invariante, TypeOK, Enlace, EnlaceDe, Limpia, Recorrido, RecorridoDe

LEMMA PreguntaPasa ==
  ASSUME Invariante, NEW q \in Consultas, Pregunta(q)
  PROVE  Invariante'
  <1>1. /\ TypeOK /\ Unicos /\ Papeles /\ Avisos /\ Tiempo
        /\ UNCHANGED <<forward, saved, s_running, s_stop, done, llam, tls, s_active, alldown,
                       tarea, caidos, solapados>>
        /\ queue' = Append(queue, q) /\ Len(queue) < DOT_QUEUE_DEPTH
        /\ esperan' = esperan \cup {q} /\ salida' \in Salida
    BY EnSilencio DEF Pregunta, control, Invariante
  <1>2. /\ Enlace' /\ Limpia' /\ Recorrido'
        /\ \A x \in Tareas : tarea'[x].t <= Limite(tarea'[x])
    BY <1>1, TareaIgual
  <1>3. queue' \in Seq(Consultas) /\ Len(queue') <= DOT_QUEUE_DEPTH
    BY <1>1 DEF TypeOK
  <1>4. TypeOK'
    BY <1>1, <1>2, <1>3 DEF TypeOK
  <1>5. Unicos' /\ Papeles' /\ Avisos' /\ Tiempo'
    BY <1>1 DEF Quieto, Unicos, Papeles, Avisos, Tiempo, Viva
  <1>6. QED
    BY <1>2, <1>4, <1>5 DEF Invariante

\* A caller that has something under way is the only one.
LEMMA LlamadorSolo ==
  ASSUME Unicos, NEW c \in Llamadores, ~Quieto(c)
  PROVE  \A d \in Llamadores : d # c => Quieto(d)
  BY DEF Unicos

LEMMA EnSigue ==
  ASSUME TypeOK, NEW c \in Llamadores, NEW pc \in {"libre", "arranca", "conmuta"}, Sigue(c, pc)
  PROVE  /\ llam' \in [Llamadores -> Llamador] /\ llam'[c].pc = pc
         /\ \A d \in Llamadores : d # c => llam'[d] = llam[d]
  <1>1. 0 \in 0 .. JOIN
    OBVIOUS
  <1>2. QED
    BY <1>1 DEF TypeOK, Sigue, Libre, Llamador

LEMMA PidePasa ==
  ASSUME Invariante, NEW c \in Llamadores, NEW luego \in {"libre", "arranca"}, Pide(c, luego),
         ~solapados'
  PROVE  Invariante'
  <1>1. /\ TypeOK /\ Unicos /\ Papeles /\ Avisos
        /\ UNCHANGED <<s_running, done, queue, tls, s_active, alldown, tarea, esperan, caidos>>
        /\ salida' \in Salida /\ solapados' \in BOOLEAN
    BY EnSilencio DEF Pide, Invariante
  <1>2. /\ Enlace' /\ Limpia' /\ Recorrido'
        /\ \A x \in Tareas : tarea'[x].t <= Limite(tarea'[x])
    BY <1>1, TareaIgual
  <1>3. \A d \in Llamadores : d # c => Quieto(d)
    BY DEF Pide
  <1>4. /\ Quieto(c) /\ llam[c].pc \in {"pide", "libre"}
        /\ IF s_running THEN Para(c, luego)
           ELSE Sigue(c, luego) /\ UNCHANGED <<forward, saved, s_stop>>
    BY DEF Pide, Corriendo, Quieto
  <1>5. CASE s_running /\ Para(c, luego)
    <2>1. /\ forward' = saved /\ saved' = "null" /\ s_stop' = TRUE
          /\ llam' = [llam EXCEPT ![c] = [pc |-> "join", luego |-> luego, t |-> 0]]
      BY <1>5 DEF Para
    <2>2. /\ llam' \in [Llamadores -> Llamador] /\ llam'[c].pc = "join" /\ llam'[c].t = 0
          /\ \A d \in Llamadores : d # c => llam'[d] = llam[d]
      BY <1>1, <2>1 DEF TypeOK, Llamador
    <2>3. forward = "dot" /\ saved = "udp" /\ ~s_stop
      BY <1>1, <1>3, <1>4, <1>5 DEF Quieto, Papeles
    <2>4. TypeOK'
      BY <1>1, <1>2, <2>1, <2>2 DEF TypeOK, Forward
    <2>5. Unicos' /\ Papeles'
      BY <1>1, <1>3, <2>1, <2>2, <2>3 DEF Quieto, Unicos, Papeles, Viva
    <2>6. Avisos'
      BY <1>1, <1>3, <2>1, <2>2, <2>3 DEF Avisos, Viva
    <2>7. Tiempo'
      <3>1. ASSUME NEW d \in Llamadores, NEW x \in Tareas, llam'[d].pc = "join", Viva(x)
            PROVE  llam'[d].t + Falta(tarea[x]) <= Maximo
        <4>1. llam'[d].t = 0
          BY <1>3, <2>2, <3>1 DEF Quieto
        <4>2. tarea[x] \in Tarea /\ tarea[x].t <= Limite(tarea[x])
          BY <1>1 DEF TypeOK
        <4>3. Falta(tarea[x]) \in Nat /\ Falta(tarea[x]) <= Maximo
          BY <4>2, FaltaNat
        <4>4. QED
          BY <4>1, <4>3
      <3>2. QED
        BY <1>1, <3>1 DEF Tiempo, Viva
    <2>8. QED
      BY <1>2, <2>4, <2>5, <2>6, <2>7 DEF Invariante
  <1>6. CASE ~s_running /\ Sigue(c, luego) /\ UNCHANGED <<forward, saved, s_stop>>
    <2>1. /\ llam' \in [Llamadores -> Llamador] /\ llam'[c].pc = luego
          /\ \A d \in Llamadores : d # c => llam'[d] = llam[d]
      BY <1>1, <1>6, EnSigue
    <2>2. forward = "udp"
      BY <1>1, <1>3, <1>4, <1>6 DEF Quieto, Papeles
    <2>3. \A x \in Tareas : ~Viva(x)
      BY <1>1, <1>3, <1>4, <1>6 DEF Avisos, Quieto, Viva
    <2>4. TypeOK'
      BY <1>1, <1>2, <1>6, <2>1 DEF TypeOK
    <2>5. Unicos' /\ Papeles' /\ Avisos' /\ Tiempo'
      BY <1>1, <1>3, <1>6, <2>1, <2>2, <2>3 DEF Quieto, Unicos, Papeles, Avisos, Tiempo, Viva
    <2>6. QED
      BY <1>2, <2>4, <2>5 DEF Invariante
  <1>7. QED
    BY <1>4, <1>5, <1>6

\* The wait is over when the task is: it has not reached JOIN before.
LEMMA JoinPasa ==
  ASSUME Maximo < JOIN, Invariante, NEW c \in Llamadores, Join(c)
  PROVE  Invariante'
  <1>1. /\ TypeOK /\ Unicos /\ Papeles /\ Avisos /\ Tiempo
        /\ llam[c].pc = "join" /\ s_stop /\ forward = "udp"
        /\ done' = FALSE /\ s_active' = -1 /\ Sigue(c, llam[c].luego) /\ salida' \in Salida
        /\ UNCHANGED <<forward, saved, s_running, s_stop, queue, tls, alldown, tarea, esperan, caidos,
                       solapados>>
    BY EnSilencio DEF Quieto, Join, Invariante, Papeles
  <1>2. \A x \in Tareas : ~Viva(x)
    <2>1. CASE done
      BY <1>1, <2>1 DEF Avisos
    <2>2. CASE llam[c].t = JOIN
      <3> SUFFICES ASSUME NEW x \in Tareas, Viva(x)
                   PROVE  FALSE
        OBVIOUS
      <3>1. JOIN + Falta(tarea[x]) <= Maximo
        BY <1>1, <2>2 DEF Tiempo
      <3>2. tarea[x] \in Tarea /\ tarea[x].t <= Limite(tarea[x])
        BY <1>1 DEF TypeOK
      <3>3. Falta(tarea[x]) \in Nat
        BY <3>2, FaltaNat
      <3>4. QED
        BY <3>1, <3>3 DEF Maximo
    <2>3. QED
      BY <2>1, <2>2 DEF Join, TareaSalio
  <1>3. ~s_running
    BY <1>1, <1>2 DEF Avisos
  <1>4. \A d \in Llamadores : d # c => Quieto(d)
    BY <1>1, LlamadorSolo DEF Quieto
  <1>5. llam[c].luego \in {"libre", "arranca"}
    BY <1>1 DEF TypeOK, Llamador
  <1>6. /\ llam' \in [Llamadores -> Llamador] /\ llam'[c].pc = llam[c].luego
        /\ \A d \in Llamadores : d # c => llam'[d] = llam[d]
    <2>1. PICK pc \in {"libre", "arranca"} : pc = llam[c].luego
      BY <1>5
    <2>2. QED
      BY <1>1, <2>1, EnSigue
  <1>7. TypeOK'
    BY <1>1, <1>6 DEF TypeOK
  <1>8. Unicos' /\ Papeles' /\ Avisos' /\ Tiempo'
    BY <1>1, <1>2, <1>3, <1>4, <1>5, <1>6 DEF Quieto, Unicos, Papeles, Avisos, Tiempo, Viva
  <1>9. Enlace' /\ Limpia' /\ Recorrido'
    BY <1>1, <1>2 DEF Invariante, Enlace, EnlaceDe, Limpia, Recorrido, RecorridoDe, Viva,
       Intento
  <1>10. QED
    BY <1>7, <1>8, <1>9 DEF Invariante

LEMMA ArrancaPasa ==
  ASSUME Invariante, NEW c \in Llamadores, Arranca(c)
  PROVE  Invariante'
  <1>1. /\ TypeOK /\ Unicos /\ Papeles /\ Avisos
        /\ llam[c].pc = "arranca" /\ s_active' = 0 /\ alldown' = 0 /\ queue' = <<>>
        /\ esperan' \subseteq esperan
        /\ done' = FALSE /\ s_stop' = FALSE /\ salida' \in Salida
        /\ UNCHANGED <<forward, saved, tls, caidos, solapados>>
    BY EnSilencio DEF Arranca, Invariante
  <1>2. ~s_running /\ forward = "udp" /\ \A x \in Tareas : ~Viva(x)
    BY <1>1 DEF Quieto, Papeles
  <1>3. \A d \in Llamadores : d # c => Quieto(d)
    BY <1>1, LlamadorSolo DEF Quieto
  <1>4. tls # Nada => tls.resp = {}
    BY <1>2 DEF Invariante, Limpia, Viva
  <1>5. 0 \in Resolvedores /\ 0 \in 0 .. COUNT /\ 0 \in Nat /\ 0 \in 0 .. DOT_BACKOFF
    BY DEF Resolvedores
  <1>6. /\ queue' \in Seq(Consultas) /\ Len(queue') <= DOT_QUEUE_DEPTH
        /\ s_active' \in Resolvedores \cup {-1} /\ alldown' \in 0 .. DOT_BACKOFF
        /\ esperan' \subseteq Consultas /\ salida' \in Salida
        /\ s_stop' \in BOOLEAN /\ done' \in BOOLEAN
        /\ forward' \in Forward /\ saved' \in Forward
        /\ tls' \in Conexion \cup {Nada} /\ caidos' \subseteq Resolvedores
    <2>1. queue' \in Seq(Consultas) /\ Len(queue') <= DOT_QUEUE_DEPTH
      <3>1. queue' = <<>> /\ Len(<<>>) = 0 /\ <<>> \in Seq(Consultas)
        BY <1>1
      <3>2. Len(queue') = 0
        BY <3>1
      <3>3. QED
        BY <3>1, <3>2
    <2>2. s_active' \in Resolvedores \cup {-1} /\ alldown' \in 0 .. DOT_BACKOFF
      BY <1>1, <1>5
    <2>3. QED
      BY <1>1, <2>1, <2>2 DEF TypeOK
  <1>7. CASE s_running' = FALSE /\ Sigue(c, "libre") /\ UNCHANGED tarea
    <2>1. /\ llam' \in [Llamadores -> Llamador] /\ llam'[c].pc = "libre"
          /\ \A d \in Llamadores : d # c => llam'[d] = llam[d]
      BY <1>1, <1>7, EnSigue
    <2>2. TypeOK'
      BY <1>1, <1>6, <1>7, <2>1 DEF TypeOK
    <2>3. Unicos' /\ Papeles' /\ Avisos' /\ Tiempo'
      BY <1>1, <1>2, <1>3, <1>7, <2>1 DEF Quieto, Unicos, Papeles, Avisos, Tiempo, Viva
    <2>4. Enlace' /\ Limpia' /\ Recorrido'
      BY <1>1, <1>2, <1>4, <1>7 DEF Enlace, EnlaceDe, Limpia, Recorrido, RecorridoDe,
         Viva, Intento
    <2>5. QED
      BY <2>2, <2>3, <2>4 DEF Invariante
  <1>8. CASE \E x \in Tareas :
               /\ tarea' = [tarea EXCEPT ![x] = [SinTarea EXCEPT !.pc = "precalienta"]]
               /\ s_running' = TRUE
               /\ Sigue(c, "conmuta")
    <2> DEFINE r == [SinTarea EXCEPT !.pc = "precalienta"]
    <2>1. /\ r \in Tarea /\ r.pc = "precalienta" /\ r.tries = 0 /\ r.t = 0
      BY <1>5 DEF SinTarea, Tarea, EnRed
    <2>2. PICK x \in Tareas : tarea' = [tarea EXCEPT ![x] = r]
      BY <1>8
    <2> HIDE DEF r
    <2>3. s_running' = TRUE /\ Sigue(c, "conmuta")
      BY <1>8
    <2>4. /\ llam' \in [Llamadores -> Llamador] /\ llam'[c].pc = "conmuta"
          /\ \A d \in Llamadores : d # c => llam'[d] = llam[d]
      BY <1>1, <2>3, EnSigue
    <2>5. /\ tarea' \in [Tareas -> Tarea] /\ tarea'[x] = r
          /\ \A y \in Tareas : y # x => tarea'[y] = tarea[y] /\ tarea[y].pc = "no"
      BY <1>1, <1>2, <2>1, <2>2 DEF TypeOK, Viva
    <2>6. r.t <= Limite(r)
      BY <2>1 DEF Limite
    <2>7. \A y \in Tareas : tarea'[y].t <= Limite(tarea'[y])
      BY <1>1, <2>5, <2>6 DEF TypeOK
    <2>8. TypeOK'
      BY <1>1, <1>6, <2>3, <2>4, <2>5, <2>7 DEF TypeOK
    <2>9. Unicos' /\ Papeles' /\ Avisos' /\ Tiempo'
      BY <1>1, <1>2, <1>3, <2>1, <2>3, <2>4, <2>5 DEF Quieto, Unicos, Papeles, Avisos, Tiempo, Viva
    <2>10. Enlace' /\ Limpia'
      BY <1>1, <1>4, <2>1, <2>5 DEF Enlace, EnlaceDe, Limpia, Intento
    <2>11. Recorrido'
      <3>1. \A k \in 0 .. r.tries - 1 : FALSE
        BY <2>1
      <3>2. QED
        BY <1>1, <1>5, <2>1, <2>5, <3>1 DEF Recorrido, RecorridoDe, Intento
    <2>12. QED
      BY <2>8, <2>9, <2>10, <2>11 DEF Invariante
  <1>9. QED
    BY <1>7, <1>8 DEF Arranca

LEMMA ConmutaPasa ==
  ASSUME Invariante, NEW c \in Llamadores, Conmuta(c)
  PROVE  Invariante'
  <1>1. /\ TypeOK /\ Unicos /\ Papeles /\ Avisos /\ Tiempo
        /\ llam[c].pc = "conmuta" /\ saved' = forward /\ forward' = "dot" /\ Sigue(c, "libre")
        /\ salida' \in Salida
        /\ UNCHANGED <<s_running, s_stop, done, queue, tls, s_active, alldown, tarea, esperan, caidos,
                       solapados>>
    BY EnSilencio DEF Conmuta, Invariante
  <1>2. /\ Enlace' /\ Limpia' /\ Recorrido'
        /\ \A x \in Tareas : tarea'[x].t <= Limite(tarea'[x])
    BY <1>1, TareaIgual
  <1>3. \A d \in Llamadores : d # c => Quieto(d)
    BY <1>1, LlamadorSolo DEF Quieto
  <1>4. s_running /\ ~s_stop /\ forward = "udp"
    BY <1>1 DEF Quieto, Papeles
  <1>5. /\ llam' \in [Llamadores -> Llamador] /\ llam'[c].pc = "libre"
        /\ \A d \in Llamadores : d # c => llam'[d] = llam[d]
    BY <1>1, EnSigue
  <1>6. TypeOK'
    BY <1>1, <1>2, <1>5 DEF TypeOK, Forward
  <1>7. Unicos' /\ Papeles' /\ Avisos' /\ Tiempo'
    BY <1>1, <1>3, <1>4, <1>5 DEF Quieto, Unicos, Papeles, Avisos, Tiempo, Viva
  <1>8. QED
    BY <1>2, <1>6, <1>7 DEF Invariante

\* Time passes: a caller waits a tick more, and the task has a tick less.
LEMMA TickPasa ==
  ASSUME Invariante, Tick
  PROVE  Invariante'
  <1>1. /\ TypeOK /\ Unicos /\ Papeles /\ Avisos /\ Tiempo /\ Enlace /\ Limpia /\ Recorrido
        /\ UNCHANGED <<forward, saved, s_running, s_stop, done, queue, tls, s_active, esperan, caidos,
                       solapados>>
        /\ salida' \in Salida
        /\ alldown' = IF alldown = 0 THEN 0 ELSE alldown - 1
    BY EnSilencio DEF Tick, Invariante
  <1>2. ASSUME NEW x \in Tareas
        PROVE  /\ tarea[x].pc \notin {"prueba", "sale", "avisa"}
               /\ tarea[x].pc = "espera" => ~s_stop
               /\ tarea[x].pc \in EnRed => tarea[x].t < Limite(tarea[x])
               /\ tarea'[x] = IF tarea[x].pc \in EnRed THEN [tarea[x] EXCEPT !.t = @ + 1]
                              ELSE tarea[x]
    BY DEF Tick
  <1>3. ASSUME NEW x \in Tareas
        PROVE  /\ tarea'[x] \in Tarea
               /\ tarea'[x].pc = tarea[x].pc /\ tarea'[x].q = tarea[x].q
               /\ tarea'[x].idx = tarea[x].idx /\ tarea'[x].tries = tarea[x].tries
               /\ tarea'[x].reused = tarea[x].reused
               /\ tarea'[x].t = IF tarea[x].pc \in EnRed THEN tarea[x].t + 1 ELSE tarea[x].t
    <2>1. tarea[x] \in Tarea
      BY <1>1 DEF TypeOK
    <2>2. tarea[x].t + 1 \in Nat
      BY <2>1 DEF Tarea
    <2>3. CASE tarea[x].pc \in EnRed
      BY <1>2, <2>1, <2>2, <2>3 DEF Tarea
    <2>4. CASE tarea[x].pc \notin EnRed
      BY <1>2, <2>1, <2>4 DEF Tarea
    <2>5. QED
      BY <2>3, <2>4
  <1>4. tarea' \in [Tareas -> Tarea]
    BY <1>3 DEF Tick
  <1>5. ASSUME NEW c \in Llamadores
        PROVE  /\ llam'[c] \in Llamador /\ llam'[c].pc = llam[c].pc
               /\ llam'[c].t = IF llam[c].pc = "join" THEN llam[c].t + 1 ELSE llam[c].t
    <2>1. /\ llam[c] \in Llamador
          /\ llam[c].pc = "join" => llam[c].t < JOIN
          /\ llam'[c] = IF llam[c].pc = "join" THEN [llam[c] EXCEPT !.t = @ + 1] ELSE llam[c]
      BY <1>1 DEF Tick, TypeOK
    <2>2. CASE llam[c].pc = "join"
      <3>1. llam[c].t + 1 \in 0 .. JOIN
        BY <2>1, <2>2 DEF Llamador
      <3>2. QED
        BY <2>1, <2>2, <3>1 DEF Llamador
    <2>3. CASE llam[c].pc # "join"
      BY <2>1, <2>3
    <2>4. QED
      BY <2>2, <2>3
  <1>6. llam' \in [Llamadores -> Llamador]
    BY <1>5 DEF Tick
  <1>7. \A x \in Tareas : tarea'[x].t <= Limite(tarea'[x])
    <2> SUFFICES ASSUME NEW x \in Tareas
                 PROVE  tarea'[x].t <= Limite(tarea'[x])
      OBVIOUS
    <2>1. Limite(tarea'[x]) = Limite(tarea[x])
      BY <1>3 DEF Limite
    <2>2. tarea[x].t \in Nat /\ Limite(tarea[x]) \in Nat /\ tarea[x].t <= Limite(tarea[x])
      BY <1>1 DEF TypeOK, Tarea, Limite
    <2>3. CASE tarea[x].pc \in EnRed
      <3>1. tarea'[x].t = tarea[x].t + 1 /\ tarea[x].t < Limite(tarea[x])
        BY <1>2, <1>3, <2>3
      <3>2. QED
        BY <2>1, <2>2, <3>1
    <2>4. CASE tarea[x].pc \notin EnRed
      <3>1. tarea'[x] = tarea[x]
        BY <1>2, <2>4
      <3>2. QED
        BY <2>2, <3>1
    <2>5. QED
      BY <2>3, <2>4
  <1>8. alldown' \in 0 .. DOT_BACKOFF /\ (alldown' > 0 => alldown > 0) /\ (alldown = 0 => alldown' = 0)
    BY <1>1 DEF TypeOK
  <1>9. TypeOK'
    BY <1>1, <1>4, <1>6, <1>7, <1>8 DEF TypeOK
  <1>10. Unicos' /\ Papeles'
    BY <1>1, <1>3, <1>5 DEF Quieto, Unicos, Papeles, Viva
  <1>11. Avisos'
    BY <1>1, <1>3, <1>5 DEF Avisos, Viva
  <1>12. Tiempo'
    <2>1. ASSUME NEW c \in Llamadores, NEW x \in Tareas, llam'[c].pc = "join", tarea'[x].pc # "no"
          PROVE  llam'[c].t + Falta(tarea'[x]) <= Maximo
      <3>1. llam[c].pc = "join" /\ Viva(x) /\ s_stop
        BY <1>1, <1>3, <1>5, <2>1 DEF Quieto, Papeles, Viva
      <3>2. llam[c].t + Falta(tarea[x]) <= Maximo /\ llam'[c].t = llam[c].t + 1
        BY <1>1, <1>5, <3>1 DEF Tiempo
      <3>3. tarea[x] \in Tarea /\ tarea[x].t <= Limite(tarea[x])
        BY <1>1 DEF TypeOK
      <3>4. tarea[x].pc \in {"precalienta", "conecta", "lee"}
        <4>1. tarea[x].pc \in EnRed
          BY <1>2, <3>1, <3>3 DEF Tarea, Viva
        <4>2. tarea[x].pc # "escribe"
          <5>1. SUFFICES ASSUME tarea[x].pc = "escribe" PROVE FALSE
            OBVIOUS
          <5>2. Limite(tarea[x]) = 0
            BY <5>1 DEF Limite
          <5>3. tarea[x].t \in Nat
            BY <3>3 DEF Tarea
          <5>4. tarea[x].t < Limite(tarea[x])
            BY <1>2, <4>1
          <5>5. QED
            BY <5>2, <5>3, <5>4
        <4>3. QED
          BY <4>1, <4>2 DEF EnRed
      <3>5. tarea'[x].t = tarea[x].t + 1
        BY <1>3, <3>4 DEF EnRed
      <3>6. Falta(tarea'[x]) = Falta(tarea[x]) - 1
        BY <1>3, <3>3, <3>4, <3>5 DEF Falta, Tarea
      <3>7. Falta(tarea[x]) \in Nat
        BY <3>3, FaltaNat
      <3>8. llam[c].t \in Nat
        BY <1>1 DEF TypeOK, Llamador
      <3>9. QED
        BY <3>2, <3>6, <3>7, <3>8 DEF Maximo
    <2>2. QED
      BY <2>1 DEF Tiempo, Viva
  <1>13. Enlace' /\ Limpia'
    BY <1>1, <1>3 DEF Enlace, EnlaceDe, Limpia
  <1>14. Recorrido'
    BY <1>1, <1>3, <1>8 DEF Recorrido, RecorridoDe
  <1>15. QED
    BY <1>9, <1>10, <1>11, <1>12, <1>13, <1>14 DEF Invariante

-----------------------------------------------------------------------------
(***************************************************************************)
(* The theorems                                                            *)
(***************************************************************************)
LEMMA Inicial == Init => Invariante
  <1> SUFFICES ASSUME Init
               PROVE  Invariante
    OBVIOUS
  <1>1. 0 \in Resolvedores /\ 0 \in 0 .. COUNT /\ 0 \in Nat /\ 0 \in 0 .. JOIN
        /\ 0 \in 0 .. DOT_BACKOFF
    BY DEF Resolvedores
  <1>2. SinTarea \in Tarea /\ SinTarea.pc = "no" /\ SinTarea.t <= Limite(SinTarea)
    BY <1>1 DEF SinTarea, Tarea, Limite
  <1>3. \A x \in Tareas : tarea[x] = SinTarea
    BY DEF Init
  <1>4. /\ llam \in [Llamadores -> Llamador]
        /\ \A c \in Llamadores : llam[c].pc = IF c = Arranque THEN "pide" ELSE "libre"
    <2>1. Libre \in Llamador /\ [Libre EXCEPT !.pc = "pide"] \in Llamador
      BY <1>1 DEF Libre, Llamador
    <2>2. Libre.pc = "libre" /\ [Libre EXCEPT !.pc = "pide"].pc = "pide"
      BY DEF Libre
    <2>3. QED
      BY <2>1, <2>2 DEF Init
  <1>5. queue \in Seq(Consultas) /\ Len(queue) <= DOT_QUEUE_DEPTH
    BY DEF Init
  <1>6. TypeOK
    BY <1>1, <1>2, <1>3, <1>4, <1>5, EnSilencio DEF Init, TypeOK, Forward
  <1>7. Unicos /\ Papeles /\ Avisos /\ Tiempo
    BY <1>2, <1>3, <1>4 DEF Quieto, Init, Unicos, Papeles, Avisos, Tiempo, Viva
  <1>8. Enlace /\ Limpia /\ Recorrido
    BY <1>2, <1>3 DEF Init, Enlace, EnlaceDe, Limpia, Recorrido, RecorridoDe, Intento
  <1>9. QED
    BY <1>6, <1>7, <1>8 DEF Invariante

LEMMA Paso ==
  ASSUME Maximo < JOIN, Invariante, [Next]_vars, ~solapados'
  PROVE  Invariante'
  <1>1. CASE \E q \in Consultas : Pregunta(q)
    BY <1>1, PreguntaPasa
  <1>2. CASE \E x \in Tareas : PasoTarea(x)
    <2>1. PICK x \in Tareas : PasoTarea(x)
      BY <1>2
    <2>2. QED
      BY <2>1, PrecalientaPasa, RecibePasa, NadaPasa, PruebaPasa, AgotadaPasa, AbandonaPasa,
         ConectaPasa, EscribePasa, LeePasa, FallaPasa, SalePasa, AvisaPasa DEF PasoTarea
  <1>3. CASE \E c \in Llamadores, luego \in {"libre", "arranca"} : Pide(c, luego)
    BY <1>3, PidePasa
  <1>4. CASE \E c \in Llamadores : PasoLlamador(c)
    <2>1. PICK c \in Llamadores : PasoLlamador(c)
      BY <1>4
    <2>2. QED
      BY <2>1, JoinPasa, ArrancaPasa, ConmutaPasa DEF PasoLlamador
  <1>5. CASE Tick
    BY <1>5, TickPasa
  <1>6. CASE UNCHANGED vars
    <2>1. UNCHANGED <<forward, saved, s_running, s_stop, done, llam, queue, tls, s_active, alldown,
                      tarea, esperan, caidos, solapados, salida>>
      BY <1>6 DEF vars
    <2>2. /\ Enlace' /\ Limpia' /\ Recorrido'
          /\ \A x \in Tareas : tarea'[x].t <= Limite(tarea'[x])
      BY <2>1, TareaIgual
    <2>3. TypeOK'
      BY <2>1, <2>2 DEF Invariante, TypeOK
    <2>4. Unicos' /\ Papeles' /\ Avisos' /\ Tiempo'
      BY <2>1 DEF Quieto, Invariante, Unicos, Papeles, Avisos, Tiempo, Viva
    <2>5. QED
      BY <2>2, <2>3, <2>4 DEF Invariante
  <1>7. QED
    BY <1>1, <1>2, <1>3, <1>4, <1>5, <1>6 DEF Next

\* Callers that have overlapped are not forgotten.
LEMMA Queda ==
  ASSUME [Next]_vars, solapados
  PROVE  solapados'
  <1>1. CASE \E c \in Llamadores, luego \in {"libre", "arranca"} : Pide(c, luego)
    BY <1>1 DEF Pide
  <1>2. CASE ~\E c \in Llamadores, luego \in {"libre", "arranca"} : Pide(c, luego)
    BY <1>2 DEF Next, Pregunta, PasoTarea, Precalienta, Recibe, NadaQueHacer, Prueba, Agotada,
       Abandona, Conecta, Escribe, LeeSuya, Falla, Sale, Avisa, PasoLlamador, Join, Arranca,
       Conmuta, Tick, control, vars
  <1>3. QED
    BY <1>1, <1>2

\* The invariant lasts until two callers overlap.
Hasta == ~solapados => Invariante

LEMMA Inductivo ==
  ASSUME Maximo < JOIN
  PROVE  Spec => []Hasta
  <1>1. Hasta /\ [Next]_vars => Hasta'
    BY Paso, Queda DEF Hasta
  <1>2. Init => Hasta
    BY Inicial DEF Hasta
  <1>3. QED
    BY <1>1, <1>2, PTL DEF Spec

\* No two tasks at a time share s_tls and the queue, whoever starts, reloads and
\* stops DoT one after the other: the wait of net_dot_stop is never over before the
\* task is.
THEOREM UnaSolaTarea ==
  ASSUME Maximo < JOIN
  PROVE  Spec => []UnaTarea
  <1>1. Hasta => UnaTarea
    BY DEF Hasta, Quieto, Invariante, Unicos, UnaTarea, Viva
  <1>2. QED
    BY <1>1, Inductivo, PTL

\* Once start and stop are over, one after the other, the forward of net_dns is
\* DoT's while there is a task and the UDP one when there is none.
THEOREM ForwardEnSuSitio ==
  ASSUME Maximo < JOIN
  PROVE  Spec => []ForwardCoherente
  <1>1. Hasta => ForwardCoherente
    BY DEF Hasta, Invariante, Papeles, ForwardCoherente
  <1>2. QED
    BY <1>1, Inductivo, PTL

\* A query never finds on the kept connection the answer to the one before:
\* whatever leaves an answer under way closes it.
THEOREM SinRestos ==
  ASSUME Maximo < JOIN
  PROVE  Spec => []ConexionLimpia
  <1>1. Hasta => ConexionLimpia
    BY DEF Hasta, Invariante, Limpia, ConexionLimpia
  <1>2. QED
    BY <1>1, Inductivo, PTL

\* Every SERVFAIL of the DoT task, that of the circuit breaker too, comes when
\* the last attempt with every resolver failed: the walk of handle_query from
\* s_active, which moves as it goes, misses none.
THEOREM ServfailFundado ==
  ASSUME Maximo < JOIN
  PROVE  Spec => ServfailJustificado
  <1>1. ASSUME Hasta, [Next]_vars
        PROVE  [salida'.que = "servfail" => solapados \/ caidos' = Resolvedores]_vars
    <2> SUFFICES ASSUME Invariante, Next, salida'.que = "servfail"
                 PROVE  caidos' = Resolvedores
      BY <1>1 DEF Hasta
    <2>1. CASE \E x \in Tareas : Recibe(x)
      BY <2>1 DEF Recibe, Silencio, Invariante, Recorrido, TypeOK
    <2>2. CASE \E x \in Tareas : Agotada(x)
      <3>1. PICK x \in Tareas : Agotada(x)
        BY <2>2
      <3>2. QED
        BY <3>1, AgotadaPasa
    <2>3. CASE \E x \in Tareas : /\ PasoTarea(x)
                                 /\ ~Recibe(x)
                                 /\ ~Agotada(x)
      BY <2>3 DEF PasoTarea, Precalienta, NadaQueHacer, Prueba, Abandona, Conecta, Escribe, LeeSuya,
         Falla, Sale, Avisa, Responde, Silencio
    <2>4. CASE ~\E x \in Tareas : PasoTarea(x)
      BY <2>4 DEF Next, Pregunta, Pide, PasoLlamador, Join, Arranca, Conmuta, Tick, Silencio
    <2>5. QED
      BY <2>1, <2>2, <2>3, <2>4
  <1>2. QED
    BY <1>1, Inductivo, PTL DEF Spec, ServfailJustificado
=============================================================================
