------------------------------- MODULE NetDot -------------------------------
(***************************************************************************)
(* DNS over TLS (net_dot.c).  Three parties share the state of the module: *)
(*   the tcpip thread, which queues a query with dot_submit (Pregunta);    *)
(*   the DoT task, which takes queries from the queue and does the TLS     *)
(*   exchange with one resolver after another, blocking;                   *)
(*   the callers of net_dot_start and net_dot_stop, which switch the       *)
(*   forward of net_dns, stop the task, wait for it and make a new one.    *)
(* Each step below ends at the next point where another party's step could *)
(* matter: a blocking call, or the instant before a shared variable is     *)
(* written.                                                                *)
(*                                                                         *)
(* One tick of the clock is DOT_IO_TMO_MS = DOT_CONNECT_TMO_MS = 2.5 s.    *)
(***************************************************************************)
EXTENDS Integers, Sequences, FiniteSets

CONSTANTS Consultas,        \* queries
          Llamadores,       \* tasks that call net_dot_start or net_dot_stop
          Arranque,         \* the one of them that calls once, at boot (app_main)
          Tareas,           \* instances of dot_task
          COUNT,            \* s_count: resolvers
          DOT_QUEUE_DEPTH,
          DOT_BACKOFF,      \* ticks
          JOIN,             \* ticks net_dot_stop waits for the task (15 s)
          LECTURA,          \* bound: ticks a resolver keeps the bytes of an answer coming
          Crudas,           \* queries that net_dns left whole: UNSUPPORTED, question_end = 0
          Nada              \* no connection, no query

\* Besides app_main only the task of the HTTP server calls, and it is one.
ASSUME NetDotAssumption ==
  /\ Arranque \in Llamadores
  /\ \A c, d \in Llamadores \ {Arranque} : c = d
  /\ COUNT \in Nat \ {0}
  /\ DOT_QUEUE_DEPTH \in Nat \ {0}
  /\ DOT_BACKOFF \in Nat
  /\ JOIN \in Nat
  /\ LECTURA \in Nat
  /\ Crudas \subseteq Consultas
  /\ Nada \notin Consultas

VARIABLES
  forward, saved,           \* the forward of net_dns, s_saved_forward
  s_running, s_stop, done,  \* done: s_done has been given
  queue,
  tls,                      \* s_tls with s_conn_idx
  s_active,
  alldown,                  \* ticks until s_alldown_until
  tarea,                    \* where each task is, with its locals
  llam,                     \* where each caller is
  esperan,                  \* queries whose client DoT owes an answer
  caidos,                   \* resolvers whose last attempt failed
  solapados,                \* two callers have been inside start or stop at once
  salida                    \* whose query the last step was done with, and what it sent

vars == <<forward, saved, s_running, s_stop, done, queue, tls, s_active, alldown,
          tarea, llam, esperan, caidos, solapados, salida>>

control == <<forward, saved, s_running, s_stop, done, llam, solapados>>

Resolvedores == 0 .. COUNT - 1

Forward == {"udp", "dot", "null"}

\* A connection, and the answers that may still come on it.
Conexion == [idx : Resolvedores, resp : SUBSET Consultas]

\* The connection is being made at the start, or for a query; the query is
\* being written; its answer is being read (the length, then the message).
EnRed == {"precalienta", "conecta", "escribe", "lee"}

\* t: ticks in the blocking call; idx, tries, reused: as in the code
Tarea == [pc : {"no", "espera", "prueba", "sale", "avisa"} \cup EnRed,
          q : Consultas \cup {Nada}, idx : Resolvedores, tries : 0 .. COUNT,
          reused : BOOLEAN, t : Nat]

SinTarea == [pc |-> "no", q |-> Nada, idx |-> 0, tries |-> 0, reused |-> FALSE, t |-> 0]

\* A query of 512 bytes fits in the send buffer, so writing it doesn't wait.
\* The deadline of read_exact is looked at only when no byte came, so it is
\* the resolver that bounds a read: 2 ticks when its bytes come all at once.
Limite(x) == CASE x.pc = "escribe" -> 0
               [] x.pc = "lee"     -> LECTURA
               [] OTHER            -> 1

Llamador == [pc : {"libre", "pide", "arranca", "conmuta", "join"},
             luego : {"libre", "arranca"}, t : 0 .. JOIN]

Salida == [a : Consultas \cup {Nada}, que : {"nada", "respuesta", "servfail"}]

Silencio == [a |-> Nada, que |-> "nada"]

TypeOK ==
  /\ forward \in Forward /\ saved \in Forward
  /\ s_running \in BOOLEAN /\ s_stop \in BOOLEAN /\ done \in BOOLEAN
  /\ queue \in Seq(Consultas) /\ Len(queue) <= DOT_QUEUE_DEPTH
  /\ tls \in Conexion \cup {Nada}
  /\ s_active \in Resolvedores \cup {-1}
  /\ alldown \in 0 .. DOT_BACKOFF
  /\ tarea \in [Tareas -> Tarea]
  /\ \A x \in Tareas : tarea[x].t <= Limite(tarea[x])
  /\ llam \in [Llamadores -> Llamador]
  /\ esperan \subseteq Consultas
  /\ caidos \subseteq Resolvedores
  /\ solapados \in BOOLEAN
  /\ salida \in Salida

Libre == [pc |-> "libre", luego |-> "libre", t |-> 0]

Init ==
  /\ forward = "udp" /\ saved = "null"
  /\ s_running = FALSE /\ s_stop = FALSE /\ done = FALSE
  /\ queue = <<>>
  /\ tls = Nada
  /\ s_active = -1
  /\ alldown = 0
  /\ tarea = [x \in Tareas |-> SinTarea]
  /\ llam = [c \in Llamadores |-> IF c = Arranque THEN [Libre EXCEPT !.pc = "pide"] ELSE Libre]
  /\ esperan = {}
  /\ caidos = {}
  /\ solapados = FALSE
  /\ salida = Silencio

(***************************************************************************)
(* The tcpip thread                                                        *)
(***************************************************************************)

\* A query that DoT doesn't already have gets to the forward.  With the queue
\* full it is dropped; without a forward net_dns itself says SERVFAIL.
Pregunta(q) ==
  /\ q \notin esperan
  /\ forward = "dot"
  /\ Len(queue) < DOT_QUEUE_DEPTH
  /\ queue' = Append(queue, q)
  /\ esperan' = esperan \cup {q}
  /\ salida' = Silencio
  /\ UNCHANGED <<control, tls, s_active, alldown, tarea, caidos>>

(***************************************************************************)
(* The DoT task: its moves                                                 *)
(***************************************************************************)
Va(x, pc) == tarea' = [tarea EXCEPT ![x].pc = pc, ![x].t = 0]

\* The head of the task's loop.
Bucle(x) ==
  tarea' = [tarea EXCEPT ![x] = [SinTarea EXCEPT !.pc = IF s_stop THEN "sale" ELSE "espera"]]

\* The task is done with the query.
Responde(q, que) == esperan' = esperan \ {q} /\ salida' = [a |-> q, que |-> que]

\* Of a query left whole no answer can be built, and its client hears nothing.
send_servfail(q) == Responde(q, IF q \in Crudas THEN "nada" ELSE "servfail")

\* The task begins, or goes on to the next resolver, with the prewarming.
Precalienta(x) ==
  /\ tarea[x].pc = "precalienta"
  /\ LET n == tarea[x].tries
         idx == (s_active + n) % COUNT
     IN  \/ /\ s_stop
            /\ Bucle(x)
            /\ UNCHANGED <<tls, s_active, alldown, caidos>>
         \/ \* it connects
            /\ ~s_stop
            /\ tls' = [idx |-> idx, resp |-> {}]
            /\ s_active' = idx
            /\ caidos' = caidos \ {idx}
            /\ Bucle(x)
            /\ UNCHANGED alldown
         \/ \* it doesn't
            /\ ~s_stop
            /\ tls' = Nada
            /\ caidos' = caidos \cup {idx}
            /\ IF n + 1 < COUNT
                 THEN /\ tarea' = [tarea EXCEPT ![x].tries = n + 1, ![x].t = 0]
                      /\ UNCHANGED alldown
                 ELSE Bucle(x) /\ alldown' = DOT_BACKOFF
            /\ UNCHANGED s_active
  /\ salida' = Silencio
  /\ UNCHANGED <<control, queue, esperan>>

\* xQueueReceive returns a query, or nothing.
Recibe(x) ==
  /\ tarea[x].pc = "espera"
  /\ queue # <<>>
  /\ queue' = Tail(queue)
  /\ IF alldown > 0
       THEN send_servfail(Head(queue)) /\ Bucle(x)
       ELSE /\ tarea' = [tarea EXCEPT ![x].pc = "prueba", ![x].q = Head(queue)]
            /\ salida' = Silencio
            /\ UNCHANGED esperan
  /\ UNCHANGED <<control, tls, s_active, alldown, caidos>>

NadaQueHacer(x) ==
  /\ tarea[x].pc = "espera"
  /\ queue = <<>>
  /\ s_stop
  /\ Bucle(x)
  /\ salida' = Silencio
  /\ UNCHANGED <<control, queue, tls, s_active, alldown, esperan, caidos>>

\* Mutant of CierraConexion: the failed connection is kept.
ConservaConexion == UNCHANGED tls

CierraConexion == tls' = Nada

\* handle_query: the next resolver, over the connection there is or a new one.
Prueba(x) ==
  /\ tarea[x].pc = "prueba"
  /\ tarea[x].tries < COUNT
  /\ ~s_stop
  /\ LET idx == IF s_active >= 0 THEN s_active ELSE 0
         reused == tls # Nada /\ tls.idx = idx
     IN  /\ tarea' = [tarea EXCEPT ![x].idx = idx, ![x].reused = reused, ![x].t = 0,
                                   ![x].pc = IF reused THEN "escribe" ELSE "conecta"]
         /\ IF reused THEN UNCHANGED tls ELSE tls' = Nada
  /\ salida' = Silencio
  /\ UNCHANGED <<control, queue, s_active, alldown, esperan, caidos>>

\* No resolver answered: SERVFAIL, and for a while to every query.
Agotada(x) ==
  /\ tarea[x].pc = "prueba"
  /\ tarea[x].tries = COUNT
  /\ ~s_stop
  /\ send_servfail(tarea[x].q)
  /\ alldown' = DOT_BACKOFF
  /\ Bucle(x)
  /\ UNCHANGED <<control, queue, tls, s_active, caidos>>

\* The task is being stopped: the query gets no answer.
Abandona(x) ==
  /\ tarea[x].pc = "prueba"
  /\ s_stop
  /\ Responde(tarea[x].q, "nada")
  /\ Bucle(x)
  /\ UNCHANGED <<control, queue, tls, s_active, alldown, caidos>>

Conecta(x) ==
  /\ tarea[x].pc = "conecta"
  /\ tls' = [idx |-> tarea[x].idx, resp |-> {}]
  /\ Va(x, "escribe")
  /\ salida' = Silencio
  /\ UNCHANGED <<control, queue, s_active, alldown, esperan, caidos>>

Escribe(x) ==
  /\ tarea[x].pc = "escribe"
  /\ tls # Nada
  /\ tls' = [tls EXCEPT !.resp = @ \cup {tarea[x].q}]
  /\ Va(x, "lee")
  /\ salida' = Silencio
  /\ UNCHANGED <<control, queue, s_active, alldown, esperan, caidos>>

\* The answer read is the one to this query: dot_response_ok.
LeeSuya(x) ==
  /\ tarea[x].pc = "lee"
  /\ tls # Nada
  /\ tarea[x].q \in tls.resp
  /\ tls' = [tls EXCEPT !.resp = @ \ {tarea[x].q}]
  /\ Responde(tarea[x].q, "respuesta")
  /\ s_active' = tarea[x].idx
  /\ alldown' = 0
  /\ caidos' = caidos \ {tarea[x].idx}
  /\ Bucle(x)
  /\ UNCHANGED <<control, queue>>

\* Mutant of Proximo: the next attempt goes to the same resolver.
Mismo(idx) == idx

Proximo(idx) == (idx + 1) % COUNT

\* Mutant of OtroMas: a failed attempt isn't counted.
SinContar(n) == n

OtroMas(n) == n + 1

\* An attempt fails: the handshake, the write, the read, or the answer is an
\* old one or not an answer.  If it was over a connection that was already
\* there, another is made to the same resolver; if not, the next one is tried.
Falla(x) ==
  /\ tarea[x].pc \in {"conecta", "escribe", "lee"}
  /\ IF tarea[x].reused
       THEN /\ tls' = Nada
            /\ tarea' = [tarea EXCEPT ![x].pc = "conecta", ![x].reused = FALSE, ![x].t = 0]
            /\ UNCHANGED <<s_active, caidos>>
       ELSE /\ CierraConexion
            /\ s_active' = Proximo(tarea[x].idx)
            /\ caidos' = caidos \cup {tarea[x].idx}
            /\ tarea' = [tarea EXCEPT ![x].pc = "prueba", ![x].tries = OtroMas(@), ![x].t = 0]
  /\ salida' = Silencio
  /\ UNCHANGED <<control, queue, alldown, esperan>>

\* The end of dot_task: the connection and s_running, and then the semaphore.
Sale(x) ==
  /\ tarea[x].pc = "sale"
  /\ tls' = Nada
  /\ s_running' = FALSE
  /\ Va(x, "avisa")
  /\ salida' = Silencio
  /\ UNCHANGED <<forward, saved, s_stop, done, llam, queue, s_active, alldown, esperan, caidos,
                 solapados>>

Avisa(x) ==
  /\ tarea[x].pc = "avisa"
  /\ done' = TRUE
  /\ tarea' = [tarea EXCEPT ![x] = SinTarea]
  /\ salida' = Silencio
  /\ UNCHANGED <<forward, saved, s_running, s_stop, llam, queue, tls, s_active, alldown,
                 esperan, caidos, solapados>>

(***************************************************************************)
(* net_dot_stop and net_dot_start                                          *)
(***************************************************************************)
Sigue(c, pc) == llam' = [llam EXCEPT ![c] = [Libre EXCEPT !.pc = pc]]

\* Mutant of Corriendo: stop doesn't look whether the task is running.
CorriendoSiempre == TRUE

Corriendo == s_running

\* stop, up to its wait; then the caller goes on with `luego`.
Para(c, luego) ==
  /\ forward' = saved
  /\ saved' = "null"
  /\ s_stop' = TRUE
  /\ llam' = [llam EXCEPT ![c] = [pc |-> "join", luego |-> luego, t |-> 0]]

\* The caller has nothing under way; at boot it has yet to call.
Quieto(c) == llam[c].pc \in {"libre", "pide"}

\* The start at boot, or the web's PUT, which may come before it: DoT is to be on
\* (a running one starts again) or off.  Nothing keeps one from looking at
\* s_running while the other is on its way.
Pide(c, luego) ==
  /\ \/ llam[c].pc = "pide"
     \/ llam[c].pc = "libre" /\ c # Arranque
  /\ solapados' = (solapados \/ \E d \in Llamadores : d # c /\ ~Quieto(d))
  /\ IF Corriendo THEN Para(c, luego) ELSE Sigue(c, luego) /\ UNCHANGED <<forward, saved, s_stop>>
  /\ salida' = Silencio
  /\ UNCHANGED <<s_running, done, queue, tls, s_active, alldown, tarea, esperan, caidos>>

\* Mutant of TareaSalio: stop doesn't wait for the task.
NoEspera == TRUE

TareaSalio == done

Join(c) ==
  /\ llam[c].pc = "join"
  /\ \/ TareaSalio
     \/ llam[c].t = JOIN
  /\ done' = FALSE
  /\ s_active' = -1
  /\ Sigue(c, llam[c].luego)
  /\ salida' = Silencio
  /\ UNCHANGED <<forward, saved, s_running, s_stop, queue, tls, alldown, tarea, esperan, caidos,
                 solapados>>

\* start empties the queue and makes a task, or can't.
Arranca(c) ==
  /\ llam[c].pc = "arranca"
  /\ s_active' = 0
  /\ alldown' = 0
  /\ queue' = <<>>
  /\ esperan' = esperan \ {queue[i] : i \in DOMAIN queue}
  /\ done' = FALSE
  /\ s_stop' = FALSE
  /\ \/ \E x \in Tareas :
          /\ tarea[x].pc = "no"
          /\ tarea' = [tarea EXCEPT ![x] = [SinTarea EXCEPT !.pc = "precalienta"]]
          /\ s_running' = TRUE
          /\ Sigue(c, "conmuta")
     \/ s_running' = FALSE /\ Sigue(c, "libre") /\ UNCHANGED tarea
  /\ salida' = Silencio
  /\ UNCHANGED <<forward, saved, tls, caidos, solapados>>

Conmuta(c) ==
  /\ llam[c].pc = "conmuta"
  /\ saved' = forward
  /\ forward' = "dot"
  /\ Sigue(c, "libre")
  /\ salida' = Silencio
  /\ UNCHANGED <<s_running, s_stop, done, queue, tls, s_active, alldown, tarea, esperan, caidos,
                 solapados>>

(***************************************************************************)
(* Time passes while nobody has anything to do at once, and every blocking *)
(* call is within its limit.                                               *)
(***************************************************************************)
Tick ==
  /\ \A x \in Tareas :
       /\ tarea[x].pc \notin {"prueba", "sale", "avisa"}
       /\ tarea[x].pc = "espera" => queue = <<>> /\ ~s_stop
       /\ tarea[x].pc \in EnRed => tarea[x].t < Limite(tarea[x])
  /\ \A c \in Llamadores : llam[c].pc = "join" => llam[c].t < JOIN
  /\ tarea' = [x \in Tareas |->
       IF tarea[x].pc \in EnRed THEN [tarea[x] EXCEPT !.t = @ + 1] ELSE tarea[x]]
  /\ llam' = [c \in Llamadores |->
       IF llam[c].pc = "join" THEN [llam[c] EXCEPT !.t = @ + 1] ELSE llam[c]]
  /\ alldown' = IF alldown = 0 THEN 0 ELSE alldown - 1
  /\ salida' = Silencio
  /\ UNCHANGED <<forward, saved, s_running, s_stop, done, queue, tls, s_active, esperan, caidos,
                 solapados>>

PasoTarea(x) ==
  \/ Precalienta(x)
  \/ Recibe(x)
  \/ NadaQueHacer(x)
  \/ Prueba(x)
  \/ Agotada(x)
  \/ Abandona(x)
  \/ Conecta(x)
  \/ Escribe(x)
  \/ LeeSuya(x)
  \/ Falla(x)
  \/ Sale(x)
  \/ Avisa(x)

PasoLlamador(c) == Join(c) \/ Arranca(c) \/ Conmuta(c)

Next ==
  \/ \E q \in Consultas : Pregunta(q)
  \/ \E x \in Tareas : PasoTarea(x)
  \/ \E c \in Llamadores, luego \in {"libre", "arranca"} : Pide(c, luego)
  \/ \E c \in Llamadores : PasoLlamador(c)
  \/ Tick

Spec == Init /\ [][Next]_vars

\* Every task of the firmware gets to run: its blocking calls end.  Nothing
\* makes a client ask, or a resolver answer.
FairSpec ==
  /\ Spec
  /\ WF_vars(Tick)
  /\ \A x \in Tareas : WF_vars(PasoTarea(x))
  /\ \A c \in Llamadores : WF_vars(PasoLlamador(c))

-----------------------------------------------------------------------------
(***************************************************************************)
(* Properties.  net_dot_start looks at s_running long before it sets it    *)
(* (net_dot.c:380, 417), so two callers at once may make two tasks, or     *)
(* restore a forward twice.  Two tasks may then be inside the calls of the *)
(* connection they share, which is finer than the steps above: what is     *)
(* said here is said until two callers have overlapped.                    *)
(***************************************************************************)

\* There is one DoT task at most (net_dot.c:443-445), whoever starts, reloads or
\* stops DoT one after the other: two would write and read the same connection
\* and split the queue.
UnaTarea ==
  ~solapados =>
    /\ TypeOK
    /\ \A x, y \in Tareas : tarea[x].pc # "no" /\ tarea[y].pc # "no" => x = y

\* Whatever starts, reloads and stops went before, in any order of boot and web but
\* never two at once, when they are over the forward is DoT's with the UDP one
\* saved while the task runs, and UDP's when there is none.
ForwardCoherente ==
  ~solapados /\ (\A c \in Llamadores : Quieto(c)) =>
    IF s_running THEN forward = "dot" /\ saved = "udp" ELSE forward = "udp"

\* A connection that is kept between two queries has no answer under way: the
\* next query would read the answer to the one before.
ConexionLimpia ==
  ~solapados /\ (\A x \in Tareas : tarea[x].pc # "lee") /\ tls # Nada => tls.resp = {}

\* SERVFAIL means that the last attempt with every resolver failed, also when it
\* is the circuit breaker (s_alldown_until) that sends it, after the loop of
\* another query or the prewarming armed it.
ServfailJustificado ==
  [][salida'.que = "servfail" => solapados \/ caidos' = Resolvedores]_vars

\* The client of a query in the queue is sent something, SERVFAIL at least, unless
\* DoT is being stopped.  It says nothing of the queries left whole: with every
\* resolver failed those are dropped in silence (send_servfail).
ConsultaAtendida ==
  \A q \in Consultas \ Crudas :
    q \in esperan ~> \/ salida.a = q /\ salida.que # "nada"
                     \/ s_stop
                     \/ solapados
=============================================================================
