----------------------------- MODULE ListUpdate -----------------------------
(***************************************************************************)
(* The block list in use: who writes it and who reads it.  The tcpip       *)
(* thread searches it for every query (fastpath); the task of listupdate.c *)
(* takes it out of service, rebuilds it from a download and persists it in *)
(* its partition, or restores it from there; the boot loads it.            *)
(*                                                                         *)
(* A search is two steps, so that what another task does in between is     *)
(* seen.  The partition is what can be read of it: the magic number, and   *)
(* the entries up to the first one that isn't whole.  A sector holds SECT  *)
(* entries.                                                                *)
(***************************************************************************)
EXTENDS BlockList, FiniteSets

CONSTANTS Nombres,        \* the names in downloaded lists, inverted
          Consultas,      \* the names asked
          LISTA_PRUEBA,   \* the list for a device without one
          Previa,         \* entries in the partition at the beginning
          INDEX_CAP, SECT,
          MaxLineas,      \* bound: names in a download
          MaxCortes,      \* bound: power cuts
          MaxFallos       \* bound: failures of the flash and of tcpip_callback

Todas == Nombres \cup {LISTA_PRUEBA[i] : i \in DOMAIN LISTA_PRUEBA}
               \cup {Previa[i] : i \in DOMAIN Previa}

\* What the list takes, and what is asked, are normalised names.
ASSUME ListaAssumption ==
  /\ INDEX_CAP \in Nat \ {0} /\ SECT \in Nat \ {0}
  /\ {MaxLineas, MaxCortes, MaxFallos} \subseteq Nat
  /\ LISTA_PRUEBA \in Seq(Todas) /\ Len(LISTA_PRUEBA) \in 1 .. INDEX_CAP
  /\ Previa \in Seq(Todas) /\ Len(Previa) <= INDEX_CAP
  /\ \A n \in Todas \cup Consultas : EsNombre(n)

VARIABLES
  bl,        \* s_bl: its entries in the order of the index, and its state
  puestas,   \* the entries it has taken since it was last emptied
  buscando,  \* the tcpip thread is inside blocklist_contains
  part,      \* the partition
  tarea,     \* where tarea_update, or the boot, is
  lineas,    \* how many names have come in the download
  cortes, fallos

vars == <<bl, puestas, buscando, part, tarea, lineas, cortes, fallos>>

TypeOK ==
  /\ bl.state \in {"EMPTY", "LOADING", "ACTIVE"} /\ Len(bl.idx) <= INDEX_CAP
  /\ puestas \subseteq Todas
  /\ buscando \in BOOLEAN
  /\ part.magia \in BOOLEAN /\ Len(part.entradas) <= INDEX_CAP
  /\ tarea \in {"arranca", "no", "suspende", "vacia", "descarga", "borra", "escribe",
                "recarga", "carga"}
  /\ lineas \in 0 .. MaxLineas /\ cortes \in 0 .. MaxCortes /\ fallos \in 0 .. MaxFallos

Lista(idx, state) == [idx |-> idx, state |-> state]
Particion(magia, entradas) == [magia |-> magia, entradas |-> entradas]
Elementos(s) == {s[i] : i \in DOMAIN s}

\* blocklist_finalize, tabulated for every list there may be.
Indices == UNION {[1 .. n -> Todas] : n \in 0 .. INDEX_CAP}
Tabla == {<<s, blocklist_finalize(s)>> : s \in Indices}
Finalizada(s) == (CHOOSE t \in Tabla : t[1] = s)[2]

Vaciada == bl' = Lista(<<>>, "EMPTY") /\ puestas' = {}

Init ==
  /\ bl = Lista(<<>>, "EMPTY") /\ puestas = {}
  /\ buscando = FALSE
  /\ part = Particion(Previa # <<>>, Previa)
  /\ tarea = "arranca"
  /\ lineas = 0 /\ cortes = 0 /\ fallos = 0

(***************************************************************************)
(* The fast path                                                           *)
(***************************************************************************)
\* A list that isn't active, or is empty, answers at once.
EmpiezaBusqueda ==
  /\ ~buscando /\ bl.state = "ACTIVE" /\ bl.idx # <<>>
  /\ buscando' = TRUE
  /\ UNCHANGED <<bl, puestas, part, tarea, lineas, cortes, fallos>>

AcabaBusqueda ==
  /\ buscando
  /\ buscando' = FALSE
  /\ UNCHANGED <<bl, puestas, part, tarea, lineas, cortes, fallos>>

(***************************************************************************)
(* Loading from the partition                                              *)
(***************************************************************************)

\* blocklist_load_from_partition, after a reset.  Without the magic number it
\* leaves the list as it is.
blocklist_load ==
  IF part.magia
  THEN bl' = Lista(Finalizada(part.entradas), "ACTIVE") /\ puestas' = Elementos(part.entradas)
  ELSE UNCHANGED <<bl, puestas>>

HayLista == part.magia /\ part.entradas # <<>>

\* carga_lista, at the boot, with the listener already up.
carga_lista ==
  /\ tarea = "arranca"
  /\ IF HayLista THEN blocklist_load
     ELSE /\ bl' = Lista(Finalizada(LISTA_PRUEBA), "ACTIVE")
          /\ puestas' = Elementos(LISTA_PRUEBA)
  /\ tarea' = "no"
  /\ UNCHANGED <<buscando, part, lineas, cortes, fallos>>

(***************************************************************************)
(* tarea_update                                                            *)
(***************************************************************************)
Pasa(a, b) == tarea = a /\ tarea' = b
Fallo == fallos < MaxFallos /\ fallos' = fallos + 1

\* POST /api/blocklist/update: one at a time
listupdate_trigger ==
  /\ Pasa("no", "suspende")
  /\ UNCHANGED <<bl, puestas, buscando, part, lineas, cortes, fallos>>

EnCualquierMomento == TRUE

\* The tcpip thread suspends the list when it is done with the query in hand.
TurnoDeTcpip == ~buscando

net_dns_blocklist_suspend ==
  /\ Pasa("suspende", "vacia") /\ TurnoDeTcpip
  /\ bl' = [bl EXCEPT !.state = "EMPTY"]
  /\ UNCHANGED <<puestas, buscando, part, lineas, cortes, fallos>>

\* tcpip_callback fails: the task suspends it by itself.
SuspendeSinTurno ==
  /\ Pasa("suspende", "vacia") /\ Fallo
  /\ bl' = [bl EXCEPT !.state = "EMPTY"]
  /\ UNCHANGED <<puestas, buscando, part, lineas, cortes>>

blocklist_reset ==
  /\ Pasa("vacia", "descarga")
  /\ Vaciada /\ lineas' = 0
  /\ UNCHANGED <<buscando, part, cortes, fallos>>

Cabe == Len(bl.idx) < INDEX_CAP

\* procesa_linea, of a line with a name
blocklist_add(n) ==
  /\ tarea = "descarga" /\ lineas < MaxLineas
  /\ lineas' = lineas + 1
  /\ IF Cabe THEN bl' = Lista(Append(bl.idx, n), "LOADING") /\ puestas' = puestas \cup {n}
     ELSE bl' = [bl EXCEPT !.state = "LOADING"] /\ UNCHANGED puestas
  /\ UNCHANGED <<buscando, part, tarea, cortes, fallos>>

\* The download is complete: the new list enters service before it is persisted.
Activa ==
  /\ Pasa("descarga", "borra")
  /\ bl' = Lista(Finalizada(bl.idx), "ACTIVE")
  /\ lineas' = 0
  /\ UNCHANGED <<puestas, buscando, part, cortes, fallos>>

SinRestaurar == "no"

\* After any error the list of the partition is put back.
TrasError == "recarga"

DescargaFalla ==
  /\ Pasa("descarga", TrasError)
  /\ lineas' = 0
  /\ UNCHANGED <<bl, puestas, buscando, part, cortes, fallos>>

\* blocklist_save_to_partition: erase, then sector by sector.
Borra ==
  /\ Pasa("borra", "escribe")
  /\ part' = Particion(FALSE, <<>>)
  /\ UNCHANGED <<bl, puestas, buscando, lineas, cortes, fallos>>

BorraFalla ==
  /\ Pasa("borra", TrasError) /\ Fallo
  /\ part' \in {part, Particion(FALSE, <<>>)}
  /\ UNCHANGED <<bl, puestas, buscando, lineas, cortes>>

Escritas(n) == SubSeq(bl.idx, 1, IF n < Len(bl.idx) THEN n ELSE Len(bl.idx))

SoloSectoresLlenos(n) == n + SECT > Len(bl.idx)

EsTodo(n) == n >= Len(bl.idx)

EscribeSector ==
  /\ tarea = "escribe"
  /\ LET n == Len(part.entradas) + SECT IN
       /\ part' = Particion(TRUE, Escritas(n))
       /\ tarea' = IF EsTodo(n) THEN "no" ELSE "escribe"
  /\ UNCHANGED <<bl, puestas, buscando, lineas, cortes, fallos>>

\* A sector written in part: the header first, if it is the first one.
Rotas == {part} \cup {Particion(TRUE, Escritas(Len(part.entradas) + k)) : k \in 0 .. SECT - 1}

EscribeFalla ==
  /\ Pasa("escribe", TrasError) /\ Fallo
  /\ part' \in Rotas
  /\ UNCHANGED <<bl, puestas, buscando, lineas, cortes>>

\* blocklist_reload_from_partition: reset, then load.
Recarga ==
  /\ Pasa("recarga", "carga")
  /\ Vaciada
  /\ UNCHANGED <<buscando, part, lineas, cortes, fallos>>

Restaura ==
  /\ Pasa("carga", "no")
  /\ blocklist_load
  /\ UNCHANGED <<buscando, part, lineas, cortes, fallos>>

\* The power fails, perhaps in the middle of an erase or a write.
Corte ==
  /\ cortes < MaxCortes
  /\ cortes' = cortes + 1
  /\ part' \in CASE tarea = "escribe" -> Rotas
                 [] tarea = "borra" -> {part, Particion(FALSE, <<>>)}
                 [] OTHER -> {part}
  /\ Vaciada /\ buscando' = FALSE /\ tarea' = "arranca" /\ lineas' = 0
  /\ UNCHANGED fallos

Tarea ==
  \/ carga_lista \/ net_dns_blocklist_suspend \/ blocklist_reset \/ Activa
  \/ Borra \/ EscribeSector \/ Recarga \/ Restaura

Next ==
  \/ EmpiezaBusqueda \/ AcabaBusqueda
  \/ Tarea \/ listupdate_trigger \/ SuspendeSinTurno \/ DescargaFalla
  \/ \E n \in Nombres : blocklist_add(n)
  \/ BorraFalla \/ EscribeFalla \/ Corte

Spec == Init /\ [][Next]_vars

\* Tasks run, a search ends, and so does a download: it has a limit of bytes and
\* a time for each read.
FairSpec ==
  /\ Spec
  /\ WF_vars(Tarea \/ DescargaFalla) /\ WF_vars(AcabaBusqueda)
  /\ SF_vars(net_dns_blocklist_suspend)

(***************************************************************************)
(* Properties                                                              *)
(***************************************************************************)

\* The search over the finalized index, with its jumps from a predecessor to a
\* shorter prefix, finds exactly the names of which some entry, of those the
\* list has taken in whatever order and however often, is the name or a parent.
BusquedaCorrecta ==
  bl.state = "ACTIVE" =>
    \A q \in Consultas :
      blocklist_contains(bl.idx, q) <=> \E e \in puestas : domain_suffix_match(e, q)

\* As long as nothing fails, nobody writes the entries that a search under way
\* is walking: the suspension waits for the tcpip thread, and later searches
\* find a list that isn't active.
SinCarrera ==
  [][buscando /\ buscando' /\ fallos' = 0 => bl'.idx = bl.idx]_vars

\* With no update under way a restart changes nothing of what is blocked,
\* whatever failed or was cut in the updates before.  (An empty list that was
\* persisted becomes the test list.)
ReinicioNoCambia ==
  /\ TypeOK
  /\ tarea = "no" /\ bl.state = "ACTIVE" /\ bl.idx # <<>> =>
       bl.idx = Finalizada(IF HayLista THEN part.entradas ELSE LISTA_PRUEBA)

\* With a list in the partition, the blocking that an update or a start takes
\* out of service comes back, whatever the download's end, but for a failure.
BloqueoVuelve ==
  (HayLista /\ bl.state # "ACTIVE") ~> (bl.state = "ACTIVE" \/ fallos > 0)
=============================================================================
