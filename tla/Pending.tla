------------------------------ MODULE Pending -------------------------------
(***************************************************************************)
(* The table of pending queries (pending.c): one entry for each query in   *)
(* flight towards an upstream, with the clients that wait for its answer.  *)
(* A table is a function from slots to entries, or to Libre where en_uso   *)
(* is false (no field of a free slot is ever read).                        *)
(*                                                                         *)
(* A waiter (pending_waiter_t) is one request of a client, a member of     *)
(* Reqs; a client that repeats its question makes another one.  The order  *)
(* of an entry's waiters only decides the order of the answers, so they    *)
(* are a set.                                                              *)
(***************************************************************************)
EXTENDS Reloj, Barrido, FiniteSets

CONSTANTS Reqs,             \* requests of the clients
          Keys,             \* questions (name, type, class)
          Txids,            \* transaction ids towards the upstreams
          PENDING_ENTRIES,
          PENDING_WAITERS,
          Libre             \* a free slot

ASSUME PendingAssumption ==
  /\ PENDING_ENTRIES \in Nat \ {0, 1}
  /\ PENDING_WAITERS \in Nat \ {0}
  /\ IsFiniteSet(Reqs)
  /\ IsFiniteSet(Txids)
  /\ Cardinality(Txids) > PENDING_ENTRIES

Slots == 0 .. PENDING_ENTRIES - 1

Entrada == [key : Keys, txid : Txids, upstream_idx : Nat, reintentos : {0, 1},
            enviado_en : Clock, waiters : SUBSET Reqs]

ASSUME LibreAssumption == Libre \notin Entrada

TablaVacia == [i \in Slots |-> Libre]

EnUso(t) == {i \in Slots : t[i] # Libre}

Libres(t) == Slots \ EnUso(t)

\* Mutant of MismaClave: the question is not compared.
CualquierClave(t, k) == EnUso(t)

\* misma_clave: the live entries that ask question k.
MismaClave(t, k) == {i \in EnUso(t) : t[i].key = k}

\* The scan of pending_register that looks for the oldest entry: every live
\* entry but the first one with the same question.
EsMasAntigua(t, k, i) ==
  LET cand == {j \in EnUso(t) : ~EsPrimera(MismaClave(t, k), j)}
  IN  /\ i \in cand
      /\ \A j \in cand : ~Antes(t[j].enviado_en, t[i].enviado_en)
      /\ \A j \in cand : t[j].enviado_en = t[i].enviado_en => i <= j

\* Mutant of TxidsLibres: any id is taken, used by a live entry or not.
TxidsTodos(t) == Txids

\* txid_unico: the ids it can return, whatever the first candidate was.
TxidsLibres(t) == {x \in Txids : \A i \in EnUso(t) : t[i].txid # x}

\* pending_register joins the first live entry with the same question.
PuedeAgrupar(t, k, i) ==
  EsPrimera(MismaClave(t, k), i) /\ Cardinality(t[i].waiters) < PENDING_WAITERS

Agrupa(t, i, r) == [t EXCEPT ![i].waiters = @ \cup {r}]

\* ... or, failing that, fills the first free slot or evicts the oldest entry.
HuecoPara(t, k, i) ==
  /\ ~\E j \in Slots : PuedeAgrupar(t, k, j)
  /\ \/ EsPrimera(Libres(t), i)
     \/ Libres(t) = {} /\ EsMasAntigua(t, k, i)

NuevaEntrada(r, k, u, now, x) ==
  [key |-> k, txid |-> x, upstream_idx |-> u, reintentos |-> 0,
   enviado_en |-> now, waiters |-> {r}]

\* Mutant of PreguntaCasa: the question of the answer is not compared.
SinPregunta(t, i, k) == TRUE

\* The question echoed in the answer is the one the entry asked.
PreguntaCasa(t, i, k) == t[i].key = k

\* Mutant of Libera: the entry that was answered stays in use.
NoLibera(t, i) == t

Libera(t, i) == [t EXCEPT ![i] = Libre]

\* Mutant of Vencidas: > instead of >=.
VencidasTarde(t, now, timeout) == {i \in EnUso(t) : Edad(now, t[i].enviado_en) > timeout}

\* pending_expire at now, with room for `cap` actions: the first `cap` expired
\* entries in slot order.
Vencidas(t, now, timeout) == {i \in EnUso(t) : Edad(now, t[i].enviado_en) >= timeout}

PorVencer(t, now, timeout, cap) ==
  LET v == Vencidas(t, now, timeout)
  IN  {i \in v : Cardinality({j \in v : j < i}) < cap}

AReintentar(t, S) == {i \in S : t[i].reintentos = 0}

AFallar(t, S) == {i \in S : t[i].reintentos = 1}

\* The ids x[i] the retried entries of S can get: txid_unico runs for them in
\* slot order, each time over the table as the slots before i left it.
TxidsDeReintento(t, S) ==
  LET R == AReintentar(t, S)
      enUsoEn(i) == {j \in EnUso(t) : j \in S => j >= i}
  IN  {x \in [R -> Txids] : \A i \in R :
         /\ \A j \in enUsoEn(i) : x[i] # t[j].txid
         /\ \A j \in R : j < i => x[i] # x[j]}

\* First expiry: the same entry, for the next upstream, under a new id.
Reintento(e, x, now) ==
  [key |-> e.key, txid |-> x, upstream_idx |-> e.upstream_idx + 1, reintentos |-> 1,
   enviado_en |-> now, waiters |-> e.waiters]

\* Mutant of TrasVencer: reintentos is never set, so an entry is retried for ever.
SiempreReintenta(t, S, x, now) ==
  [i \in Slots |->
    IF i \in AReintentar(t, S)
      THEN [t[i] EXCEPT !.txid = x[i], !.enviado_en = now, !.upstream_idx = 1]
      ELSE t[i]]

TrasVencer(t, S, x, now) ==
  [i \in Slots |->
    CASE i \in AReintentar(t, S) -> Reintento(t[i], x[i], now)
      [] i \in AFallar(t, S)     -> Libre
      [] OTHER                   -> t[i]]
=============================================================================
