------------------------------- MODULE Cache --------------------------------
(***************************************************************************)
(* The DNS cache (cache.c), link by link: an array of slots that are       *)
(* chained by bucket of their hash, in order of use (a doubly linked list) *)
(* and, while free, in the free list, which uses the hash link.            *)
(*                                                                         *)
(* Every operation that changes it runs in the tcpip thread, and is one    *)
(* step.  A stored answer is the message of the upstream, with its id and  *)
(* the letters of our own query, and the instant it was stored.            *)
(***************************************************************************)
EXTENDS DnsWire

CONSTANTS Claves, CAPACITY, TTL_CAP, EVICT_SCAN, MaxNow, Nada,
          Mensajes,     \* answers of the upstream, by name
          Wire,         \* the message of each
          RESP_MAX,     \* records in an answer that is kept, at most
          Pidientes,    \* each with an id and a case of letters of its own
          Hash          \* hash_key(q) % capacity

ASSUME CacheAssumption ==
  /\ \A m \in Mensajes :
       EsMensaje(Wire[m]) /\ {Wire[m].id, Wire[m].letras} \cap Pidientes = {}
  /\ RESP_MAX \in Nat
  /\ CAPACITY \in Nat \ {0} /\ CAPACITY <= 65535
  /\ TTL_CAP \in Nat
  /\ EVICT_SCAN \in Nat \ {0}
  /\ MaxNow \in Nat
  /\ Hash \in [Claves -> 0 .. CAPACITY - 1]
  /\ Nada \notin Claves

SLOT_NONE == 65535

Slots == 0 .. CAPACITY - 1
Enlace == Slots \cup {SLOT_NONE}

VARIABLES now,      \* s_now()
          s_cache,  \* the cache_t and its slots
          salida    \* what the last call gave a client, if it was a cache_get that did

cacheVars == <<now, s_cache, salida>>

Slot == [clave : Claves \cup {Nada}, resp : Mensajes \cup {Nada}, inserted : 0 .. MaxNow,
         expiry : 0 .. MaxNow + TTL_CAP,
         lru_prev : Enlace, lru_next : Enlace, hash_next : Enlace]

Estado == [slots : [Slots -> Slot], buckets : [Slots -> Enlace],
           lru_head : Enlace, lru_tail : Enlace, free_head : Enlace]

CacheTypeOK ==
  /\ now \in 0 .. MaxNow
  /\ s_cache \in Estado
  /\ \A r \in salida :
       r.clave \in Claves /\ r.cliente \in Pidientes /\ EsMensaje(r.resp)

(***************************************************************************)
(* The lists                                                               *)
(***************************************************************************)

\* The slots found from slot i on following the links sig, CAPACITY at most.
Lista(sig, i) ==
  LET paso == [j \in Enlace |-> IF j = SLOT_NONE THEN SLOT_NONE ELSE sig[j]]
      donde[k \in 0 .. CAPACITY] == IF k = 0 THEN i ELSE paso[donde[k - 1]]
      n == Cardinality({k \in 0 .. CAPACITY - 1 : donde[k] # SLOT_NONE})
  IN  [k \in 1 .. n |-> donde[k - 1]]

SigHash(d) == [i \in Slots |-> d.slots[i].hash_next]
SigUso(d) == [i \in Slots |-> d.slots[i].lru_next]
AntUso(d) == [i \in Slots |-> d.slots[i].lru_prev]

Cadena(d, b) == Lista(SigHash(d), d.buckets[b])
Uso(d) == Lista(SigUso(d), d.lru_head)
DesdeCola(d) == Lista(AntUso(d), d.lru_tail)
Libres(d) == Lista(SigHash(d), d.free_head)

Pertenece(l, i) == \E n \in DOMAIN l : l[n] = i

\* The slot of l at the first of the places given, or another if there is none.
Primero(l, lugares, otro) == IF lugares = {} THEN otro ELSE l[Min(lugares)]

Busca(d, k) ==
  LET l == Cadena(d, Hash[k])
  IN  Primero(l, {n \in DOMAIN l : d.slots[l[n]].clave = k}, SLOT_NONE)

\* Mutant of LruUnlink: the tail is not moved.
LruUnlinkSinCola(d, i) ==
  LET s == d.slots[i]
  IN  [d EXCEPT
        !.slots = [j \in Slots |->
          [d.slots[j] EXCEPT !.lru_next = IF j = s.lru_prev THEN s.lru_next ELSE @,
                             !.lru_prev = IF j = s.lru_next THEN s.lru_prev ELSE @]],
        !.lru_head = IF s.lru_prev = SLOT_NONE THEN s.lru_next ELSE @]

LruUnlink(d, i) ==
  LET s == d.slots[i]
  IN  [d EXCEPT
        !.slots = [j \in Slots |->
          [d.slots[j] EXCEPT !.lru_next = IF j = s.lru_prev THEN s.lru_next ELSE @,
                             !.lru_prev = IF j = s.lru_next THEN s.lru_prev ELSE @]],
        !.lru_head = IF s.lru_prev = SLOT_NONE THEN s.lru_next ELSE @,
        !.lru_tail = IF s.lru_next = SLOT_NONE THEN s.lru_prev ELSE @]

LruPushFront(d, i) ==
  [d EXCEPT
    !.slots = [j \in Slots |->
      IF j = i THEN [d.slots[j] EXCEPT !.lru_prev = SLOT_NONE, !.lru_next = d.lru_head]
      ELSE IF j = d.lru_head THEN [d.slots[j] EXCEPT !.lru_prev = i]
      ELSE d.slots[j]],
    !.lru_head = i,
    !.lru_tail = IF @ = SLOT_NONE THEN i ELSE @]

\* Refreshing a slot's place in the order of use.
AlFrente(d, i) == LruPushFront(LruUnlink(d, i), i)

HashUnlink(d, i) ==
  LET s == d.slots[i]
      b == Hash[s.clave]
  IN  [d EXCEPT
        !.buckets[b] = IF @ = i THEN s.hash_next ELSE @,
        !.slots = [j \in Slots |->
          IF d.slots[j].hash_next = i /\ Pertenece(Cadena(d, b), j)
            THEN [d.slots[j] EXCEPT !.hash_next = s.hash_next] ELSE d.slots[j]]]

\* A slot in the free list: only that link of it is ever read again.
Libre(h) ==
  [clave |-> Nada, resp |-> Nada, inserted |-> 0, expiry |-> 0,
   lru_prev |-> SLOT_NONE, lru_next |-> SLOT_NONE, hash_next |-> h]

Libera(d, i) ==
  LET e == LruUnlink(HashUnlink(d, i), i)
  IN  [e EXCEPT !.slots[i] = Libre(d.free_head), !.free_head = i]

\* cache_init and cache_clear
Vaciada ==
  [slots |-> [i \in Slots |-> Libre(IF i = CAPACITY - 1 THEN SLOT_NONE ELSE i + 1)],
   buckets |-> [b \in Slots |-> SLOT_NONE],
   lru_head |-> SLOT_NONE, lru_tail |-> SLOT_NONE, free_head |-> 0]

-----------------------------------------------------------------------------
CacheInit ==
  /\ now = 0
  /\ s_cache = Vaciada
  /\ salida = {}

Caducado(s) == s.expiry <= now

(***************************************************************************)
(* cache_get.  The answer fits the client's buffer; if it doesn't the call *)
(* changes nothing.                                                        *)
(***************************************************************************)

\* The answer of a slot for a client: a copy, with its question and its id.
ParaCliente(s, cl) ==
  dns_wire_rewrite_id(
    dns_wire_decrement_ttls([Wire[s.resp] EXCEPT !.letras = cl], now - s.inserted), cl)

GetAcierto(k, cl) ==
  LET i == Busca(s_cache, k)
  IN  /\ i # SLOT_NONE
      /\ ~Caducado(s_cache.slots[i])
      /\ salida' = {[clave |-> k, cliente |-> cl, resp |-> ParaCliente(s_cache.slots[i], cl)]}
      /\ s_cache' = AlFrente(s_cache, i)
      /\ UNCHANGED now

GetCaducado(k) ==
  LET i == Busca(s_cache, k)
  IN  /\ i # SLOT_NONE
      /\ Caducado(s_cache.slots[i])
      /\ s_cache' = Libera(s_cache, i)
      /\ salida' = {}
      /\ UNCHANGED now

GetFallo(k) ==
  /\ Busca(s_cache, k) = SLOT_NONE
  /\ salida' = {}
  /\ UNCHANGED <<now, s_cache>>

(***************************************************************************)
(* cache_put, with the least TTL of an answer of the upstream (up_recv_cb, *)
(* cacheput_en_tcpip), if it has one.                                      *)
(***************************************************************************)
MinTtl == [m \in Mensajes |-> dns_wire_min_ttl(Wire[m])]

SeGuardan ==
  {m \in Mensajes :
     /\ MinTtl[m] > 0
     /\ Len(Wire[m].rr) <= RESP_MAX
     /\ Wire[m].rcode \in {DNS_RCODE_NOERROR, DNS_RCODE_NXDOMAIN}}

\* OPT goes in the additional section (RFC 6891).  Elsewhere it would be taken for
\* an answer when the deadline is worked out, and not when its TTL is aged.
ASSUME OptAssumption ==
  \A m \in SeGuardan : \A i \in DOMAIN Wire[m].rr :
    Wire[m].rr[i].tipo = OPT => i > Wire[m].an

NoSeGuarda(m) ==
  /\ m \notin SeGuardan
  /\ salida' = {}
  /\ UNCHANGED <<now, s_cache>>

\* Mutant of Desalojable: the scan for an expired slot begins at the head.
DesalojableDesdeCabeza(d) ==
  LET l == Uso(d)
  IN  Primero(l, {n \in DOMAIN l : n <= EVICT_SCAN /\ Caducado(d.slots[l[n]])}, d.lru_tail)

\* The first expired slot among the last EVICT_SCAN in order of use, or the last.
Desalojable(d) ==
  LET l == DesdeCola(d)
  IN  Primero(l, {n \in DOMAIN l : n <= EVICT_SCAN /\ Caducado(d.slots[l[n]])}, d.lru_tail)

\* Slot i becomes the first of the bucket of question k and of the list.
Engancha(d, i, k) ==
  LET b == Hash[k]
  IN  LruPushFront([d EXCEPT !.slots[i].clave = k,
                             !.slots[i].hash_next = d.buckets[b],
                             !.buckets[b] = i], i)

SacaLibre(d) == [d EXCEPT !.free_head = d.slots[@].hash_next]

TtlEfectivo(ttl) == IF ttl > TTL_CAP THEN TTL_CAP ELSE ttl

Rellena(d, i, m) ==
  [d EXCEPT !.slots[i].resp = m,
            !.slots[i].inserted = now,
            !.slots[i].expiry = now + TtlEfectivo(MinTtl[m])]

PutReemplaza(k, m) ==
  LET i == Busca(s_cache, k)
  IN  /\ m \in SeGuardan
      /\ i # SLOT_NONE
      /\ s_cache' = Rellena(AlFrente(s_cache, i), i, m)
      /\ salida' = {}
      /\ UNCHANGED now

PutLibre(k, m) ==
  LET i == s_cache.free_head
  IN  /\ m \in SeGuardan
      /\ Busca(s_cache, k) = SLOT_NONE
      /\ i # SLOT_NONE
      /\ s_cache' = Rellena(Engancha(SacaLibre(s_cache), i, k), i, m)
      /\ salida' = {}
      /\ UNCHANGED now

PutDesaloja(k, m) ==
  LET i == Desalojable(s_cache)
  IN  /\ m \in SeGuardan
      /\ Busca(s_cache, k) = SLOT_NONE
      /\ s_cache.free_head = SLOT_NONE
      /\ i # SLOT_NONE
      /\ s_cache' = Rellena(Engancha(LruUnlink(HashUnlink(s_cache, i), i), i, k), i, m)
      /\ salida' = {}
      /\ UNCHANGED now

\* cache_clear, in the tcpip thread too (flush_en_tcpip)
Clear ==
  /\ s_cache' = Vaciada
  /\ salida' = {}
  /\ UNCHANGED now

PasaUnSegundo ==
  /\ now < MaxNow
  /\ now' = now + 1
  /\ salida' = {}
  /\ UNCHANGED s_cache

CacheNext ==
  \/ \E k \in Claves, cl \in Pidientes : GetAcierto(k, cl)
  \/ \E k \in Claves : GetCaducado(k)
  \/ \E k \in Claves : GetFallo(k)
  \/ \E m \in Mensajes : NoSeGuarda(m)
  \/ \E k \in Claves, m \in Mensajes : PutReemplaza(k, m)
  \/ \E k \in Claves, m \in Mensajes : PutLibre(k, m)
  \/ \E k \in Claves, m \in Mensajes : PutDesaloja(k, m)
  \/ Clear
  \/ PasaUnSegundo

CacheSpec == CacheInit /\ [][CacheNext]_cacheVars

-----------------------------------------------------------------------------
(***************************************************************************)
(* Properties                                                              *)
(***************************************************************************)

\* The lists stay in step through every order of calls: each slot is free or
\* in use, never both; the list of use reads the same from either end; and a
\* slot in use is in the chain of its own question's bucket and in no other
\* (libera, hash_unlink, lru_unlink and the eviction of cache_put).
Estructura ==
  LET uso == Uso(s_cache)
      libres == Libres(s_cache)
      cadenas == [b \in Slots |-> Cadena(s_cache, b)]
  IN  /\ CacheTypeOK
      /\ \A i \in Slots : Pertenece(uso, i) # Pertenece(libres, i)
      /\ Len(uso) + Len(libres) = CAPACITY
      /\ DesdeCola(s_cache) = [n \in DOMAIN uso |-> uso[Len(uso) + 1 - n]]
      /\ \A i, b \in Slots :
           Pertenece(cadenas[b], i) <=> Pertenece(uso, i) /\ Hash[s_cache.slots[i].clave] = b

\* The cache implements the map with deadlines and order of use its callers see,
\* for which an answer is its least TTL.
Contenido ==
  LET uso == Uso(s_cache)
  IN  [n \in DOMAIN uso |->
        LET s == s_cache.slots[uso[n]]
        IN  [clave |-> s.clave, ttl |-> MinTtl[s.resp], inserted |-> s.inserted]]

Servida == {[clave |-> r.clave, ttl |-> dns_wire_min_ttl(r.resp)] : r \in salida}

TtlsDe == {MinTtl[m] : m \in SeGuardan}

Promesa == INSTANCE Lru WITH orden <- Contenido, salida <- Servida, Ttls <- TtlsDe

ImplementaLru == Promesa!Spec

\* The records of an answer that say something of the name: a positive answer's
\* own (whatever an OPT is doing there), or the authority's SOA.
Decisivos(m) ==
  IF m.an > 0 THEN {i \in 1 .. m.an : m.rr[i].tipo # OPT} ELSE {Min({i \in LosQueSon(m, SOA) : i <= m.ns})}

\* What a client gets is the one answer kept for its question, with its own id
\* and letters and not those of the upstream's or of another client; each record
\* that counts expires when it would have at the upstream, and has not yet; the
\* rest are never said to last longer than they do, even when the walk that
\* takes the time from them stops half way (its result is not looked at); OPT is
\* as it came, and nothing is served ttl_cap seconds after it was kept (FR-005).
RespuestaFiel ==
  [][\A r \in salida' :
       LET s == r.resp
       IN  \A i \in Slots : s_cache.slots[i].clave = r.clave =>
             LET m == Wire[s_cache.slots[i].resp]
                 edad == now - s_cache.slots[i].inserted
             IN  /\ s = [m EXCEPT !.id = r.cliente, !.letras = r.cliente, !.rr = s.rr]
                 /\ DOMAIN s.rr = DOMAIN m.rr
                 /\ \A j \in Decisivos(m) :
                      s.rr[j].ttl > 0 /\ s.rr[j].ttl + edad = m.rr[j].ttl
                 /\ \A j \in DOMAIN m.rr :
                      /\ s.rr[j] = [m.rr[j] EXCEPT !.ttl = s.rr[j].ttl]
                      /\ s.rr[j].ttl <= m.rr[j].ttl
                      /\ m.rr[j].tipo = OPT => s.rr[j] = m.rr[j]
                 /\ edad < TTL_CAP]_cacheVars
=============================================================================
