-------------------------------- MODULE Dhcp --------------------------------
(***************************************************************************)
(* The DHCP server of net_dhcp.c: one task that receives a datagram (or    *)
(* times out), frees the expired leases and handles the request.  Only     *)
(* this task changes the table, but it handles a DISCOVER in several       *)
(* steps: it probes the address it is about to offer with ARP, 40 ms each  *)
(* time, and goes on with the instant it read before.                      *)
(*                                                                         *)
(* promesa is what the clients hold: the last address each was offered or  *)
(* granted by this server, and for how many seconds more.  It is the       *)
(* clients' knowledge, not the server's, and it is what the table is for.  *)
(*                                                                         *)
(* One tick of the clock is one second.                                    *)
(***************************************************************************)
EXTENDS DhcpLease

CONSTANTS RED, BCAST,          \* addresses of the network and of broadcast
          POOL_INI, POOL_FIN,  \* the pool used when none is configured
          Rangos,              \* configured pools, <<0, 0>> for none
          Pedidas,             \* addresses the clients ask for, 0 for none
          MaxArp               \* bound: seconds an ARP probe takes

ASSUME DhcpAssumption ==
  /\ RED \in Nat /\ BCAST \in Nat \ {0}
  /\ POOL_INI \in Nat /\ POOL_FIN \in Nat
  /\ Rangos \subseteq Nat \X Nat
  /\ Pedidas \subseteq Nat
  /\ MaxArp \in Nat /\ MaxArp < OFFER_RESERVE
  /\ LEASE + MaxArp < ClockMod \div 2

VARIABLES now,      \* now_s()
          pool,     \* s_pool
          tabla,    \* s_leases
          pc,       \* where the task is
          pet,      \* the request it handles
          ahora,    \* the `now` of procesar
          ip,       \* the address procesar is about to offer
          promesa

vars == <<now, pool, tabla, pc, pet, ahora, ip, promesa>>

Tipos == {"discover", "request", "ajeno", "release", "decline"}

Peticion == [tipo : Tipos, mac : Macs, ip : Nat]

\* Between two requests.
SinPeticion == [tipo |-> "ninguna", mac |-> MacCero, ip |-> 0]

NadaPrometido == [ip |-> 0, resta |-> 0]

Promesa == [ip : Nat, resta : 0 .. ClockMod \div 2]

TypeOK ==
  /\ now \in Clock
  /\ pool \in Pool
  /\ tabla \in [Slots -> Lease]
  /\ pc \in {"parada", "espera", "procesa", "arp1", "arp2"}
  /\ pet \in Peticion \cup {SinPeticion}
  /\ pc \in {"procesa", "arp1", "arp2"} => pet \in Peticion
  /\ ahora \in Clock
  /\ ip \in Nat
  /\ promesa \in [Macs -> Promesa]

\* net_dhcp_start: the configured range cut to the network.
PoolDe(r) ==
  LET sin == r[1] = 0 \/ r[2] = 0
      i0 == IF sin THEN POOL_INI ELSE r[1]
      f0 == IF sin THEN POOL_FIN ELSE r[2]
      i1 == IF i0 <= RED THEN RED + 1 ELSE i0
      f1 == IF f0 >= BCAST THEN BCAST - 1 ELSE f0
  IN  IF i1 > f1 THEN [ini |-> RED + 1, fin |-> BCAST - 1] ELSE [ini |-> i1, fin |-> f1]

Init ==
  /\ now = 0
  /\ pool \in {PoolDe(r) : r \in Rangos}
  /\ tabla = TablaVacia
  /\ pc = "espera"
  /\ pet = SinPeticion
  /\ ahora = 0
  /\ ip = 0
  /\ promesa = [m \in Macs |-> NadaPrometido]

(***************************************************************************)
(* tarea_dhcp                                                              *)
(***************************************************************************)

\* recvfrom times out.
Mantiene ==
  /\ pc = "espera"
  /\ tabla' = Expira(tabla, now)
  /\ UNCHANGED <<now, pool, pc, pet, ahora, ip, promesa>>

\* A client starts over, chooses another server, gives its address back or
\* reports a conflict: it no longer counts on what this server promised it.
Renuncia(m) == promesa' = [promesa EXCEPT ![m] = NadaPrometido]

Recibe(m, tipo, cual) ==
  /\ pc = "espera"
  /\ tabla' = Expira(tabla, now)
  /\ pc' = "procesa"
  /\ pet' = [tipo |-> tipo, mac |-> m, ip |-> cual]
  /\ IF tipo \in {"discover", "ajeno"} \/ (tipo # "request" /\ promesa[m].ip = cual)
       THEN Renuncia(m)
       ELSE UNCHANGED promesa
  /\ UNCHANGED <<now, pool, ahora, ip>>

(***************************************************************************)
(* procesar.  Its variables end with it.                                   *)
(***************************************************************************)
Vuelve == pc' = "espera" /\ pet' = SinPeticion /\ ahora' = 0 /\ ip' = 0

Discover ==
  /\ pc = "procesa" /\ pet.tipo = "discover"
  /\ \E o \in Ofertas(tabla, pool, pet.mac, pet.ip, now) :
       /\ tabla' = o.tabla
       /\ IF o.ip = 0 THEN Vuelve
          ELSE pc' = "arp1" /\ ip' = o.ip /\ ahora' = now /\ UNCHANGED pet
  /\ UNCHANGED <<now, pool, promesa>>

\* Nobody answers the probe: the offer is sent, and may be lost.
ArpLibre ==
  /\ pc \in {"arp1", "arp2"}
  /\ Vuelve
  /\ promesa' \in
       {promesa, [promesa EXCEPT ![pet.mac] =
                    [ip |-> ip, resta |-> OFFER_RESERVE - Edad(now, ahora)]]}
  /\ UNCHANGED <<now, pool, tabla>>

\* Somebody uses the address: it is marked, and another one is tried, once.
ArpOcupada ==
  /\ pc = "arp1"
  /\ \E o \in Ofertas(Declina(tabla, ip), pool, pet.mac, 0, ahora) :
       /\ tabla' = o.tabla
       /\ IF o.ip = 0 THEN Vuelve
          ELSE pc' = "arp2" /\ ip' = o.ip /\ UNCHANGED <<pet, ahora>>
  /\ UNCHANGED <<now, pool, promesa>>

ArpOcupadaOtraVez ==
  /\ pc = "arp2"
  /\ tabla' = Declina(tabla, ip)
  /\ Vuelve
  /\ UNCHANGED <<now, pool, promesa>>

\* The ACK may be lost; then the client holds on to what it had.
RequestAck ==
  /\ pc = "procesa" /\ pet.tipo = "request"
  /\ Vuelve
  /\ \E i \in Confirmables(tabla, pool, pet.mac, pet.ip, now) :
       tabla' = Confirma(tabla, i, pet.ip, pet.mac, now)
  /\ promesa' \in
       {promesa, [promesa EXCEPT ![pet.mac] = [ip |-> pet.ip, resta |-> LEASE]]}
  /\ UNCHANGED <<now, pool>>

RequestNak ==
  /\ pc = "procesa" /\ pet.tipo = "request"
  /\ Vuelve
  /\ Confirmables(tabla, pool, pet.mac, pet.ip, now) = {}
  /\ UNCHANGED <<now, pool, tabla, promesa>>

RequestAjeno ==
  /\ pc = "procesa" /\ pet.tipo = "ajeno"
  /\ Vuelve
  /\ UNCHANGED <<now, pool, tabla, promesa>>

Release ==
  /\ pc = "procesa" /\ pet.tipo = "release"
  /\ Vuelve
  /\ tabla' = Libera(tabla, pet.mac, pet.ip)
  /\ UNCHANGED <<now, pool, promesa>>

Decline ==
  /\ pc = "procesa" /\ pet.tipo = "decline"
  /\ Vuelve
  /\ tabla' = Declina(tabla, pet.ip)
  /\ UNCHANGED <<now, pool, promesa>>

(***************************************************************************)
(* The rest of the system                                                  *)
(***************************************************************************)

\* A second goes by.
Tick ==
  /\ pc \in {"arp1", "arp2"} => Edad(now, ahora) < MaxArp
  /\ now' = Suma(now, 1)
  /\ promesa' = [m \in Macs |->
       [promesa[m] EXCEPT !.resta = IF @ = 0 THEN 0 ELSE @ - 1]]
  /\ UNCHANGED <<pool, tabla, pc, pet, ahora, ip>>

\* The web changes the configuration: net_dhcp_stop waits for the task, whose
\* blocking calls all return within its patience (1 s), and a new one starts
\* with an empty table, unless the server is now disabled or its socket fails.
Para ==
  /\ pc = "espera"
  /\ pc' = "parada"
  /\ UNCHANGED <<now, pool, tabla, pet, ahora, ip, promesa>>

Arranca(r) ==
  /\ pc \in {"espera", "parada"}
  /\ pc' = "espera"
  /\ pool' = PoolDe(r)
  /\ tabla' = TablaVacia
  /\ promesa' = [m \in Macs |-> NadaPrometido]
  /\ UNCHANGED <<now, pet, ahora, ip>>

Next ==
  \/ Mantiene
  \/ \E m \in Macs, tipo \in Tipos, cual \in Pedidas : Recibe(m, tipo, cual)
  \/ Discover
  \/ ArpLibre
  \/ ArpOcupada
  \/ ArpOcupadaOtraVez
  \/ RequestAck
  \/ RequestNak
  \/ RequestAjeno
  \/ Release
  \/ Decline
  \/ Tick
  \/ Para
  \/ \E r \in Rangos : Arranca(r)

Spec == Init /\ [][Next]_vars

-----------------------------------------------------------------------------
(***************************************************************************)
(* Properties                                                              *)
(***************************************************************************)

\* An address has one entry at most: find_ip, which returns the first one,
\* would otherwise judge an address by a stale or another client's lease.
UnaPorIp ==
  \A i, j \in Slots \ Libres(tabla) : tabla[i].ip = tabla[j].ip => i = j

\* Two clients never hold the same address at once, through offers, renewals,
\* confirmations, releases and conflicts, in every order, and although offers
\* are decided with the clock read before the ARP probes.
Exclusividad ==
  \A a, b \in Macs :
    /\ promesa[a].resta > 0
    /\ promesa[b].resta > 0
    /\ promesa[a].ip = promesa[b].ip
    => a = b

\* What a client holds is in the table: its own entry, which lasts at least as
\* long, or an entry that marks the address as in conflict.
Respaldada(m, i) ==
  /\ tabla[i].ip = promesa[m].ip
  /\ \/ tabla[i].estado = "bad"
     \/ /\ tabla[i].estado \in {"offered", "bound"}
        /\ tabla[i].mac = m
        /\ promesa[m].resta <= Edad(tabla[i].expira, now)
        /\ Edad(tabla[i].expira, now) <= LEASE

Respaldo ==
  \A m \in Macs : promesa[m].resta > 0 => \E i \in Slots : Respaldada(m, i)

\* During the probe of an address it is reserved for the client that asked.
Sondeo ==
  pc \in {"arp1", "arp2"} =>
    /\ Edad(now, ahora) <= MaxArp
    /\ \E i \in Slots : tabla[i] = [ip |-> ip, mac |-> pet.mac,
                                    expira |-> Suma(ahora, OFFER_RESERVE), estado |-> "offered"]

\* While a request is handled its client does not count on the address the
\* request gives up.
EnCurso ==
  /\ pc \in {"arp1", "arp2"} => pet.tipo = "discover"
  /\ pc \in {"procesa", "arp1", "arp2"} /\ pet.tipo = "discover"
       => promesa[pet.mac].resta = 0
  /\ pc = "procesa" /\ pet.tipo \in {"release", "decline"} /\ promesa[pet.mac].resta > 0
       => promesa[pet.mac].ip # pet.ip

\* An address found in conflict is not given to anybody until the server starts
\* again: its entry stays, and no offer or confirmation names it.
ConflictoRespetado ==
  [][\A i \in Slots : tabla[i].estado = "bad" =>
       /\ tabla' # TablaVacia => tabla'[i] = tabla[i]
       /\ \A m \in Macs : pc \in {"procesa", "arp1", "arp2"} /\ pc' = "espera"
                          /\ promesa'[m] # promesa[m] => promesa'[m].ip # tabla[i].ip]_vars

\* An offer gives a client its present lease if it has one (dhcp_lease.h:38),
\* and disturbs no entry in force of anybody else; unless an address the client met
\* in conflict still bears its name, for find_mac may then stop at that entry.
RenuevaLaSuya ==
  [][pc = "procesa" /\ pet.tipo = "discover" /\ pc' = "arp1"
     /\ ~(\E i \in Slots : tabla[i].mac = pet.mac /\ tabla[i].estado = "bad")
     => \A i \in Slots :
          /\ tabla[i].estado = "bound" /\ tabla[i].mac = pet.mac /\ Vigente(tabla[i], now)
               => \E j \in Slots \ Libres(tabla) : tabla[j].mac = pet.mac /\ tabla[j].ip = ip'
          /\ tabla[i].mac # pet.mac /\ (tabla[i].estado = "bad" \/ Vigente(tabla[i], now))
               => tabla[i].estado = "free" \/ tabla'[i] = tabla[i]]_vars
=============================================================================
