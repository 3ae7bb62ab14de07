----------------------------- MODULE DhcpLease ------------------------------
(***************************************************************************)
(* The lease table of the DHCP server (dhcp_lease.c).  A slot holds the    *)
(* address, the client it was last given to, the instant the reservation   *)
(* ends and its state.  A slot that becomes free, or bad, keeps the client *)
(* of its last reservation; the address and the instant of a free slot,    *)
(* and the instant of a bad one, are never read again and are forgotten.   *)
(***************************************************************************)
EXTENDS Reloj, Barrido

CONSTANTS Macs,             \* clients
          MacCero,          \* the address of a slot never used (memset)
          DHCP_LEASES_MAX,
          OFFER_RESERVE,    \* seconds an offer reserves its address
          LEASE,            \* seconds a confirmed lease lasts (pool.lease_time)
          OWN, GATEWAY      \* addresses never given

ASSUME LeaseAssumption ==
  /\ DHCP_LEASES_MAX \in Nat \ {0}
  /\ OFFER_RESERVE \in Nat \ {0} /\ OFFER_RESERVE < ClockMod \div 2
  /\ LEASE \in Nat /\ LEASE < ClockMod \div 2
  /\ OFFER_RESERVE <= LEASE
  /\ MacCero \notin Macs

Slots == 0 .. DHCP_LEASES_MAX - 1

Lease == [ip : Nat, mac : Macs \cup {MacCero}, expira : Clock,
          estado : {"free", "offered", "bound", "bad"}]

Pool == [ini : Nat, fin : Int]

TablaVacia == [i \in Slots |-> [ip |-> 0, mac |-> MacCero, expira |-> 0, estado |-> "free"]]

Libres(t) == {i \in Slots : t[i].estado = "free"}

\* Mutant of DeMac: the slots that were his.
MacDeLibres(t, m) == {i \in Libres(t) : t[i].mac = m}

\* find_mac and find_ip return the first of these.
DeMac(t, m) == {i \in Slots \ Libres(t) : t[i].mac = m}
DeIp(t, ip) == {i \in Slots \ Libres(t) : t[i].ip = ip}

\* (int32_t)(expira - now) > 0
Vigente(e, now) == e.expira # now /\ ~Antes(e.expira, now)

Vencidas(t, now) == {i \in Slots : t[i].estado # "bad" /\ ~Vigente(t[i], now)}

\* ip_taken
Ocupada(t, ip, now) ==
  \E i \in Slots : EsPrimera(DeIp(t, ip), i) /\ (t[i].estado = "bad" \/ Vigente(t[i], now))

EnPool(p, ip) == ip \in p.ini .. p.fin \ {OWN, GATEWAY}

\* ip_usable
Usables(p, t, now) == {ip \in p.ini .. p.fin : EnPool(p, ip) /\ ~Ocupada(t, ip, now)}

\* free_slot: the slot it returns, if any.
Huecos(t, now) ==
  LET s == IF Libres(t) # {} THEN Libres(t) ELSE Vencidas(t, now)
  IN  {i \in Slots : EsPrimera(s, i)}

\* Mutant of HuecosDeIp: a new slot although the address has one.
SinReusar(t, ip, now) == Huecos(t, now)

\* reservar: the slot of the address itself, or else a free one.
HuecosDeIp(t, ip, now) ==
  LET suyo == {i \in Slots : EsPrimera(DeIp(t, ip), i) /\ t[i].estado # "bad"}
  IN  IF suyo # {} THEN suyo ELSE Huecos(t, now)

Reserva(t, i, ip, m, now) ==
  [t EXCEPT ![i] = [ip |-> ip, mac |-> m, expira |-> Suma(now, OFFER_RESERVE),
                    estado |-> "offered"]]

\* dhcp_lease_offer: the address it returns (0 if none) and the table it leaves.
Ofertas(t, p, m, pedida, now) ==
  LET suya == {i \in Slots : EsPrimera(DeMac(t, m), i) /\ t[i].estado # "bad"}
      us == Usables(p, t, now)
      elegida == IF pedida # 0 /\ pedida \in us THEN {pedida}
                 ELSE {ip \in us : EsPrimera(us, ip)}
      nuevas == UNION {{[ip |-> ip, tabla |-> Reserva(t, i, ip, m, now)] :
                          i \in HuecosDeIp(t, ip, now)} : ip \in elegida}
  IN  IF suya # {}
        THEN {[ip |-> t[i].ip, tabla |-> Reserva(t, i, t[i].ip, m, now)] : i \in suya}
        ELSE IF nuevas # {} THEN nuevas ELSE {[ip |-> 0, tabla |-> t]}

\* Mutant of Confirmables: the lease of another client may be taken over.
ConfirmaAjena(t, p, m, ip, now) ==
  IF ~EnPool(p, ip) THEN {}
  ELSE IF DeIp(t, ip) = {} THEN Huecos(t, now)
  ELSE {i \in Slots : EsPrimera(DeIp(t, ip), i) /\ t[i].estado # "bad"}

\* Mutant of Confirmables: an address found in conflict is confirmed.
ConfirmaMala(t, p, m, ip, now) ==
  IF ~EnPool(p, ip) THEN {}
  ELSE IF DeIp(t, ip) = {} THEN Huecos(t, now)
  ELSE {i \in Slots : EsPrimera(DeIp(t, ip), i) /\ (t[i].mac = m \/ ~Vigente(t[i], now))}

\* dhcp_lease_commit: the slot the lease goes to; none is a NAK.
Confirmables(t, p, m, ip, now) ==
  IF ~EnPool(p, ip) THEN {}
  ELSE IF DeIp(t, ip) = {} THEN Huecos(t, now)
  ELSE {i \in Slots : /\ EsPrimera(DeIp(t, ip), i)
                      /\ t[i].estado # "bad"
                      /\ t[i].mac = m \/ ~Vigente(t[i], now)}

Confirma(t, i, ip, m, now) ==
  [t EXCEPT ![i] = [ip |-> ip, mac |-> m, expira |-> Suma(now, LEASE), estado |-> "bound"]]

Suelta(e) == [ip |-> 0, mac |-> e.mac, expira |-> 0, estado |-> "free"]

\* dhcp_lease_release
Libera(t, m, ip) ==
  LET suyas == {i \in Slots : /\ t[i].estado \in {"bound", "offered"}
                              /\ t[i].ip = ip /\ t[i].mac = m}
  IN  [i \in Slots |-> IF EsPrimera(suyas, i) THEN Suelta(t[i]) ELSE t[i]]

\* dhcp_lease_decline: the entry of the address, or else the first free slot.
Declina(t, ip) ==
  LET donde == IF DeIp(t, ip) # {} THEN DeIp(t, ip) ELSE Libres(t)
  IN  [i \in Slots |->
        IF EsPrimera(donde, i)
          THEN [ip |-> ip, mac |-> t[i].mac, expira |-> 0, estado |-> "bad"]
          ELSE t[i]]

\* Mutant of Expira: leases under way are freed too.
ExpiraTodo(t, now) ==
  [i \in Slots |-> IF t[i].estado \in {"offered", "bound"} THEN Suelta(t[i]) ELSE t[i]]

\* dhcp_lease_expire
Expira(t, now) ==
  [i \in Slots |->
    IF t[i].estado \in {"offered", "bound"} /\ ~Vigente(t[i], now) THEN Suelta(t[i]) ELSE t[i]]
=============================================================================
