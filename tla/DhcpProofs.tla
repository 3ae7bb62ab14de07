----------------------------- MODULE DhcpProofs -----------------------------
(***************************************************************************)
(* Proofs about the DHCP server: no two clients hold the same address.     *)
(***************************************************************************)
EXTENDS Dhcp, TLAPS, WellFoundedInduction

Tabla == [Slots -> Lease]

\* No address has two entries.
SinRepetir(t) == \A i, j \in Slots \ Libres(t) : t[i].ip = t[j].ip => i = j

USE ClockModAssumption, LeaseAssumption, DhcpAssumption

-----------------------------------------------------------------------------
\* The clock.

LEMMA SumaClock ==
  ASSUME NEW n \in Clock, NEW d \in Clock
  PROVE  Suma(n, d) \in Clock
  BY DEF Suma, Clock

LEMMA PlazosClock == LEASE \in Clock /\ OFFER_RESERVE \in Clock /\ 1 \in Clock /\ 0 \in Clock
  BY DEF Clock

LEMMA EdadSuma ==
  ASSUME NEW n \in Clock, NEW d \in Clock
  PROVE  Edad(Suma(n, d), n) = d
  BY DEF Edad, Suma, Clock

\* A stamp d seconds ahead of n is d - a seconds ahead, a seconds later.
LEMMA EdadDespues ==
  ASSUME NEW n \in Clock, NEW a \in Clock, NEW d \in Clock, Edad(n, a) <= d
  PROVE  Edad(Suma(a, d), n) = d - Edad(n, a)
  BY DEF Edad, Suma, Clock

LEMMA EdadTick ==
  ASSUME NEW e \in Clock, NEW n \in Clock, Edad(e, n) > 0
  PROVE  Edad(e, Suma(n, 1)) = Edad(e, n) - 1
  BY DEF Edad, Suma, Clock

LEMMA EdadTickDesde ==
  ASSUME NEW n \in Clock, NEW a \in Clock, Edad(n, a) < MaxArp
  PROVE  Edad(Suma(n, 1), a) = Edad(n, a) + 1
  BY DEF Edad, Suma, Clock

\* An entry that lasts is in force, also for the instant read before the probes.
LEMMA DuraVigente ==
  ASSUME NEW l \in Lease, NEW n \in Clock, NEW a \in Clock,
         Edad(n, a) <= MaxArp, 0 < Edad(l.expira, n), Edad(l.expira, n) <= LEASE
  PROVE  Vigente(l, a)
  <1>1. l.expira \in Clock
    BY DEF Lease
  <1>2. Edad(l.expira, a) = Edad(l.expira, n) + Edad(n, a)
    BY <1>1 DEF Edad, Clock
  <1>3. Edad(l.expira, a) < ClockMod \div 2 /\ Edad(l.expira, a) > 0
    BY <1>1, <1>2 DEF Edad, Clock
  <1>4. Edad(a, a) = 0
    BY DEF Edad, Clock
  <1>5. Edad(l.expira, a) \in Int /\ ClockMod \div 2 \in Int
    BY <1>1 DEF Edad, Clock
  <1>6. QED
    BY <1>3, <1>4, <1>5 DEF Vigente, Antes

-----------------------------------------------------------------------------
\* What each operation of the table does to it.

LEMMA OfertaForma ==
  ASSUME NEW t \in Tabla, SinRepetir(t), NEW p \in Pool, NEW m \in Macs, NEW q \in Nat,
         NEW n \in Clock, NEW o \in Ofertas(t, p, m, q, n)
  PROVE  \/ o.ip = 0 /\ o.tabla = t
         \/ \E i \in Slots :
              /\ o.tabla = Reserva(t, i, o.ip, m, n)
              /\ o.ip \in Nat
              /\ t[i].estado # "bad"
              /\ \/ t[i].mac = m
                 \/ t[i].estado = "free"
                 \/ ~Vigente(t[i], n)
              /\ \A j \in Slots \ Libres(t) : t[j].ip = o.ip => j = i
  <1> DEFINE suya == {i \in Slots : EsPrimera(DeMac(t, m), i) /\ t[i].estado # "bad"}
             us == Usables(p, t, n)
             elegida == IF q # 0 /\ q \in us THEN {q} ELSE {dir \in us : EsPrimera(us, dir)}
             nuevas == UNION {{[ip |-> dir, tabla |-> Reserva(t, i, dir, m, n)] :
                                 i \in HuecosDeIp(t, dir, n)} : dir \in elegida}
  <1>1. CASE suya # {}
    <2>1. PICK i \in suya : o = [ip |-> t[i].ip, tabla |-> Reserva(t, i, t[i].ip, m, n)]
      BY <1>1 DEF Ofertas
    <2>2. /\ i \in Slots \ Libres(t) /\ t[i].mac = m /\ t[i].estado # "bad"
      BY <2>1 DEF EsPrimera, DeMac
    <2>3. t[i].ip \in Nat
      BY <2>2 DEF Tabla, Lease
    <2>4. QED
      BY <2>1, <2>2, <2>3 DEF SinRepetir
  <1>2. CASE suya = {} /\ nuevas # {}
    <2>1. o \in nuevas
      BY <1>2 DEF Ofertas
    <2> HIDE DEF us, elegida
    <2>2. PICK dir \in elegida :
            o \in {[ip |-> dir, tabla |-> Reserva(t, i, dir, m, n)] : i \in HuecosDeIp(t, dir, n)}
      BY <2>1
    <2>3. PICK i \in HuecosDeIp(t, dir, n) : o = [ip |-> dir, tabla |-> Reserva(t, i, dir, m, n)]
      BY <2>2
    <2> USE DEF us, elegida
    <2>4. i \in Slots /\ dir \in Nat /\ ~Ocupada(t, dir, n)
      <3>1. i \in Slots
        BY DEF HuecosDeIp, Huecos
      <3>2. dir \in us
        OBVIOUS
      <3>3. QED
        BY <3>1, <3>2 DEF Usables, Pool
    <2>5. ASSUME NEW j \in Slots \ Libres(t), t[j].ip = dir
          PROVE  j = i /\ t[i].estado # "bad" /\ ~Vigente(t[i], n)
      <3>1. DeIp(t, dir) = {j}
        BY <2>5 DEF DeIp, SinRepetir
      <3>2. EsPrimera(DeIp(t, dir), j)
        BY <2>5, <3>1 DEF EsPrimera, Slots
      <3>3. t[j].estado # "bad" /\ ~Vigente(t[j], n)
        BY <2>4, <2>5, <3>2 DEF Ocupada
      <3>4. i = j
        BY <2>3, <2>5, <3>1, <3>2, <3>3 DEF HuecosDeIp, EsPrimera
      <3>5. QED
        BY <3>3, <3>4
    <2>6. t[i].estado = "free" \/ (t[i].estado # "bad" /\ ~Vigente(t[i], n))
      <3>1. CASE \A j \in Slots \ Libres(t) : t[j].ip # dir
        <4>1. DeIp(t, dir) = {}
          BY <3>1 DEF DeIp
        <4>2. i \in Huecos(t, n)
          BY <4>1 DEF HuecosDeIp, EsPrimera
        <4>3. QED
          BY <4>2 DEF Huecos, EsPrimera, Libres, Vencidas
      <3>2. CASE \E j \in Slots \ Libres(t) : t[j].ip = dir
        BY <2>5, <3>2
      <3>3. QED
        BY <3>1, <3>2
    <2>7. o.ip = dir /\ o.tabla = Reserva(t, i, dir, m, n)
      BY <2>3
    <2>8. QED
      BY <2>4, <2>5, <2>6, <2>7
  <1>3. CASE suya = {} /\ nuevas = {}
    BY <1>3 DEF Ofertas
  <1>4. QED
    BY <1>1, <1>2, <1>3

LEMMA ConfirmaForma ==
  ASSUME NEW t \in Tabla, SinRepetir(t), NEW p \in Pool, NEW m \in Macs, NEW x \in Nat,
         NEW n \in Clock, NEW i \in Confirmables(t, p, m, x, n)
  PROVE  /\ i \in Slots
         /\ t[i].estado # "bad"
         /\ \/ t[i].mac = m /\ t[i].ip = x
            \/ t[i].estado = "free"
            \/ ~Vigente(t[i], n)
         /\ \A j \in Slots \ Libres(t) : t[j].ip = x => j = i
  <1>1. EnPool(p, x)
    BY DEF Confirmables
  <1>2. CASE DeIp(t, x) = {}
    <2>1. i \in Huecos(t, n)
      BY <1>1, <1>2 DEF Confirmables
    <2>2. i \in Slots /\ (t[i].estado = "free" \/ (t[i].estado # "bad" /\ ~Vigente(t[i], n)))
      BY <2>1 DEF Huecos, EsPrimera, Libres, Vencidas
    <2>3. QED
      BY <1>2, <2>2 DEF DeIp
  <1>3. CASE DeIp(t, x) # {}
    <2>1. /\ i \in Slots /\ EsPrimera(DeIp(t, x), i)
          /\ t[i].estado # "bad"
          /\ t[i].mac = m \/ ~Vigente(t[i], n)
      BY <1>1, <1>3 DEF Confirmables
    <2>2. i \in Slots \ Libres(t) /\ t[i].ip = x
      BY <2>1 DEF EsPrimera, DeIp
    <2>3. QED
      BY <2>1, <2>2 DEF SinRepetir
  <1>4. QED
    BY <1>2, <1>3

-----------------------------------------------------------------------------
\* What every operation keeps: the table covers what the clients hold.

Promesas == [Macs -> Promesa]

\* Entry e covers q, the promise of m.
Cubre(e, n, q, m) ==
  /\ e.ip = q.ip
  /\ \/ e.estado = "bad"
     \/ /\ e.estado \in {"offered", "bound"}
        /\ e.mac = m
        /\ q.resta <= Edad(e.expira, n)
        /\ Edad(e.expira, n) <= LEASE

Cubierta(t, n, q, m) == q.resta > 0 => \E i \in Slots : Cubre(t[i], n, q, m)

Sana(t, n, q) ==
  /\ t \in Tabla
  /\ SinRepetir(t)
  /\ \A m \in Macs : Cubierta(t, n, q[m], m)

Escrita(t, i, l) == [t EXCEPT ![i] = l]

\* Entry i is the only one address x may have.
Solo(t, x, i) == \A j \in Slots \ Libres(t) : t[j].ip = x => j = i

\* Writing one entry keeps the addresses apart.
LEMMA EscribeUna ==
  ASSUME NEW t \in Tabla, SinRepetir(t), NEW i \in Slots, NEW l \in Lease,
         Solo(t, l.ip, i)
  PROVE  /\ [t EXCEPT ![i] = l] \in Tabla
         /\ SinRepetir([t EXCEPT ![i] = l])
  <1> DEFINE u == [t EXCEPT ![i] = l]
  <1>1. u \in Tabla /\ u[i] = l /\ \A j \in Slots \ {i} : u[j] = t[j]
    BY DEF Tabla
  <1>2. \A j \in Slots \ {i} : j \notin Libres(u) <=> j \notin Libres(t)
    BY <1>1 DEF Libres
  <1> HIDE DEF u
  <1>3. SinRepetir(u)
    BY <1>1, <1>2 DEF SinRepetir, Solo
  <1>4. QED
    BY <1>1, <1>3 DEF u

\* What covers the promise of another client is not the slot an offer or a
\* confirmation may take.
LEMMA CubreOtra ==
  ASSUME NEW t \in Tabla, NEW n \in Clock, NEW a \in Clock, Edad(n, a) <= MaxArp,
         NEW i \in Slots, NEW j \in Slots, NEW m, NEW b, b # m,
         NEW q \in Promesa, q.resta > 0, Cubre(t[j], n, q, b),
         t[i].estado # "bad",
         \/ t[i].mac = m
         \/ t[i].estado = "free"
         \/ ~Vigente(t[i], a)
  PROVE  i # j
  <1>1. SUFFICES ASSUME i = j PROVE FALSE
    OBVIOUS
  <1>2. /\ t[i].estado \in {"offered", "bound"}
        /\ t[i].mac = b
        /\ q.resta <= Edad(t[i].expira, n)
        /\ Edad(t[i].expira, n) <= LEASE
    BY <1>1 DEF Cubre
  <1>3. t[i] \in Lease /\ t[i].expira \in Clock
    BY DEF Tabla, Lease
  <1>4. Edad(t[i].expira, n) > 0
    BY <1>2, <1>3 DEF Edad, Clock, Promesa
  <1>5. Vigente(t[i], a)
    BY <1>2, <1>3, <1>4, DuraVigente
  <1>6. QED
    BY <1>2, <1>5

\* An entry that covers a promise survives the expiry.
LEMMA CubreVigente ==
  ASSUME NEW e \in Lease, NEW n \in Clock, NEW q \in Promesa, q.resta > 0, NEW m,
         Cubre(e, n, q, m), e.estado # "bad"
  PROVE  Vigente(e, n) /\ e.mac = m
  <1>1. /\ e.mac = m
        /\ q.resta <= Edad(e.expira, n)
        /\ Edad(e.expira, n) <= LEASE
    BY DEF Cubre
  <1>2. Edad(e.expira, n) > 0
    BY <1>1 DEF Edad, Clock, Promesa, Lease
  <1>3. Edad(n, n) <= MaxArp
    BY DEF Edad, Clock
  <1>4. QED
    BY <1>1, <1>2, <1>3, DuraVigente

LEMMA ExpiraConserva ==
  ASSUME NEW t, NEW n \in Clock, NEW q \in Promesas, Sana(t, n, q)
  PROVE  Sana(Expira(t, n), n, q)
  <1> DEFINE u == Expira(t, n)
  <1>1. t \in Tabla /\ SinRepetir(t)
    BY DEF Sana
  <1>2. \A i \in Slots : \/ u[i] = t[i]
                         \/ u[i] = Suelta(t[i]) /\ ~Vigente(t[i], n) /\ t[i].estado # "bad"
    BY DEF Expira
  <1>3. u \in Tabla
    BY <1>1 DEF Expira, Tabla, Lease, Suelta, Clock
  <1>4. \A i \in Slots \ Libres(u) : u[i] = t[i] /\ i \notin Libres(t)
    <2> SUFFICES ASSUME NEW i \in Slots, u[i].estado # "free" PROVE u[i] = t[i]
      BY DEF Libres
    <2>1. Suelta(t[i]).estado = "free"
      BY DEF Suelta
    <2>2. QED
      BY <1>2, <2>1
  <1>5. ASSUME NEW m \in Macs PROVE Cubierta(u, n, q[m], m)
    <2> SUFFICES ASSUME q[m].resta > 0 PROVE \E i \in Slots : Cubre(u[i], n, q[m], m)
      BY DEF Cubierta
    <2>1. PICK i \in Slots : Cubre(t[i], n, q[m], m)
      BY DEF Sana, Cubierta
    <2>2. t[i] \in Lease /\ q[m] \in Promesa
      BY <1>1 DEF Tabla, Promesas
    <2>3. u[i] = t[i]
      BY <1>2, <2>1, <2>2, CubreVigente
    <2>4. QED
      BY <2>1, <2>3
  <1> HIDE DEF u
  <1>6. SinRepetir(u)
    BY <1>1, <1>4 DEF SinRepetir
  <1>7. QED
    BY <1>3, <1>5, <1>6 DEF Sana, u

LEMMA DeclinaConserva ==
  ASSUME NEW t, NEW n \in Clock, NEW q \in Promesas, Sana(t, n, q), NEW x \in Nat
  PROVE  Sana(Declina(t, x), n, q)
  <1> DEFINE donde == IF DeIp(t, x) # {} THEN DeIp(t, x) ELSE Libres(t)
             u == Declina(t, x)
  <1>1. t \in Tabla /\ SinRepetir(t)
    BY DEF Sana
  <1>2. ASSUME NEW i \in Slots, EsPrimera(donde, i)
        PROVE  Sana(u, n, q)
    <2> DEFINE l == [ip |-> x, mac |-> t[i].mac, expira |-> 0, estado |-> "bad"]
    <2>1. u = [t EXCEPT ![i] = l]
      <3>1. \A j \in Slots : EsPrimera(donde, j) => j = i
        BY <1>2 DEF EsPrimera, Slots
      <3>2. u = [j \in Slots |-> IF j = i THEN l ELSE t[j]]
        BY <1>2, <3>1 DEF Declina
      <3>3. QED
        BY <1>1, <3>2 DEF Tabla
    <2>2. l \in Lease
      BY <1>1, PlazosClock DEF Tabla, Lease
    <2>3. Solo(t, l.ip, i)
      <3> SUFFICES ASSUME NEW j \in Slots \ Libres(t), t[j].ip = x PROVE j = i
        BY DEF Solo
      <3>1. j \in DeIp(t, x)
        BY DEF DeIp
      <3>2. i \in DeIp(t, x)
        BY <1>2, <3>1 DEF EsPrimera
      <3>3. QED
        BY <1>1, <3>1, <3>2 DEF SinRepetir, DeIp
    <2>4. u \in Tabla /\ SinRepetir(u)
      <3> HIDE DEF l, u
      <3>1. QED
        BY <1>1, <2>1, <2>2, <2>3, EscribeUna
    <2>5. ASSUME NEW m \in Macs PROVE Cubierta(u, n, q[m], m)
      <3> SUFFICES ASSUME q[m].resta > 0 PROVE \E j \in Slots : Cubre(u[j], n, q[m], m)
        BY DEF Cubierta
      <3>1. PICK j \in Slots : Cubre(t[j], n, q[m], m)
        BY DEF Sana, Cubierta
      <3>2. CASE j # i
        <4>1. u[j] = t[j]
          BY <1>1, <2>1, <3>2 DEF Tabla
        <4>2. QED
          BY <3>1, <4>1
      <3>3. CASE j = i
        <4>1. t[i].estado # "free"
          BY <3>1, <3>3 DEF Cubre
        <4>2. i \in DeIp(t, x)
          BY <1>2, <4>1 DEF EsPrimera, Libres
        <4>3. u[i] = l /\ t[i].ip = x
          BY <1>1, <2>1, <4>2 DEF Tabla, DeIp
        <4>4. Cubre(u[i], n, q[m], m)
          BY <3>1, <3>3, <4>3 DEF Cubre
        <4>5. QED
          BY <4>4
      <3>4. QED
        BY <3>2, <3>3
    <2>6. QED
      BY <2>4, <2>5 DEF Sana
  <1>3. CASE ~\E i \in Slots : EsPrimera(donde, i)
    <2>1. u = t
      BY <1>1, <1>3 DEF Declina, Tabla
    <2>2. QED
      BY <2>1
  <1>4. QED
    BY <1>2, <1>3

LEMMA LiberaConserva ==
  ASSUME NEW t, NEW n \in Clock, NEW q \in Promesas, Sana(t, n, q),
         NEW m \in Macs, NEW x \in Nat, q[m].resta > 0 => q[m].ip # x
  PROVE  Sana(Libera(t, m, x), n, q)
  <1> DEFINE u == Libera(t, m, x)
  <1>1. t \in Tabla /\ SinRepetir(t)
    BY DEF Sana
  <1>2. \A i \in Slots : \/ u[i] = t[i]
                         \/ /\ u[i] = Suelta(t[i])
                            /\ t[i].estado # "bad" /\ t[i].ip = x /\ t[i].mac = m
    BY DEF Libera, EsPrimera
  <1>3. u \in Tabla
    BY <1>1 DEF Libera, Tabla, Lease, Suelta, Clock
  <1>4. \A i \in Slots \ Libres(u) : u[i] = t[i] /\ i \notin Libres(t)
    <2> SUFFICES ASSUME NEW i \in Slots, u[i].estado # "free" PROVE u[i] = t[i]
      BY DEF Libres
    <2>1. Suelta(t[i]).estado = "free"
      BY DEF Suelta
    <2>2. QED
      BY <1>2, <2>1
  <1>5. ASSUME NEW b \in Macs PROVE Cubierta(u, n, q[b], b)
    <2> SUFFICES ASSUME q[b].resta > 0 PROVE \E i \in Slots : Cubre(u[i], n, q[b], b)
      BY DEF Cubierta
    <2>1. PICK i \in Slots : Cubre(t[i], n, q[b], b)
      BY DEF Sana, Cubierta
    <2>2. u[i] = t[i]
      BY <1>2, <2>1 DEF Cubre
    <2>3. QED
      BY <2>1, <2>2
  <1> HIDE DEF u
  <1>6. SinRepetir(u)
    BY <1>1, <1>4 DEF SinRepetir
  <1>7. QED
    BY <1>3, <1>5, <1>6 DEF Sana, u

\* Slot i may be given to m, and address x to the slot, by the instant a.
Tomable(t, i, m, a) ==
  /\ t[i].estado # "bad"
  /\ \/ t[i].mac = m
     \/ t[i].estado = "free"
     \/ ~Vigente(t[i], a)

\* Every client but m is covered, and holds another address than x.
Demas(t, n, q, m, x) ==
  \A b \in Macs \ {m} : /\ Cubierta(t, n, q[b], b)
                        /\ q[b].resta > 0 => q[b].ip # x

\* Giving it leaves every other client covered, and none of them holds x.
LEMMA TomaConserva ==
  ASSUME NEW t \in Tabla, NEW n \in Clock, NEW q \in Promesas, Sana(t, n, q),
         NEW a \in Clock, Edad(n, a) <= MaxArp,
         NEW i \in Slots, NEW m \in Macs, Tomable(t, i, m, a),
         NEW l \in Lease, Solo(t, l.ip, i),
         NEW u \in Tabla, u = Escrita(t, i, l)
  PROVE  /\ SinRepetir(u)
         /\ u[i] = l
         /\ Demas(u, n, q, m, l.ip)
  <1>1. t \in Tabla /\ SinRepetir(t)
    BY DEF Sana
  <1>2. u \in Tabla /\ SinRepetir(u)
    BY <1>1, EscribeUna DEF Escrita
  <1>3. u[i] = l /\ \A j \in Slots \ {i} : u[j] = t[j]
    BY <1>1 DEF Tabla, Escrita
  <1>4. ASSUME NEW b \in Macs, b # m, q[b].resta > 0
        PROVE  Cubierta(u, n, q[b], b) /\ q[b].ip # l.ip
    <2>1. PICK j \in Slots : Cubre(t[j], n, q[b], b)
      BY <1>4 DEF Sana, Cubierta
    <2>2. q[b] \in Promesa
      BY DEF Promesas
    <2>3. i # j
      <3>1. t[i].estado # "bad" /\ (t[i].mac = m \/ t[i].estado = "free" \/ ~Vigente(t[i], a))
        BY DEF Tomable
      <3>2. QED
        BY <1>1, <1>4, <2>1, <2>2, <3>1, CubreOtra
    <2>4. Cubre(u[j], n, q[b], b)
      BY <1>3, <2>1, <2>3
    <2>5. j \notin Libres(t) /\ t[j].ip = q[b].ip
      BY <2>1 DEF Cubre, Libres
    <2>6. QED
      BY <2>3, <2>4, <2>5 DEF Cubierta, Solo
  <1>5. Demas(u, n, q, m, l.ip)
    <2> SUFFICES ASSUME NEW b \in Macs, b # m
                 PROVE  Cubierta(u, n, q[b], b) /\ (q[b].resta > 0 => q[b].ip # l.ip)
      BY DEF Demas
    <2>1. CASE q[b].resta > 0
      BY <1>4, <2>1
    <2>2. CASE ~(q[b].resta > 0)
      BY <2>2 DEF Cubierta
    <2>3. QED
      BY <2>1, <2>2
  <1>6. QED
    BY <1>2, <1>3, <1>5

Reservada(t, x, m, a) ==
  \E i \in Slots : t[i] = [ip |-> x, mac |-> m, expira |-> Suma(a, OFFER_RESERVE),
                           estado |-> "offered"]

LEMMA OfertaConserva ==
  ASSUME NEW t, NEW n \in Clock, NEW q \in Promesas, Sana(t, n, q),
         NEW a \in Clock, Edad(n, a) <= MaxArp,
         NEW p \in Pool, NEW m \in Macs, NEW y \in Nat, q[m].resta = 0,
         NEW o \in Ofertas(t, p, m, y, a)
  PROVE  /\ Sana(o.tabla, n, q)
         /\ o.ip \in Nat
         /\ o.ip # 0 => Reservada(o.tabla, o.ip, m, a)
  <1>1. t \in Tabla /\ SinRepetir(t)
    BY DEF Sana
  <1>2. CASE o.ip = 0 /\ o.tabla = t
    BY <1>2
  <1>3. CASE ~(o.ip = 0 /\ o.tabla = t)
    <2>1. PICK i \in Slots :
              /\ o.tabla = Reserva(t, i, o.ip, m, a)
              /\ o.ip \in Nat
              /\ t[i].estado # "bad"
              /\ \/ t[i].mac = m
                 \/ t[i].estado = "free"
                 \/ ~Vigente(t[i], a)
              /\ \A j \in Slots \ Libres(t) : t[j].ip = o.ip => j = i
      BY <1>1, <1>3, OfertaForma
    <2> DEFINE l == [ip |-> o.ip, mac |-> m, expira |-> Suma(a, OFFER_RESERVE),
                     estado |-> "offered"]
    <2>2. l \in Lease
      BY <2>1, SumaClock, PlazosClock DEF Lease
    <2>3. o.tabla = Escrita(t, i, l)
      BY <2>1 DEF Reserva, Escrita
    <2>4. Tomable(t, i, m, a)
      BY <2>1 DEF Tomable
    <2>5. Solo(t, l.ip, i)
      BY <2>1 DEF Solo
    <2>20. o.tabla \in Tabla
      BY <1>1, <2>2, <2>3 DEF Tabla, Escrita
    <2> HIDE DEF l
    <2>6. /\ SinRepetir(o.tabla)
          /\ o.tabla[i] = l
          /\ Demas(o.tabla, n, q, m, l.ip)
      BY <1>1, <2>2, <2>3, <2>4, <2>5, <2>20, TomaConserva
    <2>7. Cubierta(o.tabla, n, q[m], m)
      BY DEF Cubierta
    <2>8. Sana(o.tabla, n, q)
      BY <2>6, <2>7, <2>20 DEF Sana, Demas
    <2>9. Reservada(o.tabla, o.ip, m, a)
      BY <2>6 DEF Reservada, l
    <2>10. QED
      BY <2>1, <2>8, <2>9
  <1>4. QED
    BY <1>2, <1>3

\* The confirmed lease covers what its client held before, in case the ACK is
\* lost, and what the ACK promises.
LEMMA ConfirmaConserva ==
  ASSUME NEW t, NEW n \in Clock, NEW q \in Promesas, Sana(t, n, q),
         NEW p \in Pool, NEW m \in Macs, NEW x \in Nat,
         NEW i \in Confirmables(t, p, m, x, n)
  PROVE  /\ Sana(Confirma(t, i, x, m, n), n, q)
         /\ Sana(Confirma(t, i, x, m, n), n, [q EXCEPT ![m] = [ip |-> x, resta |-> LEASE]])
         /\ \A b \in Macs \ {m} : q[b].resta > 0 => q[b].ip # x
  <1> DEFINE l == [ip |-> x, mac |-> m, expira |-> Suma(n, LEASE), estado |-> "bound"]
             u == Confirma(t, i, x, m, n)
             r == [q EXCEPT ![m] = [ip |-> x, resta |-> LEASE]]
  <1>1. t \in Tabla /\ SinRepetir(t)
    BY DEF Sana
  <1>2. /\ i \in Slots
        /\ t[i].estado # "bad"
        /\ \/ t[i].mac = m /\ t[i].ip = x
           \/ t[i].estado = "free"
           \/ ~Vigente(t[i], n)
        /\ \A j \in Slots \ Libres(t) : t[j].ip = x => j = i
    BY <1>1, ConfirmaForma
  <1>3. l \in Lease
    BY SumaClock, PlazosClock DEF Lease
  <1>4. u = Escrita(t, i, l)
    BY DEF Confirma, Escrita
  <1>5. Tomable(t, i, m, n)
    BY <1>2 DEF Tomable
  <1>6. Solo(t, l.ip, i)
    BY <1>2 DEF Solo
  <1>7. Edad(n, n) <= MaxArp
    BY DEF Edad, Clock
  <1>20. u \in Tabla
    BY <1>1, <1>3, <1>4 DEF Tabla, Escrita
  <1>21. i \in Slots
    BY <1>2
  <1> HIDE DEF l, u
  <1>8. /\ SinRepetir(u)
        /\ u[i] = l
        /\ Demas(u, n, q, m, l.ip)
    BY <1>1, <1>3, <1>4, <1>5, <1>6, <1>7, <1>20, <1>21, TomaConserva
  <1>9. l.ip = x /\ l.mac = m /\ l.expira = Suma(n, LEASE) /\ l.estado = "bound"
    BY DEF l
  <1>10. Edad(Suma(n, LEASE), n) = LEASE
    BY EdadSuma, PlazosClock
  <1>11. Cubierta(u, n, q[m], m)
    <2> SUFFICES ASSUME q[m].resta > 0 PROVE \E j \in Slots : Cubre(u[j], n, q[m], m)
      BY DEF Cubierta
    <2>1. PICK j \in Slots : Cubre(t[j], n, q[m], m)
      BY DEF Sana, Cubierta
    <2>2. CASE j # i
      BY <1>1, <1>4, <2>1, <2>2 DEF Tabla, Escrita
    <2>3. CASE j = i
      <3>1. t[i] \in Lease /\ q[m] \in Promesa
        BY <1>1, <1>2 DEF Tabla, Promesas
      <3>2. Vigente(t[i], n)
        BY <1>2, <2>1, <2>3, <3>1, CubreVigente
      <3>3. /\ t[i].ip = x /\ q[m].ip = x
            /\ q[m].resta <= Edad(t[i].expira, n)
            /\ Edad(t[i].expira, n) <= LEASE
        BY <1>2, <2>1, <2>3, <3>2 DEF Cubre
      <3>4. q[m].resta <= LEASE
        BY <3>1, <3>3 DEF Edad, Clock, Lease, Promesa
      <3>5. Cubre(u[i], n, q[m], m)
        BY <1>8, <1>9, <1>10, <3>3, <3>4 DEF Cubre
      <3>6. QED
        BY <1>2, <3>5
    <2>4. QED
      BY <2>2, <2>3
  <1>12. Sana(u, n, q)
    BY <1>8, <1>11, <1>20 DEF Sana, Demas
  <1>13. ASSUME NEW b \in Macs PROVE Cubierta(u, n, r[b], b)
    <2>1. CASE b = m
      <3>1. r[b] = [ip |-> x, resta |-> LEASE]
        BY <2>1 DEF Promesas
      <3>2. Cubre(u[i], n, r[b], b)
        BY <1>8, <1>9, <1>10, <2>1, <3>1 DEF Cubre
      <3>3. QED
        BY <1>2, <3>2 DEF Cubierta
    <2>2. CASE b # m
      <3>1. r[b] = q[b]
        BY <2>2 DEF Promesas
      <3>2. QED
        BY <1>8, <2>2, <3>1 DEF Demas
    <2>3. QED
      BY <2>1, <2>2
  <1> HIDE DEF r
  <1>14. Sana(u, n, r)
    BY <1>8, <1>13, <1>20 DEF Sana
  <1>15. QED
    BY <1>8, <1>9, <1>12, <1>14 DEF u, r, Demas

-----------------------------------------------------------------------------
\* What the clients hold.

Separadas(q) ==
  \A a, b \in Macs : q[a].resta > 0 /\ q[b].resta > 0 /\ q[a].ip = q[b].ip => a = b

\* No client but m holds address x.
Ajena(q, m, x) == \A b \in Macs \ {m} : q[b].resta > 0 => q[b].ip # x

LEMMA PromesaNueva ==
  ASSUME NEW q \in Promesas, Separadas(q), NEW m \in Macs, NEW v \in Promesa,
         v.resta > 0 => Ajena(q, m, v.ip)
  PROVE  /\ [q EXCEPT ![m] = v] \in Promesas
         /\ Separadas([q EXCEPT ![m] = v])
  <1> DEFINE r == [q EXCEPT ![m] = v]
  <1>1. r \in Promesas /\ r[m] = v /\ \A b \in Macs \ {m} : r[b] = q[b]
    BY DEF Promesas
  <1> HIDE DEF r
  <1>2. Separadas(r)
    BY <1>1 DEF Separadas, Ajena
  <1>3. QED
    BY <1>1, <1>2 DEF r

LEMMA RenunciaConserva ==
  ASSUME NEW t, NEW n \in Clock, NEW q \in Promesas, Sana(t, n, q), NEW m \in Macs
  PROVE  Sana(t, n, [q EXCEPT ![m] = NadaPrometido])
  <1> DEFINE r == [q EXCEPT ![m] = NadaPrometido]
  <1>1. r[m].resta = 0 /\ \A b \in Macs \ {m} : r[b] = q[b]
    BY DEF Promesas, NadaPrometido
  <1> HIDE DEF r
  <1>2. ASSUME NEW b \in Macs PROVE Cubierta(t, n, r[b], b)
    BY <1>1 DEF Sana, Cubierta
  <1>3. QED
    BY <1>2 DEF Sana, r

LEMMA ArpConserva ==
  ASSUME NEW t, NEW n \in Clock, NEW q \in Promesas, Sana(t, n, q),
         NEW a \in Clock, Edad(n, a) <= MaxArp, NEW m \in Macs, NEW x \in Nat,
         Reservada(t, x, m, a),
         NEW v \in Promesa, v = [ip |-> x, resta |-> OFFER_RESERVE - Edad(n, a)]
  PROVE  /\ Sana(t, n, [q EXCEPT ![m] = v])
         /\ Ajena(q, m, x)
  <1> DEFINE r == [q EXCEPT ![m] = v]
  <1>1. r[m] = v /\ \A b \in Macs \ {m} : r[b] = q[b]
    BY DEF Promesas
  <1> HIDE DEF r
  <1>2. PICK i \in Slots : t[i] = [ip |-> x, mac |-> m, expira |-> Suma(a, OFFER_RESERVE),
                                   estado |-> "offered"]
    BY DEF Reservada
  <1>3. /\ t[i].ip = x /\ t[i].mac = m /\ t[i].estado = "offered"
        /\ t[i].expira = Suma(a, OFFER_RESERVE)
    BY <1>2
  <1>4. Edad(n, a) <= OFFER_RESERVE
    BY DEF Edad, Clock
  <1>5. Edad(t[i].expira, n) = OFFER_RESERVE - Edad(n, a)
    BY <1>3, <1>4, EdadDespues, PlazosClock
  <1>6. OFFER_RESERVE - Edad(n, a) <= LEASE /\ v.resta <= OFFER_RESERVE - Edad(n, a)
    BY DEF Edad, Clock
  <1>7. Cubre(t[i], n, v, m)
    BY <1>3, <1>5, <1>6 DEF Cubre
  <1>8. ASSUME NEW b \in Macs PROVE Cubierta(t, n, r[b], b)
    BY <1>1, <1>7 DEF Sana, Cubierta
  <1>9. ASSUME NEW b \in Macs \ {m}, q[b].resta > 0 PROVE q[b].ip # x
    <2>1. PICK j \in Slots : Cubre(t[j], n, q[b], b)
      BY <1>9 DEF Sana, Cubierta
    <2>2. i \notin Libres(t) /\ j \notin Libres(t)
      BY <1>3, <2>1 DEF Cubre, Libres
    <2>3. i # j
      BY <1>3, <2>1 DEF Cubre
    <2>4. QED
      BY <1>3, <2>1, <2>2, <2>3 DEF Sana, SinRepetir, Cubre
  <1>10. QED
    BY <1>8, <1>9 DEF Sana, Ajena, r

LEMMA TickConserva ==
  ASSUME NEW t, NEW n \in Clock, NEW q \in Promesas, Sana(t, n, q), Separadas(q),
         NEW r, r = [m \in Macs |-> [q[m] EXCEPT !.resta = IF @ = 0 THEN 0 ELSE @ - 1]]
  PROVE  r \in Promesas /\ Sana(t, Suma(n, 1), r) /\ Separadas(r)
  <1>1. ASSUME NEW m \in Macs
        PROVE  /\ r[m] \in Promesa /\ r[m].ip = q[m].ip
               /\ r[m].resta > 0 => q[m].resta > 0 /\ r[m].resta = q[m].resta - 1
    <2>1. q[m] \in Promesa
      BY DEF Promesas
    <2>2. q[m].ip \in Nat /\ q[m].resta \in 0 .. ClockMod \div 2
      BY <2>1 DEF Promesa
    <2>3. /\ r[m].ip = q[m].ip
          /\ r[m].resta = IF q[m].resta = 0 THEN 0 ELSE q[m].resta - 1
          /\ r[m] = [q[m] EXCEPT !.resta = r[m].resta]
      BY <2>1 DEF Promesa
    <2>4. r[m].resta \in 0 .. ClockMod \div 2
      BY <2>2, <2>3
    <2>5. r[m] \in Promesa
      BY <2>1, <2>3, <2>4 DEF Promesa
    <2>6. QED
      BY <2>2, <2>3, <2>5
  <1>2. r \in Promesas
    BY <1>1 DEF Promesas
  <1>3. Separadas(r)
    BY <1>1 DEF Separadas
  <1>4. ASSUME NEW m \in Macs, r[m].resta > 0
        PROVE  \E i \in Slots : Cubre(t[i], Suma(n, 1), r[m], m)
    <2>1. q[m].resta > 0 /\ r[m].resta = q[m].resta - 1
      BY <1>1, <1>4
    <2>2. PICK i \in Slots : Cubre(t[i], n, q[m], m)
      BY <2>1 DEF Sana, Cubierta
    <2>3. CASE t[i].estado = "bad"
      BY <1>1, <2>2, <2>3 DEF Cubre
    <2>4. CASE t[i].estado # "bad"
      <3>1. t[i].expira \in Clock /\ q[m] \in Promesa
        BY DEF Sana, Tabla, Lease, Promesas
      <3>2. /\ t[i].ip = q[m].ip /\ t[i].estado \in {"offered", "bound"} /\ t[i].mac = m
            /\ q[m].resta <= Edad(t[i].expira, n)
            /\ Edad(t[i].expira, n) <= LEASE
        BY <2>2, <2>4 DEF Cubre
      <3>3. Edad(t[i].expira, n) > 0 /\ Edad(t[i].expira, n) \in Int /\ q[m].resta \in Int
        BY <2>1, <3>1, <3>2 DEF Edad, Clock, Promesa
      <3>4. Edad(t[i].expira, Suma(n, 1)) = Edad(t[i].expira, n) - 1
        BY <3>1, <3>3, EdadTick
      <3>5. /\ r[m].resta <= Edad(t[i].expira, Suma(n, 1))
            /\ Edad(t[i].expira, Suma(n, 1)) <= LEASE
        BY <2>1, <3>2, <3>3, <3>4
      <3>6. Cubre(t[i], Suma(n, 1), r[m], m)
        BY <1>1, <3>2, <3>5 DEF Cubre
      <3>7. QED
        BY <3>6
    <2>5. QED
      BY <2>3, <2>4
  <1>5. Sana(t, Suma(n, 1), r)
    BY <1>4 DEF Sana, Cubierta
  <1>6. QED
    BY <1>2, <1>3, <1>5

-----------------------------------------------------------------------------
\* The server starts.

LEMMA PoolDePool ==
  ASSUME NEW r \in Rangos
  PROVE  PoolDe(r) \in Pool
  <1>1. r[1] \in Nat /\ r[2] \in Nat
    OBVIOUS
  <1>2. QED
    BY <1>1 DEF PoolDe, Pool

LEMMA TablaVaciaSana ==
  /\ TablaVacia \in Tabla
  /\ \A n \in Clock : Sana(TablaVacia, n, [m \in Macs |-> NadaPrometido])
  /\ Separadas([m \in Macs |-> NadaPrometido])
  /\ [m \in Macs |-> NadaPrometido] \in Promesas
  <1>1. TablaVacia \in Tabla
    BY PlazosClock DEF TablaVacia, Tabla, Lease
  <1>2. SinRepetir(TablaVacia)
    BY DEF SinRepetir, TablaVacia, Libres
  <1>3. ASSUME NEW n \in Clock PROVE Sana(TablaVacia, n, [m \in Macs |-> NadaPrometido])
    BY <1>1, <1>2 DEF Sana, Cubierta, NadaPrometido
  <1>4. Separadas([m \in Macs |-> NadaPrometido])
    BY DEF Separadas, NadaPrometido
  <1>5. [m \in Macs |-> NadaPrometido] \in Promesas
    BY DEF Promesas, Promesa, NadaPrometido
  <1>6. QED
    BY <1>1, <1>3, <1>4, <1>5

-----------------------------------------------------------------------------
\* The inductive invariant: no two clients hold an address, the table covers
\* what they hold and has one entry for each address, and what the task knows
\* of the request it handles is still so.
Invariante ==
  /\ TypeOK
  /\ Sana(tabla, now, promesa)
  /\ Separadas(promesa)
  /\ Sondeo
  /\ EnCurso

LEMMA InicioInvariante ==
  Init => Invariante
  <1> SUFFICES ASSUME Init PROVE Invariante
    OBVIOUS
  <1> USE DEF Init
  <1>1. pool \in Pool
    <2>1. PICK r \in Rangos : pool = PoolDe(r)
      OBVIOUS
    <2>2. QED
      BY <2>1, PoolDePool
  <1>2. tabla \in Tabla
    BY TablaVaciaSana
  <1>3. promesa \in Promesas
    BY DEF Promesas, Promesa, NadaPrometido
  <1>4. TypeOK
    BY <1>1, <1>2, <1>3, PlazosClock DEF TypeOK, Tabla, Promesas
  <1>5. Sana(tabla, now, promesa) /\ Separadas(promesa)
    BY TablaVaciaSana, PlazosClock
  <1>6. Sondeo /\ EnCurso
    BY DEF Sondeo, EnCurso
  <1>7. QED
    BY <1>4, <1>5, <1>6 DEF Invariante

\* A pass over the table that comes before the task waits, or at its end.
LEMMA MantieneInvariante ==
  Invariante /\ Mantiene => Invariante'
  <1> SUFFICES ASSUME Invariante, Mantiene PROVE Invariante'
    OBVIOUS
  <1> USE DEF Mantiene
  <1>1. Sana(tabla', now', promesa')
    BY ExpiraConserva DEF Invariante, TypeOK, Promesas
  <1>2. TypeOK'
    BY <1>1 DEF Invariante, TypeOK, Sana, Tabla
  <1>3. Separadas(promesa') /\ Sondeo' /\ EnCurso'
    BY DEF Invariante, Separadas, Sondeo, EnCurso
  <1>4. QED
    BY <1>1, <1>2, <1>3 DEF Invariante

LEMMA RecibeInvariante ==
  ASSUME NEW m \in Macs, NEW tipo \in Tipos, NEW cual \in Pedidas
  PROVE  Invariante /\ Recibe(m, tipo, cual) => Invariante'
  <1> SUFFICES ASSUME Invariante, Recibe(m, tipo, cual) PROVE Invariante'
    OBVIOUS
  <1> USE DEF Recibe
  <1>1. cual \in Nat /\ promesa \in Promesas /\ now \in Clock
    BY DEF Invariante, TypeOK, Promesas
  <1>2. Sana(tabla', now, promesa)
    BY <1>1, ExpiraConserva DEF Invariante
  <1>3. CASE Renuncia(m)
    <2>1. promesa' = [promesa EXCEPT ![m] = NadaPrometido]
      BY <1>3 DEF Renuncia
    <2>2. NadaPrometido \in Promesa /\ ~(NadaPrometido.resta > 0)
      BY DEF NadaPrometido, Promesa
    <2>3. Sana(tabla', now', promesa')
      BY <1>1, <1>2, <2>1, RenunciaConserva
    <2>4. promesa' \in Promesas /\ Separadas(promesa')
      BY <1>1, <2>1, <2>2, PromesaNueva DEF Invariante
    <2>5. promesa'[m].resta = 0
      BY <1>1, <2>1 DEF Promesas, NadaPrometido
    <2>6. pet' = [tipo |-> tipo, mac |-> m, ip |-> cual] /\ pc' = "procesa"
      OBVIOUS
    <2>7. TypeOK'
      BY <1>1, <2>3, <2>4, <2>6 DEF Invariante, TypeOK, Sana, Tabla, Promesas, Peticion
    <2>8. Sondeo' /\ EnCurso'
      BY <2>5, <2>6 DEF Sondeo, EnCurso
    <2>9. QED
      BY <2>3, <2>4, <2>7, <2>8 DEF Invariante
  <1>4. CASE promesa' = promesa /\ tipo \notin {"discover", "ajeno"}
             /\ (tipo = "request" \/ promesa[m].ip # cual)
    <2>1. pet' = [tipo |-> tipo, mac |-> m, ip |-> cual] /\ pc' = "procesa"
      OBVIOUS
    <2>2. TypeOK'
      BY <1>1, <1>2, <1>4, <2>1 DEF Invariante, TypeOK, Sana, Tabla, Promesas, Peticion
    <2>3. Sondeo' /\ EnCurso'
      BY <1>4, <2>1 DEF Sondeo, EnCurso
    <2>4. QED
      BY <1>2, <1>4, <2>2, <2>3 DEF Invariante
  <1>5. QED
    BY <1>3, <1>4

\* After procesar.
LEMMA VuelveInvariante ==
  ASSUME Invariante, Vuelve, now' = now, pool' = pool,
         promesa' \in Promesas, Sana(tabla', now, promesa'), Separadas(promesa')
  PROVE  Invariante'
  <1> USE DEF Vuelve
  <1>1. TypeOK'
    BY PlazosClock DEF Invariante, TypeOK, Sana, Tabla, Promesas
  <1>2. Sondeo' /\ EnCurso'
    BY DEF Sondeo, EnCurso
  <1>3. QED
    BY <1>1, <1>2 DEF Invariante

LEMMA DiscoverInvariante ==
  Invariante /\ Discover => Invariante'
  <1> SUFFICES ASSUME Invariante, Discover PROVE Invariante'
    OBVIOUS
  <1>1. PICK o \in Ofertas(tabla, pool, pet.mac, pet.ip, now) :
          /\ tabla' = o.tabla
          /\ IF o.ip = 0 THEN Vuelve
             ELSE pc' = "arp1" /\ ip' = o.ip /\ ahora' = now /\ UNCHANGED pet
    BY DEF Discover
  <1>2. /\ pc = "procesa" /\ pet.tipo = "discover"
        /\ now' = now /\ pool' = pool /\ promesa' = promesa
    BY DEF Discover
  <1>3. pet \in Peticion /\ now \in Clock /\ pool \in Pool /\ promesa \in Promesas
    BY <1>2 DEF Invariante, TypeOK, Promesas
  <1>4. pet.mac \in Macs /\ pet.ip \in Nat /\ promesa[pet.mac].resta = 0
    BY <1>2, <1>3 DEF Peticion, Invariante, EnCurso
  <1>5. Edad(now, now) = 0 /\ Edad(now, now) <= MaxArp
    BY <1>3 DEF Edad, Clock
  <1>6. /\ Sana(o.tabla, now, promesa)
        /\ o.ip \in Nat
        /\ o.ip # 0 => Reservada(o.tabla, o.ip, pet.mac, now)
    BY <1>3, <1>4, <1>5, OfertaConserva DEF Invariante
  <1>7. CASE o.ip = 0
    BY <1>1, <1>2, <1>3, <1>6, <1>7, VuelveInvariante DEF Invariante
  <1>8. CASE o.ip # 0
    <2>1. pc' = "arp1" /\ ip' = o.ip /\ ahora' = now /\ pet' = pet
      BY <1>1, <1>8
    <2>2. TypeOK'
      BY <1>1, <1>2, <1>3, <1>6, <2>1 DEF Invariante, TypeOK, Sana, Tabla
    <2>3. Sondeo'
      <3>1. Reservada(tabla', ip', pet'.mac, ahora')
        BY <1>1, <1>6, <1>8, <2>1
      <3>2. QED
        BY <1>2, <1>5, <2>1, <3>1 DEF Sondeo, Reservada
    <2>4. EnCurso'
      BY <1>2, <1>4, <2>1 DEF EnCurso
    <2>5. QED
      BY <1>1, <1>2, <1>6, <2>2, <2>3, <2>4 DEF Invariante
  <1>9. QED
    BY <1>7, <1>8

LEMMA ArpLibreInvariante ==
  Invariante /\ ArpLibre => Invariante'
  <1> SUFFICES ASSUME Invariante, ArpLibre PROVE Invariante'
    OBVIOUS
  <1> DEFINE v == [ip |-> ip, resta |-> OFFER_RESERVE - Edad(now, ahora)]
  <1>1. /\ pc \in {"arp1", "arp2"}
        /\ Vuelve
        /\ promesa' = promesa \/ promesa' = [promesa EXCEPT ![pet.mac] = v]
        /\ now' = now /\ pool' = pool /\ tabla' = tabla
    BY DEF ArpLibre
  <1>2. /\ pet \in Peticion /\ now \in Clock /\ ahora \in Clock /\ ip \in Nat
        /\ promesa \in Promesas
    BY <1>1 DEF Invariante, TypeOK, Promesas
  <1>3. Edad(now, ahora) <= MaxArp /\ Reservada(tabla, ip, pet.mac, ahora)
    BY <1>1 DEF Invariante, Sondeo, Reservada
  <1>4. pet.mac \in Macs
    BY <1>2 DEF Peticion
  <1>5. v \in Promesa /\ v.ip = ip
    <2>1. Edad(now, ahora) \in Nat /\ Edad(now, ahora) <= OFFER_RESERVE
      BY <1>2, <1>3 DEF Edad, Clock
    <2>2. OFFER_RESERVE - Edad(now, ahora) \in 0 .. ClockMod \div 2
      BY <2>1
    <2>3. QED
      BY <1>2, <2>2 DEF Promesa
  <1>6. CASE promesa' = promesa
    BY <1>1, <1>2, <1>6, VuelveInvariante DEF Invariante
  <1>7. CASE promesa' = [promesa EXCEPT ![pet.mac] = v]
    <2>1. Sana(tabla, now, promesa) /\ Separadas(promesa)
      BY DEF Invariante
    <2>2. Sana(tabla, now, promesa') /\ Ajena(promesa, pet.mac, ip)
      BY <1>2, <1>3, <1>4, <1>5, <1>7, <2>1, ArpConserva
    <2>3. v.resta > 0 => Ajena(promesa, pet.mac, v.ip)
      BY <1>5, <2>2
    <2> HIDE DEF v
    <2>4. promesa' \in Promesas /\ Separadas(promesa')
      BY <1>2, <1>4, <1>5, <1>7, <2>1, <2>3, PromesaNueva
    <2>5. QED
      BY <1>1, <2>2, <2>4, VuelveInvariante
  <1>8. QED
    BY <1>1, <1>6, <1>7

LEMMA ArpOcupadaInvariante ==
  Invariante /\ ArpOcupada => Invariante'
  <1> SUFFICES ASSUME Invariante, ArpOcupada PROVE Invariante'
    OBVIOUS
  <1>1. PICK o \in Ofertas(Declina(tabla, ip), pool, pet.mac, 0, ahora) :
          /\ tabla' = o.tabla
          /\ IF o.ip = 0 THEN Vuelve
             ELSE pc' = "arp2" /\ ip' = o.ip /\ UNCHANGED <<pet, ahora>>
    BY DEF ArpOcupada
  <1>2. pc = "arp1" /\ now' = now /\ pool' = pool /\ promesa' = promesa
    BY DEF ArpOcupada
  <1>3. /\ pet \in Peticion /\ now \in Clock /\ ahora \in Clock /\ pool \in Pool
        /\ ip \in Nat /\ promesa \in Promesas
    BY <1>2 DEF Invariante, TypeOK, Promesas
  <1>4. pet.tipo = "discover" /\ pet.mac \in Macs /\ promesa[pet.mac].resta = 0
    BY <1>2, <1>3 DEF Peticion, Invariante, EnCurso
  <1>5. Edad(now, ahora) <= MaxArp
    BY <1>2 DEF Invariante, Sondeo
  <1>6. Sana(Declina(tabla, ip), now, promesa)
    BY <1>3, DeclinaConserva DEF Invariante
  <1>7. /\ Sana(o.tabla, now, promesa)
        /\ o.ip \in Nat
        /\ o.ip # 0 => Reservada(o.tabla, o.ip, pet.mac, ahora)
    BY <1>3, <1>4, <1>5, <1>6, OfertaConserva
  <1>8. CASE o.ip = 0
    BY <1>1, <1>2, <1>3, <1>7, <1>8, VuelveInvariante DEF Invariante
  <1>9. CASE o.ip # 0
    <2>1. pc' = "arp2" /\ ip' = o.ip /\ ahora' = ahora /\ pet' = pet
      BY <1>1, <1>9
    <2>2. TypeOK'
      BY <1>1, <1>2, <1>3, <1>7, <2>1 DEF Invariante, TypeOK, Sana, Tabla
    <2>3. Sondeo'
      <3>1. Reservada(tabla', ip', pet'.mac, ahora')
        BY <1>1, <1>7, <1>9, <2>1
      <3>2. QED
        BY <1>2, <1>5, <2>1, <3>1 DEF Sondeo, Reservada
    <2>4. EnCurso'
      BY <1>2, <1>4, <2>1 DEF EnCurso
    <2>5. QED
      BY <1>1, <1>2, <1>7, <2>2, <2>3, <2>4 DEF Invariante
  <1>10. QED
    BY <1>8, <1>9

LEMMA ArpOcupadaOtraVezInvariante ==
  Invariante /\ ArpOcupadaOtraVez => Invariante'
  <1> SUFFICES ASSUME Invariante, ArpOcupadaOtraVez PROVE Invariante'
    OBVIOUS
  <1> USE DEF ArpOcupadaOtraVez
  <1>1. ip \in Nat /\ now \in Clock /\ promesa \in Promesas
    BY DEF Invariante, TypeOK, Promesas
  <1>2. Sana(tabla', now, promesa)
    BY <1>1, DeclinaConserva DEF Invariante
  <1>3. QED
    BY <1>1, <1>2, VuelveInvariante DEF Invariante

LEMMA RequestAckInvariante ==
  Invariante /\ RequestAck => Invariante'
  <1> SUFFICES ASSUME Invariante, RequestAck PROVE Invariante'
    OBVIOUS
  <1> DEFINE v == [ip |-> pet.ip, resta |-> LEASE]
  <1>1. /\ pc = "procesa" /\ Vuelve /\ now' = now /\ pool' = pool
        /\ promesa' = promesa \/ promesa' = [promesa EXCEPT ![pet.mac] = v]
    BY DEF RequestAck
  <1>2. PICK i \in Confirmables(tabla, pool, pet.mac, pet.ip, now) :
          tabla' = Confirma(tabla, i, pet.ip, pet.mac, now)
    BY DEF RequestAck
  <1>3. pet \in Peticion /\ now \in Clock /\ pool \in Pool /\ promesa \in Promesas
    BY <1>1 DEF Invariante, TypeOK, Promesas
  <1>4. pet.mac \in Macs /\ pet.ip \in Nat
    BY <1>3 DEF Peticion
  <1>5. /\ Sana(tabla', now, promesa)
        /\ Sana(tabla', now, [promesa EXCEPT ![pet.mac] = v])
        /\ Ajena(promesa, pet.mac, pet.ip)
    BY <1>2, <1>3, <1>4, ConfirmaConserva DEF Invariante, Ajena
  <1>6. v \in Promesa /\ v.ip = pet.ip
    BY <1>4 DEF Promesa
  <1> HIDE DEF v
  <1>7. [promesa EXCEPT ![pet.mac] = v] \in Promesas
        /\ Separadas([promesa EXCEPT ![pet.mac] = v])
    BY <1>3, <1>4, <1>5, <1>6, PromesaNueva DEF Invariante
  <1>8. promesa' \in Promesas /\ Sana(tabla', now, promesa') /\ Separadas(promesa')
    BY <1>1, <1>3, <1>5, <1>7 DEF Invariante
  <1>9. QED
    BY <1>1, <1>8, VuelveInvariante

\* The requests that are refused or are for another server change nothing.
LEMMA SinCambioInvariante ==
  Invariante /\ (RequestNak \/ RequestAjeno) => Invariante'
  <1> SUFFICES ASSUME Invariante, RequestNak \/ RequestAjeno PROVE Invariante'
    OBVIOUS
  <1>1. /\ Vuelve /\ now' = now /\ pool' = pool /\ tabla' = tabla
        /\ promesa' = promesa
    BY DEF RequestNak, RequestAjeno
  <1>2. QED
    BY <1>1, VuelveInvariante DEF Invariante, TypeOK, Promesas

LEMMA ReleaseInvariante ==
  Invariante /\ Release => Invariante'
  <1> SUFFICES ASSUME Invariante, Release PROVE Invariante'
    OBVIOUS
  <1> USE DEF Release
  <1>1. pet \in Peticion /\ now \in Clock /\ promesa \in Promesas
    BY DEF Invariante, TypeOK, Promesas
  <1>2. pet.mac \in Macs /\ pet.ip \in Nat
    BY <1>1 DEF Peticion
  <1>3. promesa[pet.mac].resta > 0 => promesa[pet.mac].ip # pet.ip
    BY DEF Invariante, EnCurso
  <1>4. Sana(tabla', now, promesa)
    BY <1>1, <1>2, <1>3, LiberaConserva DEF Invariante
  <1>5. QED
    BY <1>1, <1>4, VuelveInvariante DEF Invariante

LEMMA DeclineInvariante ==
  Invariante /\ Decline => Invariante'
  <1> SUFFICES ASSUME Invariante, Decline PROVE Invariante'
    OBVIOUS
  <1> USE DEF Decline
  <1>1. pet \in Peticion /\ now \in Clock /\ promesa \in Promesas
    BY DEF Invariante, TypeOK, Promesas
  <1>2. pet.ip \in Nat
    BY <1>1 DEF Peticion
  <1>3. Sana(tabla', now, promesa)
    BY <1>1, <1>2, DeclinaConserva DEF Invariante
  <1>4. QED
    BY <1>1, <1>3, VuelveInvariante DEF Invariante

LEMMA TickInvariante ==
  Invariante /\ Tick => Invariante'
  <1> SUFFICES ASSUME Invariante, Tick PROVE Invariante'
    OBVIOUS
  <1> USE DEF Tick
  <1>1. now \in Clock /\ ahora \in Clock /\ promesa \in Promesas
    BY DEF Invariante, TypeOK, Promesas
  <1>2. now' \in Clock
    BY <1>1, SumaClock, PlazosClock
  <1>3. promesa' \in Promesas /\ Sana(tabla, now', promesa') /\ Separadas(promesa')
    BY <1>1, TickConserva DEF Invariante
  <1>4. TypeOK'
    BY <1>2, <1>3 DEF Invariante, TypeOK, Promesas
  <1>5. Sondeo'
    <2>1. CASE pc \in {"arp1", "arp2"}
      <3>1. Edad(now, ahora) < MaxArp
        BY <2>1
      <3>2. Edad(now', ahora) = Edad(now, ahora) + 1 /\ Edad(now, ahora) \in Int
        BY <1>1, <3>1, EdadTickDesde DEF Edad, Clock
      <3>3. Edad(now', ahora') <= MaxArp
        BY <3>1, <3>2
      <3>4. QED
        BY <2>1, <3>3 DEF Invariante, Sondeo
    <2>2. CASE pc \notin {"arp1", "arp2"}
      BY <2>2 DEF Sondeo
    <2>3. QED
      BY <2>1, <2>2
  <1>6. EnCurso'
    <2>1. pet' = pet /\ pc' = pc
      OBVIOUS
    <2>2. \A m \in Macs : /\ promesa'[m].ip = promesa[m].ip
                          /\ promesa'[m].resta > 0 => promesa[m].resta > 0
                          /\ promesa[m].resta = 0 => promesa'[m].resta = 0
      BY <1>1 DEF Promesas, Promesa
    <2>3. pc \in {"procesa", "arp1", "arp2"} => pet.mac \in Macs
      BY DEF Invariante, TypeOK, Peticion
    <2>4. QED
      BY <2>1, <2>2, <2>3 DEF Invariante, EnCurso
  <1>7. QED
    BY <1>3, <1>4, <1>5, <1>6 DEF Invariante

LEMMA ParaInvariante ==
  Invariante /\ Para => Invariante'
  <1> SUFFICES ASSUME Invariante, Para PROVE Invariante'
    OBVIOUS
  <1> USE DEF Para
  <1>1. TypeOK'
    BY DEF Invariante, TypeOK
  <1>2. Sondeo' /\ EnCurso'
    BY DEF Sondeo, EnCurso
  <1>3. QED
    BY <1>1, <1>2 DEF Invariante

LEMMA ArrancaInvariante ==
  ASSUME NEW r \in Rangos
  PROVE  Invariante /\ Arranca(r) => Invariante'
  <1> SUFFICES ASSUME Invariante, Arranca(r) PROVE Invariante'
    OBVIOUS
  <1> USE DEF Arranca
  <1>1. now \in Clock /\ pool' \in Pool
    BY PoolDePool DEF Invariante, TypeOK
  <1>2. promesa' \in Promesas /\ Sana(tabla', now', promesa') /\ Separadas(promesa')
    BY <1>1, TablaVaciaSana
  <1>3. TypeOK'
    BY <1>1, <1>2 DEF Invariante, TypeOK, Sana, Tabla, Promesas
  <1>4. Sondeo' /\ EnCurso'
    BY DEF Sondeo, EnCurso
  <1>5. QED
    BY <1>2, <1>3, <1>4 DEF Invariante

LEMMA InvarianteSiempre ==
  Spec => []Invariante
  <1>1. Invariante /\ [Next]_vars => Invariante'
    <2> SUFFICES ASSUME Invariante, [Next]_vars PROVE Invariante'
      OBVIOUS
    <2>1. CASE Mantiene
      BY <2>1, MantieneInvariante
    <2>2. CASE \E m \in Macs, tipo \in Tipos, cual \in Pedidas : Recibe(m, tipo, cual)
      BY <2>2, RecibeInvariante
    <2>3. CASE Discover
      BY <2>3, DiscoverInvariante
    <2>4. CASE ArpLibre
      BY <2>4, ArpLibreInvariante
    <2>5. CASE ArpOcupada
      BY <2>5, ArpOcupadaInvariante
    <2>6. CASE ArpOcupadaOtraVez
      BY <2>6, ArpOcupadaOtraVezInvariante
    <2>7. CASE RequestAck
      BY <2>7, RequestAckInvariante
    <2>8. CASE RequestNak \/ RequestAjeno
      BY <2>8, SinCambioInvariante
    <2>9. CASE Release
      BY <2>9, ReleaseInvariante
    <2>10. CASE Decline
      BY <2>10, DeclineInvariante
    <2>11. CASE Tick
      BY <2>11, TickInvariante
    <2>12. CASE Para
      BY <2>12, ParaInvariante
    <2>13. CASE \E r \in Rangos : Arranca(r)
      BY <2>13, ArrancaInvariante
    <2>14. CASE UNCHANGED vars
      BY <2>14 DEF vars, Invariante, TypeOK, Sondeo, EnCurso
    <2>15. QED
      BY <2>1, <2>2, <2>3, <2>4, <2>5, <2>6, <2>7, <2>8, <2>9, <2>10, <2>11, <2>12,
         <2>13, <2>14 DEF Next
  <1>2. QED
    BY InicioInvariante, <1>1, PTL DEF Spec

\* The state of the server stays in its domains, the table with its stamps in
\* the width of the clock (dhcp_lease.c, net_dhcp.c).
THEOREM TipoCorrecto == Spec => []TypeOK
  <1>1. Invariante => TypeOK
    BY DEF Invariante
  <1>2. QED
    BY <1>1, InvarianteSiempre, PTL

\* reservar and dhcp_lease_commit never leave two entries for an address.
THEOREM IpsSinRepetir == Spec => []UnaPorIp
  <1>1. Invariante => UnaPorIp
    BY DEF Invariante, Sana, SinRepetir, UnaPorIp
  <1>2. QED
    BY <1>1, InvarianteSiempre, PTL

\* The server never gives an address to two clients at once (dhcp_lease_offer,
\* dhcp_lease_commit and the two ARP probes between them).
THEOREM IpsExclusivas == Spec => []Exclusividad
  <1>1. Invariante => Exclusividad
    BY DEF Invariante, Separadas, Exclusividad
  <1>2. QED
    BY <1>1, InvarianteSiempre, PTL

\* Every address a client counts on has an entry of its own that lasts at least
\* as long, or one that marks the conflict (dhcp_lease_expire, _release).
THEOREM PromesasRespaldadas == Spec => []Respaldo
  <1>1. Invariante => Respaldo
    BY DEF Invariante, Sana, Cubierta, Cubre, Respaldo, Respaldada
  <1>2. QED
    BY <1>1, InvarianteSiempre, PTL

-----------------------------------------------------------------------------
\* Addresses in conflict: what marks them is never written again.

\* A bad entry keeps no instant, so declining its address changes nothing.
SinPlazo(t) == \A i \in Slots : t[i].estado = "bad" => t[i].expira = 0

MalasQuedan(t, u) == \A i \in Slots : t[i].estado = "bad" => u[i] = t[i]

LEMMA ExpiraMalas ==
  ASSUME NEW t, SinPlazo(t), NEW n
  PROVE  SinPlazo(Expira(t, n)) /\ MalasQuedan(t, Expira(t, n))
  BY DEF SinPlazo, MalasQuedan, Expira, Suelta

LEMMA LiberaMalas ==
  ASSUME NEW t, SinPlazo(t), NEW m, NEW x
  PROVE  SinPlazo(Libera(t, m, x)) /\ MalasQuedan(t, Libera(t, m, x))
  BY DEF SinPlazo, MalasQuedan, Libera, Suelta, EsPrimera

LEMMA DeclinaMalas ==
  ASSUME NEW t \in Tabla, SinPlazo(t), NEW x
  PROVE  SinPlazo(Declina(t, x)) /\ MalasQuedan(t, Declina(t, x))
  <1> DEFINE donde == IF DeIp(t, x) # {} THEN DeIp(t, x) ELSE Libres(t)
             u == Declina(t, x)
  <1>1. \A i \in Slots : u[i] = IF EsPrimera(donde, i)
                                  THEN [ip |-> x, mac |-> t[i].mac, expira |-> 0, estado |-> "bad"]
                                  ELSE t[i]
    BY DEF Declina
  <1>2. ASSUME NEW i \in Slots, t[i].estado = "bad", EsPrimera(donde, i)
        PROVE  t[i] = [ip |-> x, mac |-> t[i].mac, expira |-> 0, estado |-> "bad"]
    <2>1. t[i].ip = x
      BY <1>2 DEF EsPrimera, DeIp, Libres
    <2>2. t[i] \in Lease /\ t[i].expira = 0
      BY <1>2 DEF Tabla, SinPlazo
    <2>3. QED
      BY <1>2, <2>1, <2>2 DEF Lease
  <1> HIDE DEF donde, u
  <1>3. MalasQuedan(t, u)
    BY <1>1, <1>2, Zenon DEF MalasQuedan
  <1>4. ASSUME NEW i \in Slots, u[i].estado = "bad"
        PROVE  u[i].expira = 0
    <2>1. CASE EsPrimera(donde, i)
      <3>1. u[i] = [ip |-> x, mac |-> t[i].mac, expira |-> 0, estado |-> "bad"]
        BY <1>1, <2>1
      <3>2. QED
        BY <3>1
    <2>2. CASE ~EsPrimera(donde, i)
      <3>1. u[i] = t[i]
        BY <1>1, <2>2
      <3>2. QED
        BY <1>4, <3>1 DEF SinPlazo
    <2>3. QED
      BY <2>1, <2>2
  <1>5. QED
    BY <1>3, <1>4 DEF u, SinPlazo

LEMMA EscribeMalas ==
  ASSUME NEW t \in Tabla, SinPlazo(t), NEW i \in Slots, t[i].estado # "bad",
         NEW l, l.estado # "bad"
  PROVE  SinPlazo([t EXCEPT ![i] = l]) /\ MalasQuedan(t, [t EXCEPT ![i] = l])
  BY DEF SinPlazo, MalasQuedan, Tabla

\* An offer is written over no bad entry, and of no bad address.
LEMMA OfertaMalas ==
  ASSUME NEW t \in Tabla, SinRepetir(t), SinPlazo(t), NEW p \in Pool, NEW m \in Macs,
         NEW q \in Nat, NEW n \in Clock, NEW o \in Ofertas(t, p, m, q, n)
  PROVE  SinPlazo(o.tabla) /\ MalasQuedan(t, o.tabla)
  <1>1. CASE o.ip = 0 /\ o.tabla = t
    BY <1>1 DEF MalasQuedan
  <1>2. ASSUME NEW i \in Slots, o.tabla = Reserva(t, i, o.ip, m, n), t[i].estado # "bad"
        PROVE  SinPlazo(o.tabla) /\ MalasQuedan(t, o.tabla)
    <2> DEFINE l == [ip |-> o.ip, mac |-> m, expira |-> Suma(n, OFFER_RESERVE), estado |-> "offered"]
    <2>1. o.tabla = [t EXCEPT ![i] = l] /\ l.estado # "bad"
      BY <1>2 DEF Reserva
    <2> HIDE DEF l
    <2>2. QED
      BY <1>2, <2>1, EscribeMalas
  <1>3. QED
    BY <1>1, <1>2, OfertaForma

\* The invariant with it; the bad entries stay in every step but a start.
Conflictos == Invariante /\ SinPlazo(tabla)

LEMMA PasoMalas ==
  ASSUME Conflictos, [Next]_vars
  PROVE  SinPlazo(tabla') /\ (tabla' # TablaVacia => MalasQuedan(tabla, tabla'))
  <1>1. /\ tabla \in Tabla /\ SinRepetir(tabla) /\ SinPlazo(tabla)
        /\ now \in Clock /\ ahora \in Clock /\ pool \in Pool /\ ip \in Nat
        /\ promesa \in Promesas /\ Sana(tabla, now, promesa)
    BY DEF Conflictos, Invariante, TypeOK, Sana, Tabla, Promesas
  <1>2. pc \in {"procesa", "arp1", "arp2"} => pet.mac \in Macs /\ pet.ip \in Nat
    BY DEF Conflictos, Invariante, TypeOK, Peticion
  <1>3. CASE tabla' = tabla
    BY <1>1, <1>3 DEF MalasQuedan
  <1>4. CASE tabla' = Expira(tabla, now)
    BY <1>1, <1>4, ExpiraMalas
  <1>5. CASE Discover
    BY <1>1, <1>2, <1>5, OfertaMalas DEF Discover
  <1>6. CASE ArpOcupada
    <2>1. PICK o \in Ofertas(Declina(tabla, ip), pool, pet.mac, 0, ahora) : tabla' = o.tabla
      BY <1>6 DEF ArpOcupada
    <2> DEFINE u == Declina(tabla, ip)
    <2>2. SinPlazo(u) /\ MalasQuedan(tabla, u)
      BY <1>1, DeclinaMalas
    <2>3. u \in Tabla /\ SinRepetir(u)
      BY <1>1, DeclinaConserva DEF Sana
    <2>4. o \in Ofertas(u, pool, pet.mac, 0, ahora) /\ pet.mac \in Macs
      BY <1>2, <1>6 DEF ArpOcupada
    <2> HIDE DEF u
    <2>5. SinPlazo(o.tabla) /\ MalasQuedan(u, o.tabla)
      BY <1>1, <2>2, <2>3, <2>4, OfertaMalas
    <2>6. QED
      BY <2>1, <2>2, <2>5 DEF MalasQuedan
  <1>7. CASE tabla' = Declina(tabla, ip) \/ tabla' = Declina(tabla, pet.ip)
    BY <1>1, <1>7, DeclinaMalas
  <1>8. CASE RequestAck
    <2>1. PICK i \in Confirmables(tabla, pool, pet.mac, pet.ip, now) :
            tabla' = Confirma(tabla, i, pet.ip, pet.mac, now)
      BY <1>8 DEF RequestAck
    <2>2. i \in Slots /\ tabla[i].estado # "bad"
      BY <1>1, <1>2, <1>8, ConfirmaForma DEF RequestAck
    <2> DEFINE l == [ip |-> pet.ip, mac |-> pet.mac, expira |-> Suma(now, LEASE), estado |-> "bound"]
    <2>3. tabla' = [tabla EXCEPT ![i] = l] /\ l.estado # "bad"
      BY <2>1 DEF Confirma
    <2> HIDE DEF l
    <2>4. QED
      BY <1>1, <2>2, <2>3, EscribeMalas
  <1>9. CASE tabla' = Libera(tabla, pet.mac, pet.ip)
    BY <1>1, <1>9, LiberaMalas
  <1>10. CASE tabla' = TablaVacia
    BY <1>10 DEF TablaVacia, SinPlazo
  <1>11. \/ tabla' \in {tabla, Expira(tabla, now), Declina(tabla, ip), Declina(tabla, pet.ip),
                        Libera(tabla, pet.mac, pet.ip), TablaVacia}
         \/ Discover \/ ArpOcupada \/ RequestAck
    BY DEF Next, Mantiene, Recibe, ArpLibre, ArpOcupadaOtraVez, RequestNak, RequestAjeno,
           Release, Decline, Tick, Para, Arranca, vars
  <1>12. QED
    BY <1>3, <1>4, <1>5, <1>6, <1>7, <1>8, <1>9, <1>10, <1>11

\* What is promised as a request ends is in no conflict.
LEMMA PromesaSinConflicto ==
  ASSUME Conflictos, Next, NEW i \in Slots, tabla[i].estado = "bad", NEW m \in Macs,
         pc \in {"procesa", "arp1", "arp2"}, pc' = "espera", promesa'[m] # promesa[m]
  PROVE  promesa'[m].ip # tabla[i].ip
  <1>1. /\ tabla \in Tabla /\ SinRepetir(tabla) /\ now \in Clock /\ pool \in Pool /\ ip \in Nat
        /\ promesa \in Promesas
    BY DEF Conflictos, Invariante, TypeOK, Sana, Tabla, Promesas
  <1>2. pet.mac \in Macs /\ pet.ip \in Nat
    BY DEF Conflictos, Invariante, TypeOK, Peticion
  <1>3. ArpLibre \/ RequestAck
    <2>1. promesa' # promesa
      OBVIOUS
    <2>2. QED
      BY <2>1 DEF Next, Mantiene, Recibe, Discover, ArpOcupada, ArpOcupadaOtraVez, RequestNak,
                  RequestAjeno, Release, Decline, Tick, Para, Arranca
  <1>4. CASE ArpLibre
    <2>1. promesa'[m].ip = ip /\ pc \in {"arp1", "arp2"}
      BY <1>1, <1>4 DEF ArpLibre, Promesas
    <2>2. PICK j \in Slots : tabla[j].ip = ip /\ tabla[j].estado = "offered"
      BY <2>1 DEF Conflictos, Invariante, Sondeo
    <2>3. i # j /\ i \in Slots \ Libres(tabla) /\ j \in Slots \ Libres(tabla)
      BY <2>2 DEF Libres
    <2>4. QED
      BY <1>1, <2>1, <2>2, <2>3 DEF SinRepetir
  <1>5. CASE RequestAck
    <2>1. PICK j \in Confirmables(tabla, pool, pet.mac, pet.ip, now) : TRUE
      BY <1>5 DEF RequestAck
    <2>2. /\ j \in Slots /\ tabla[j].estado # "bad"
          /\ \A k \in Slots \ Libres(tabla) : tabla[k].ip = pet.ip => k = j
      BY <1>1, <1>2, ConfirmaForma
    <2>3. promesa'[m].ip = pet.ip
      BY <1>1, <1>5 DEF RequestAck, Promesas
    <2>4. i \in Slots \ Libres(tabla)
      BY DEF Libres
    <2>5. QED
      BY <2>2, <2>3, <2>4
  <1>6. QED
    BY <1>3, <1>4, <1>5

LEMMA ConflictosSiempre == Spec => []Conflictos
  <1>1. Init => SinPlazo(tabla)
    BY DEF Init, SinPlazo, TablaVacia
  <1>2. Invariante /\ SinPlazo(tabla) /\ [Next]_vars => SinPlazo(tabla)'
    BY PasoMalas DEF Conflictos
  <1>3. Invariante /\ SinPlazo(tabla) <=> Conflictos
    BY DEF Conflictos
  <1>4. QED
    BY <1>1, <1>2, <1>3, InvarianteSiempre, PTL DEF Spec

\* What ARP or a client found in conflict stays out of every offer and ACK, and
\* its entry as it was, until the server starts again (dhcp_lease_decline).
THEOREM ConflictosIntactos == Spec => ConflictoRespetado
  <1> DEFINE Paso == \A i \in Slots : tabla[i].estado = "bad" =>
       /\ tabla' # TablaVacia => tabla'[i] = tabla[i]
       /\ \A m \in Macs : pc \in {"procesa", "arp1", "arp2"} /\ pc' = "espera"
                          /\ promesa'[m] # promesa[m] => promesa'[m].ip # tabla[i].ip
  <1>1. Conflictos /\ [Next]_vars => [Paso]_vars
    <2> SUFFICES ASSUME Conflictos, Next, NEW i \in Slots, tabla[i].estado = "bad"
                 PROVE  /\ tabla' # TablaVacia => tabla'[i] = tabla[i]
                        /\ \A m \in Macs : pc \in {"procesa", "arp1", "arp2"} /\ pc' = "espera"
                             /\ promesa'[m] # promesa[m] => promesa'[m].ip # tabla[i].ip
      OBVIOUS
    <2>1. tabla' # TablaVacia => tabla'[i] = tabla[i]
      BY PasoMalas DEF MalasQuedan
    <2>2. QED
      BY <2>1, PromesaSinConflicto
  <1>2. [][Paso]_vars => ConflictoRespetado
    BY DEF ConflictoRespetado
  <1> HIDE DEF Paso
  <1>3. QED
    BY <1>1, <1>2, ConflictosSiempre, PTL DEF Spec

-----------------------------------------------------------------------------
\* A client with a lease is offered that lease.

LEMMA Minimo ==
  ASSUME NEW S \in SUBSET Nat, S # {}
  PROVE  \E x \in S : EsPrimera(S, x)
  <1> DEFINE R == OpToRel(<, Nat)
  <1>1. IsWellFoundedOn(R, Nat)
    BY NatLessThanWellFounded
  <1>2. \A x, y \in Nat : <<y, x>> \in R <=> y < x
    BY DEF OpToRel
  <1> HIDE DEF R
  <1>3. PICK x \in S : \A y \in S : <<y, x>> \notin R
    BY <1>1, WFMin
  <1>4. ASSUME NEW y \in S
        PROVE  x <= y
    <2>1. x \in Nat /\ y \in Nat /\ <<y, x>> \notin R
      BY <1>3
    <2>2. ~(y < x)
      BY <1>2, <2>1, Zenon
    <2>3. QED
      BY <2>1, <2>2
  <1>5. QED
    BY <1>4 DEF EsPrimera

\* If no entry in conflict bears the name of m, an offer to m is of the address
\* of an entry of m whenever there is one: find_mac finds it.
LEMMA OfertaSuya ==
  ASSUME NEW t \in Tabla, NEW p \in Pool, NEW m \in Macs, NEW q \in Nat, NEW n \in Clock,
         NEW o \in Ofertas(t, p, m, q, n),
         \A i \in Slots : t[i].mac = m => t[i].estado # "bad",
         NEW i \in Slots \ Libres(t), t[i].mac = m
  PROVE  \E j \in Slots \ Libres(t) : t[j].mac = m /\ t[j].ip = o.ip
  <1> DEFINE S == DeMac(t, m)
             suya == {j \in Slots : EsPrimera(S, j) /\ t[j].estado # "bad"}
  <1>1. S \in SUBSET Nat /\ i \in S
    BY DEF DeMac, Slots
  <1>2. PICK j \in S : EsPrimera(S, j)
    <2> HIDE DEF S
    <2>1. QED
      BY <1>1, Minimo
  <1>3. j \in suya
    BY <1>2 DEF DeMac
  <1>4. PICK k \in suya : o = [ip |-> t[k].ip, tabla |-> Reserva(t, k, t[k].ip, m, n)]
    BY <1>3 DEF Ofertas
  <1>5. k \in Slots \ Libres(t) /\ t[k].mac = m /\ o.ip = t[k].ip
    BY <1>4 DEF DeMac, EsPrimera
  <1>6. QED
    BY <1>5

\* An offer writes over no entry that is in conflict or in force, unless it is
\* of its own client.
LEMMA OfertaAjenas ==
  ASSUME NEW t \in Tabla, SinRepetir(t), NEW p \in Pool, NEW m \in Macs, NEW q \in Nat,
         NEW n \in Clock, NEW o \in Ofertas(t, p, m, q, n),
         NEW i \in Slots, t[i].mac # m, t[i].estado # "free",
         t[i].estado = "bad" \/ Vigente(t[i], n)
  PROVE  o.tabla[i] = t[i]
  <1>1. CASE o.tabla = t
    BY <1>1
  <1>2. ASSUME NEW j \in Slots,
               o.tabla = Reserva(t, j, o.ip, m, n),
               t[j].estado # "bad",
               t[j].mac = m \/ t[j].estado = "free" \/ ~Vigente(t[j], n)
        PROVE  o.tabla[i] = t[i]
    <2>1. i # j
      BY <1>2
    <2>2. QED
      BY <1>2, <2>1 DEF Reserva, Tabla
  <1>3. QED
    BY <1>1, <1>2, OfertaForma

\* dhcp_lease_offer gives a client its present lease if it has one, and disturbs
\* no entry in force of anybody else (dhcp_lease.h:38).
THEOREM OfertaRenueva == Spec => RenuevaLaSuya
  <1> DEFINE Paso ==
        pc = "procesa" /\ pet.tipo = "discover" /\ pc' = "arp1"
        /\ ~(\E i \in Slots : tabla[i].mac = pet.mac /\ tabla[i].estado = "bad")
        => \A i \in Slots :
             /\ tabla[i].estado = "bound" /\ tabla[i].mac = pet.mac /\ Vigente(tabla[i], now)
                  => \E j \in Slots \ Libres(tabla) : tabla[j].mac = pet.mac /\ tabla[j].ip = ip'
             /\ tabla[i].mac # pet.mac /\ (tabla[i].estado = "bad" \/ Vigente(tabla[i], now))
                  => tabla[i].estado = "free" \/ tabla'[i] = tabla[i]
  <1>1. Invariante /\ [Next]_vars => [Paso]_vars
    <2> SUFFICES ASSUME Invariante, Next, pc = "procesa", pc' = "arp1",
                        ~(\E i \in Slots : tabla[i].mac = pet.mac /\ tabla[i].estado = "bad"),
                        NEW i \in Slots
                 PROVE  /\ tabla[i].estado = "bound" /\ tabla[i].mac = pet.mac
                             => \E j \in Slots \ Libres(tabla) :
                                  tabla[j].mac = pet.mac /\ tabla[j].ip = ip'
                        /\ /\ tabla[i].mac # pet.mac
                           /\ tabla[i].estado = "bad" \/ Vigente(tabla[i], now)
                           => tabla[i].estado = "free" \/ tabla'[i] = tabla[i]
      OBVIOUS
    <2>1. Discover
      BY DEF Next, Mantiene, Recibe, ArpLibre, ArpOcupada, ArpOcupadaOtraVez, RequestAck,
             RequestNak, RequestAjeno, Release, Decline, Tick, Para, Arranca, Vuelve
    <2>2. /\ tabla \in Tabla /\ SinRepetir(tabla) /\ pool \in Pool /\ now \in Clock
          /\ pet.mac \in Macs /\ pet.ip \in Nat
      BY DEF Invariante, Sana, TypeOK, Peticion
    <2>3. PICK o \in Ofertas(tabla, pool, pet.mac, pet.ip, now) : tabla' = o.tabla /\ ip' = o.ip
      BY <2>1 DEF Discover, Vuelve
    <2>4. ASSUME tabla[i].estado = "bound", tabla[i].mac = pet.mac
          PROVE  \E j \in Slots \ Libres(tabla) : tabla[j].mac = pet.mac /\ tabla[j].ip = ip'
      <3>1. i \in Slots \ Libres(tabla)
        BY <2>4 DEF Libres
      <3>2. \A k \in Slots : tabla[k].mac = pet.mac => tabla[k].estado # "bad"
        OBVIOUS
      <3>3. \E j \in Slots \ Libres(tabla) : tabla[j].mac = pet.mac /\ tabla[j].ip = o.ip
        BY <2>2, <2>4, <3>1, <3>2, OfertaSuya
      <3>4. QED
        BY <2>3, <3>3
    <2>5. ASSUME tabla[i].mac # pet.mac, tabla[i].estado # "free",
                 tabla[i].estado = "bad" \/ Vigente(tabla[i], now)
          PROVE  tabla'[i] = tabla[i]
      BY <2>2, <2>3, <2>5, OfertaAjenas
    <2>6. QED
      BY <2>4, <2>5
  <1>2. [][Paso]_vars => RenuevaLaSuya
    BY DEF RenuevaLaSuya
  <1> HIDE DEF Paso
  <1>3. QED
    BY <1>1, <1>2, InvarianteSiempre, PTL DEF Spec
=============================================================================
