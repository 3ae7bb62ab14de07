-------------------------- MODULE ListUpdateProofs --------------------------
(***************************************************************************)
(* Proofs about the block list: nobody writes the list a search is walking *)
(* while nothing fails; finalizing sorts the index and drops repetitions   *)
(* and nothing else; searching it finds the names that are in it or under  *)
(* one that is; and a restart finds the list that was in use.              *)
(***************************************************************************)
EXTENDS ListUpdate, WellFoundedInduction, TLAPS

-----------------------------------------------------------------------------
\* Who may be writing the list.

\* The list is out of service whenever a task is about to write its entries,
\* and a search under way keeps it in service: until something fails.
Turnos ==
  /\ fallos \in Nat
  /\ bl = Lista(bl.idx, bl.state)
  /\ fallos = 0 =>
       /\ tarea \in {"arranca", "vacia", "recarga", "carga"} => bl.state # "ACTIVE"
       /\ tarea = "descarga" => bl.state # "ACTIVE"
       /\ buscando => bl.state = "ACTIVE"

LEMMA TurnosSiempre == Spec => []Turnos
  <1>1. Init => Turnos
    BY DEF Init, Turnos, Lista
  <1>2. Turnos /\ [Next]_vars => Turnos'
    <2> SUFFICES ASSUME Turnos, [Next]_vars PROVE Turnos'
      OBVIOUS
    <2> USE ListaAssumption DEF Turnos, Lista
    <2>1. CASE EmpiezaBusqueda
      BY <2>1 DEF EmpiezaBusqueda
    <2>2. CASE AcabaBusqueda
      BY <2>2 DEF AcabaBusqueda
    <2>3. CASE carga_lista
      <3>1. \E s : bl' = Lista(s, "ACTIVE")
        BY <2>3, Zenon DEF carga_lista, blocklist_load, HayLista
      <3>2. tarea' = "no" /\ fallos' = fallos /\ buscando' = buscando
        BY <2>3 DEF carga_lista
      <3>3. QED
        BY <3>1, <3>2
    <2>4. CASE listupdate_trigger
      BY <2>4 DEF listupdate_trigger, Pasa
    <2>5. CASE net_dns_blocklist_suspend
      BY <2>5 DEF net_dns_blocklist_suspend, Pasa, TurnoDeTcpip
    <2>6. CASE SuspendeSinTurno \/ BorraFalla \/ EscribeFalla
      <3>1. fallos' = fallos + 1
        BY <2>6 DEF SuspendeSinTurno, BorraFalla, EscribeFalla, Fallo
      <3>2. bl' = Lista(bl'.idx, bl'.state)
        BY <2>6 DEF SuspendeSinTurno, BorraFalla, EscribeFalla
      <3>3. QED
        BY <3>1, <3>2
    <2>7. CASE blocklist_reset
      BY <2>7 DEF blocklist_reset, Pasa, Vaciada
    <2>8. CASE \E n \in Nombres : blocklist_add(n)
      BY <2>8 DEF blocklist_add
    <2>9. CASE Activa
      BY <2>9 DEF Activa, Pasa
    <2>10. CASE DescargaFalla
      BY <2>10 DEF DescargaFalla, Pasa, TrasError
    <2>11. CASE Borra
      BY <2>11 DEF Borra, Pasa
    <2>12. CASE EscribeSector
      BY <2>12 DEF EscribeSector
    <2>13. CASE Recarga
      BY <2>13 DEF Recarga, Pasa, Vaciada
    <2>14. CASE Restaura
      BY <2>14 DEF Restaura, Pasa, blocklist_load
    <2>15. CASE Corte
      BY <2>15 DEF Corte, Vaciada
    <2>16. CASE UNCHANGED vars
      BY <2>16 DEF vars
    <2>17. QED
      BY <2>1, <2>2, <2>3, <2>4, <2>5, <2>6, <2>7, <2>8, <2>9, <2>10, <2>11, <2>12, <2>13,
         <2>14, <2>15, <2>16 DEF Next, Tarea
  <1>3. QED
    BY <1>1, <1>2, PTL DEF Spec

\* As long as nothing fails, nobody writes the entries that a search under way
\* is walking (net_dns_blocklist_suspend, tarea_update).
THEOREM BusquedaTranquila == Spec => SinCarrera
  <1> DEFINE Paso == buscando /\ buscando' /\ fallos' = 0 => bl'.idx = bl.idx
  <1>1. Turnos /\ [Next]_vars => [Paso]_vars
    <2> SUFFICES ASSUME Turnos, Next, buscando, buscando', fallos' = 0
                 PROVE  bl'.idx = bl.idx
      OBVIOUS
    <2>1. fallos = 0
      <3>1. fallos' \in {fallos, fallos + 1} /\ fallos \in Nat
        BY DEF Turnos, Next, Tarea, EmpiezaBusqueda, AcabaBusqueda, carga_lista, listupdate_trigger,
               net_dns_blocklist_suspend, SuspendeSinTurno, BorraFalla, EscribeFalla, Fallo,
               blocklist_reset, blocklist_add, Activa, DescargaFalla, Borra, EscribeSector,
               Recarga, Restaura, Corte
      <3>2. QED
        BY <3>1
    <2>2. bl.state = "ACTIVE"
      BY <2>1 DEF Turnos
    <2>3. tarea \notin {"arranca", "vacia", "recarga", "carga", "descarga"}
      BY <2>1, <2>2 DEF Turnos
    <2>4. bl' = bl \/ bl' = [bl EXCEPT !.state = "EMPTY"]
      BY <2>3 DEF Next, Tarea, EmpiezaBusqueda, AcabaBusqueda, carga_lista, listupdate_trigger,
             net_dns_blocklist_suspend, SuspendeSinTurno, BorraFalla, EscribeFalla, Pasa,
             blocklist_reset, blocklist_add, Activa, DescargaFalla, Borra, EscribeSector,
             Recarga, Restaura, Corte
    <2>5. QED
      BY <2>4 DEF Turnos, Lista
  <1>2. [][Paso]_vars => SinCarrera
    BY DEF SinCarrera
  <1> HIDE DEF Paso
  <1>3. QED
    BY <1>1, <1>2, TurnosSiempre, PTL DEF Spec

-----------------------------------------------------------------------------
\* The least of a set of numbers, induction up to a bound, and recursion.

LEMMA Minimo ==
  ASSUME NEW S \in SUBSET Nat, S # {}
  PROVE  \E x \in S : \A y \in S : x <= y
  <1> DEFINE R == OpToRel(<, Nat)
  <1>1. IsWellFoundedOn(R, Nat)
    BY NatLessThanWellFounded
  <1>2. \A x, y \in Nat : <<y, x>> \in R <=> y < x
    BY DEF OpToRel
  <1> HIDE DEF R
  <1>3. PICK x \in S : \A y \in S : <<y, x>> \notin R
    BY <1>1, WFMin
  <1>4. ASSUME NEW y \in S
        PROVE  x <= y
    <2>1. x \in Nat /\ y \in Nat /\ <<y, x>> \notin R
      BY <1>3
    <2>2. ~(y < x)
      BY <1>2, <2>1, Zenon
    <2>3. QED
      BY <2>1, <2>2
  <1>5. QED
    BY <1>4

LEMMA Induccion ==
  ASSUME NEW n \in Nat, NEW S, 0 \in S, \A m \in 0 .. n - 1 : m \in S => m + 1 \in S
  PROVE  0 .. n \subseteq S
  <1> SUFFICES ASSUME ~(0 .. n \subseteq S)
               PROVE  FALSE
    OBVIOUS
  <1> DEFINE F == {m \in Nat : m <= n /\ m \notin S}
  <1>1. F \in SUBSET Nat /\ F # {}
    OBVIOUS
  <1>2. PICK x \in F : \A y \in F : x <= y
    BY <1>1, Minimo
  <1>3. x \in Nat /\ x <= n /\ x \notin S /\ x # 0
    OBVIOUS
  <1>4. x - 1 \in 0 .. n - 1 /\ x - 1 \in Nat /\ x - 1 <= n /\ ~(x <= x - 1)
    BY <1>3
  <1>5. x - 1 \in S
    BY <1>2, <1>4
  <1>6. (x - 1) + 1 \in S /\ (x - 1) + 1 = x
    BY <1>3, <1>4, <1>5
  <1>7. QED
    BY <1>3, <1>6

\* What a loop of N turns computes: F[k] is its turn k, from v on.
Pasos(N, V) == [1 .. N -> [V -> V]]

Bucle(g, N, v, F) == g[0] = v /\ \A k \in 1 .. N : g[k] = F[k][g[k - 1]]

LEMMA Recursion ==
  ASSUME NEW N \in Nat, NEW V, NEW v \in V, NEW F \in Pasos(N, V)
  PROVE  \E g \in [0 .. N -> V] : Bucle(g, N, v, F)
  <1> USE DEF Pasos, Bucle
  <1> DEFINE Hasta(m) == {g \in [0 .. m -> V] :
                            /\ g[0] = v
                            /\ \A k \in 1 .. m : g[k] = F[k][g[k - 1]]}
             S == {m \in 0 .. N : \E g \in [0 .. m -> V] : g \in Hasta(m)}
  <1>1. 0 \in S
    <2>1. [k \in 0 .. 0 |-> v] \in Hasta(0)
      OBVIOUS
    <2>2. QED
      BY <2>1
  <1>2. ASSUME NEW m \in 0 .. N - 1, m \in S
        PROVE  m + 1 \in S
    <2>1. PICK g \in [0 .. m -> V] : g \in Hasta(m)
      BY <1>2
    <2>2. m + 1 \in 1 .. N /\ m \in 0 .. m /\ F[m + 1] \in [V -> V] /\ g[m] \in V
      OBVIOUS
    <2> DEFINE h == [k \in 0 .. m + 1 |-> IF k = m + 1 THEN F[m + 1][g[m]] ELSE g[k]]
    <2>3. h \in [0 .. m + 1 -> V]
      BY <2>2
    <2>4. h[0] = v
      BY <2>1
    <2>5. ASSUME NEW k \in 1 .. m + 1
          PROVE  h[k] = F[k][h[k - 1]]
      <3>1. k \in 0 .. m + 1 /\ k - 1 \in 0 .. m + 1 /\ k - 1 # m + 1
        OBVIOUS
      <3>2. h[k - 1] = g[k - 1]
        BY <3>1
      <3>3. CASE k = m + 1
        BY <3>1, <3>2, <3>3
      <3>4. CASE k # m + 1
        <4>1. k \in 1 .. m
          BY <3>4
        <4>2. h[k] = g[k] /\ g[k] = F[k][g[k - 1]]
          BY <2>1, <3>1, <3>4, <4>1
        <4>3. QED
          BY <3>2, <4>2
      <3>5. QED
        BY <3>3, <3>4
    <2> HIDE DEF h
    <2>6. h \in Hasta(m + 1)
      BY <2>3, <2>4, <2>5
    <2>7. QED
      BY <2>2, <2>3, <2>6
  <1> HIDE DEF S
  <1>3. N \in S
    <2>1. 0 .. N \subseteq S
      BY <1>1, <1>2, Induccion
    <2>2. QED
      BY <2>1
  <1>4. PICK g \in [0 .. N -> V] : g \in Hasta(N)
    BY <1>3 DEF S
  <1>5. QED
    BY <1>4

-----------------------------------------------------------------------------
\* strcmp and strncmp: bytes compared up to the first that differs.

Cadena == Seq(Nat \ {0})

\* The bytes of a and b agree before i.
Iguales(a, b, i) == \A j \in 0 .. i - 1 : Byte(a, j) = Byte(b, j)

\* a goes before b.
Menor(a, b) == \E i \in Nat : Iguales(a, b, i) /\ Byte(a, i) < Byte(b, i)

NoMayor(a, b) == ~Menor(b, a)

LEMMA ByteTipo ==
  ASSUME NEW s \in Cadena, NEW i \in Nat
  PROVE  /\ Byte(s, i) \in Nat
         /\ Byte(s, i) = 0 <=> i >= Len(s)
         /\ i < Len(s) => Byte(s, i) = s[i + 1]
         /\ Len(s) \in Nat
  BY DEF Byte, NUL, Cadena

LEMMA StrncmpForma ==
  ASSUME NEW a \in Cadena, NEW b \in Cadena, NEW n \in Nat
  PROVE  \/ Iguales(a, b, n) /\ strncmp(a, b, n) = 0
         \/ \E i \in 0 .. n - 1 : /\ Iguales(a, b, i)
                                  /\ Byte(a, i) # Byte(b, i)
                                  /\ strncmp(a, b, n) = Byte(a, i) - Byte(b, i)
  <1> DEFINE D == {i \in 0 .. n - 1 : Byte(a, i) # Byte(b, i)}
  <1>1. CASE D = {}
    <2>1. strncmp(a, b, n) = 0
      BY <1>1 DEF strncmp
    <2>2. Iguales(a, b, n)
      BY <1>1 DEF Iguales
    <2>3. QED
      BY <2>1, <2>2
  <1>2. CASE D # {}
    <2> DEFINE i == CHOOSE i \in D : \A j \in D : i <= j
    <2>1. strncmp(a, b, n) = Byte(a, i) - Byte(b, i)
      BY <1>2 DEF strncmp
    <2>2. D \in SUBSET Nat
      OBVIOUS
    <2>3. \E x \in D : \A j \in D : x <= j
      <3> HIDE DEF D
      <3>1. QED
        BY <1>2, <2>2, Minimo
    <2>4. i \in D /\ \A j \in D : i <= j
      <3> HIDE DEF D
      <3>1. QED
        BY <2>3
    <2> HIDE DEF i
    <2>5. i \in 0 .. n - 1 /\ Byte(a, i) # Byte(b, i)
      BY <2>4
    <2>6. ASSUME NEW j \in 0 .. i - 1
          PROVE  Byte(a, j) = Byte(b, j)
      <3>1. j \in 0 .. n - 1 /\ ~(i <= j)
        BY <2>5
      <3>2. j \notin D
        BY <2>4, <3>1
      <3>3. QED
        BY <3>1, <3>2
    <2>7. QED
      BY <2>1, <2>5, <2>6 DEF Iguales
  <1>3. QED
    BY <1>1, <1>2

LEMMA StrncmpSigno ==
  ASSUME NEW a \in Cadena, NEW b \in Cadena, NEW n \in Nat
  PROVE  /\ strncmp(a, b, n) \in Int
         /\ strncmp(a, b, n) = 0 <=> Iguales(a, b, n)
         /\ strncmp(a, b, n) < 0 =>
              \E i \in 0 .. n - 1 : Iguales(a, b, i) /\ Byte(a, i) < Byte(b, i)
         /\ strncmp(a, b, n) > 0 =>
              \E i \in 0 .. n - 1 : Iguales(b, a, i) /\ Byte(b, i) < Byte(a, i)
  <1>1. CASE Iguales(a, b, n) /\ strncmp(a, b, n) = 0
    BY <1>1
  <1>2. ASSUME NEW i \in 0 .. n - 1, Iguales(a, b, i), Byte(a, i) # Byte(b, i),
               strncmp(a, b, n) = Byte(a, i) - Byte(b, i)
        PROVE  /\ strncmp(a, b, n) \in Int
               /\ strncmp(a, b, n) = 0 <=> Iguales(a, b, n)
               /\ strncmp(a, b, n) < 0 =>
                    \E j \in 0 .. n - 1 : Iguales(a, b, j) /\ Byte(a, j) < Byte(b, j)
               /\ strncmp(a, b, n) > 0 =>
                    \E j \in 0 .. n - 1 : Iguales(b, a, j) /\ Byte(b, j) < Byte(a, j)
    <2> DEFINE x == Byte(a, i)
               y == Byte(b, i)
    <2>1. x \in Nat /\ y \in Nat
      BY ByteTipo
    <2>2. ~Iguales(a, b, n)
      BY <1>2 DEF Iguales
    <2>3. Iguales(b, a, i)
      BY <1>2 DEF Iguales
    <2> HIDE DEF x, y
    <2>4. strncmp(a, b, n) = x - y /\ x # y
      BY <1>2 DEF x, y
    <2>5. /\ strncmp(a, b, n) \in Int
          /\ strncmp(a, b, n) # 0
          /\ strncmp(a, b, n) < 0 => x < y
          /\ strncmp(a, b, n) > 0 => y < x
      BY <2>1, <2>4
    <2>6. QED
      BY <1>2, <2>2, <2>3, <2>5 DEF x, y
  <1>3. QED
    BY <1>1, <1>2, StrncmpForma

\* Two strings whose bytes agree throughout are the same.
LEMMA IgualesTodo ==
  ASSUME NEW a \in Cadena, NEW b \in Cadena, Iguales(a, b, Len(a) + Len(b) + 1)
  PROVE  a = b
  <1>1. Len(a) \in Nat /\ Len(b) \in Nat
    BY DEF Cadena
  <1>2. \A j \in 0 .. Len(a) + Len(b) : Byte(a, j) = Byte(b, j)
    BY <1>1 DEF Iguales
  <1>3. Byte(a, Len(b)) = 0 /\ Byte(b, Len(a)) = 0
    <2>1. Byte(b, Len(b)) = 0 /\ Byte(a, Len(a)) = 0
      BY <1>1, ByteTipo
    <2>2. Len(a) \in 0 .. Len(a) + Len(b) /\ Len(b) \in 0 .. Len(a) + Len(b)
      BY <1>1
    <2>3. QED
      BY <1>2, <2>1, <2>2
  <1>4. Len(a) = Len(b)
    <2>1. Len(b) >= Len(a) /\ Len(a) >= Len(b)
      BY <1>1, <1>3, ByteTipo
    <2>2. QED
      BY <1>1, <2>1
  <1>5. ASSUME NEW i \in 1 .. Len(a)
        PROVE  a[i] = b[i]
    <2> DEFINE j == i - 1
    <2>1. j \in Nat /\ j < Len(a) /\ j < Len(b) /\ j + 1 = i /\ j \in 0 .. Len(a) + Len(b)
      BY <1>1, <1>4
    <2> HIDE DEF j
    <2>2. Byte(a, j) = a[j + 1] /\ Byte(b, j) = b[j + 1]
      BY <2>1, ByteTipo
    <2>3. QED
      BY <1>2, <2>1, <2>2
  <1>6. QED
    BY <1>4, <1>5 DEF Cadena

LEMMA Strcmp ==
  ASSUME NEW a \in Cadena, NEW b \in Cadena
  PROVE  /\ strcmp(a, b) \in Int
         /\ strcmp(a, b) = 0 <=> a = b
         /\ strcmp(a, b) < 0 <=> Menor(a, b)
         /\ strcmp(a, b) > 0 <=> Menor(b, a)
         /\ ~(Menor(a, b) /\ Menor(b, a))
  <1> DEFINE n == Len(a) + Len(b) + 1
  <1>1. n \in Nat /\ strcmp(a, b) = strncmp(a, b, n)
    BY DEF strcmp, Cadena
  <1>2. ASSUME NEW i \in Nat, Iguales(a, b, i), Byte(a, i) < Byte(b, i),
               NEW j \in Nat, Iguales(b, a, j), Byte(b, j) < Byte(a, j)
        PROVE  FALSE
    <2>1. CASE i < j
      <3>1. Byte(b, i) = Byte(a, i)
        BY <1>2, <2>1 DEF Iguales
      <3>2. QED
        BY <1>2, <3>1, ByteTipo
    <2>2. CASE j < i
      <3>1. Byte(b, j) = Byte(a, j)
        BY <1>2, <2>2 DEF Iguales
      <3>2. QED
        BY <1>2, <3>1, ByteTipo
    <2>3. CASE i = j
      <3>1. Byte(a, i) \in Nat /\ Byte(b, i) \in Nat
        BY ByteTipo
      <3>2. QED
        BY <1>2, <2>3, <3>1
    <2>4. QED
      BY <2>1, <2>2, <2>3
  <1>3. ~(Menor(a, b) /\ Menor(b, a))
    BY <1>2 DEF Menor
  <1>4. a = b => ~Menor(a, b) /\ ~Menor(b, a)
    BY <1>3
  <1> HIDE DEF n
  <1>5. /\ strcmp(a, b) \in Int
        /\ strcmp(a, b) = 0 <=> Iguales(a, b, n)
        /\ strcmp(a, b) < 0 => Menor(a, b)
        /\ strcmp(a, b) > 0 => Menor(b, a)
    BY <1>1, StrncmpSigno DEF Menor
  <1>6. Iguales(a, b, n) <=> a = b
    <2>1. Iguales(a, b, n) => a = b
      BY IgualesTodo DEF n
    <2>2. QED
      BY <2>1 DEF Iguales
  <1>7. QED
    BY <1>3, <1>4, <1>5, <1>6

\* The order of strings is total.
LEMMA Orden ==
  ASSUME NEW a \in Cadena, NEW b \in Cadena
  PROVE  /\ NoMayor(a, a)
         /\ NoMayor(a, b) \/ NoMayor(b, a)
         /\ Menor(a, b) => NoMayor(a, b)
         /\ NoMayor(a, b) <=> Menor(a, b) \/ a = b
  <1>1. strcmp(a, b) < 0 \/ strcmp(a, b) = 0 \/ strcmp(a, b) > 0
    BY Strcmp
  <1>2. ~Menor(a, a)
    BY Strcmp
  <1>3. QED
    BY <1>1, <1>2, Strcmp DEF NoMayor

LEMMA MenorTransitiva ==
  ASSUME NEW a \in Cadena, NEW b \in Cadena, NEW c \in Cadena, Menor(a, b), Menor(b, c)
  PROVE  Menor(a, c)
  <1>1. PICK i \in Nat : Iguales(a, b, i) /\ Byte(a, i) < Byte(b, i)
    BY DEF Menor
  <1>2. PICK j \in Nat : Iguales(b, c, j) /\ Byte(b, j) < Byte(c, j)
    BY DEF Menor
  <1>3. CASE i < j
    <2>1. Byte(b, i) = Byte(c, i)
      BY <1>2, <1>3 DEF Iguales
    <2>2. Iguales(a, c, i)
      BY <1>1, <1>2, <1>3 DEF Iguales
    <2>3. QED
      BY <1>1, <2>1, <2>2 DEF Menor
  <1>4. CASE j < i
    <2>1. Byte(a, j) = Byte(b, j)
      BY <1>1, <1>4 DEF Iguales
    <2>2. Iguales(a, c, j)
      BY <1>1, <1>2, <1>4 DEF Iguales
    <2>3. QED
      BY <1>2, <2>1, <2>2 DEF Menor
  <1>5. CASE i = j
    <2>1. Byte(a, i) \in Nat /\ Byte(b, i) \in Nat /\ Byte(c, i) \in Nat
      BY ByteTipo
    <2>2. Byte(a, i) < Byte(c, i)
      BY <1>1, <1>2, <1>5, <2>1
    <2>3. Iguales(a, c, i)
      BY <1>1, <1>2, <1>5 DEF Iguales
    <2>4. QED
      BY <2>2, <2>3 DEF Menor
  <1>6. QED
    BY <1>3, <1>4, <1>5

LEMMA NoMayorTransitiva ==
  ASSUME NEW a \in Cadena, NEW b \in Cadena, NEW c \in Cadena, NoMayor(a, b), NoMayor(b, c)
  PROVE  /\ NoMayor(a, c)
         /\ Menor(a, b) \/ Menor(b, c) => Menor(a, c)
  <1>1. (Menor(a, b) \/ a = b) /\ (Menor(b, c) \/ b = c)
    BY Orden
  <1>2. Menor(a, b) /\ Menor(b, c) => Menor(a, c)
    BY MenorTransitiva
  <1>3. QED
    BY <1>1, <1>2, Orden

-----------------------------------------------------------------------------
\* blocklist_finalize: the heap of sift_down.

Hijos(p) == {2 * p + 1, 2 * p + 2}

\* The first n of x, seen as a tree, are a heap from node d on ...
Monton(x, n, d) == \A p \in d .. n - 1 : \A h \in Hijos(p) : h < n => NoMayor(x[h], x[p])

\* ... except at node r, ...
MontonSalvo(x, n, d, r) ==
  \A p \in d .. n - 1 : p # r => \A h \in Hijos(p) : h < n => NoMayor(x[h], x[p])

\* ... whose children are in order with its parent.
Abuelo(x, n, d, r) ==
  \A p \in d .. n - 1 : r \in Hijos(p) => \A h \in Hijos(r) : h < n => NoMayor(x[h], x[p])

Imagen(x, n) == {x[i] : i \in 0 .. n - 1}

LEMMA CambiaForma ==
  ASSUME NEW m \in Nat, NEW W, NEW x \in [0 .. m - 1 -> W],
         NEW i \in 0 .. m - 1, NEW j \in 0 .. m - 1
  PROVE  /\ Cambia(x, i, j) \in [0 .. m - 1 -> W]
         /\ Cambia(x, i, j)[i] = x[j]
         /\ Cambia(x, i, j)[j] = x[i]
         /\ \A h \in (0 .. m - 1) \ {i, j} : Cambia(x, i, j)[h] = x[h]
  BY DEF Cambia

LEMMA CambiaImagen ==
  ASSUME NEW m \in Nat, NEW W, NEW x \in [0 .. m - 1 -> W], NEW n \in 0 .. m,
         NEW i \in 0 .. n - 1, NEW j \in 0 .. n - 1
  PROVE  Imagen(Cambia(x, i, j), n) = Imagen(x, n)
  <1> DEFINE y == Cambia(x, i, j)
  <1>1. i \in 0 .. m - 1 /\ j \in 0 .. m - 1 /\ 0 .. n - 1 \subseteq 0 .. m - 1
    OBVIOUS
  <1>2. /\ y[i] = x[j] /\ y[j] = x[i]
        /\ \A h \in (0 .. m - 1) \ {i, j} : y[h] = x[h]
    BY <1>1 DEF Cambia
  <1> HIDE DEF y
  <1>3. ASSUME NEW h \in 0 .. n - 1
        PROVE  (\E k \in 0 .. n - 1 : y[h] = x[k]) /\ (\E k \in 0 .. n - 1 : x[h] = y[k])
    <2>1. CASE h = i
      BY <1>2, <2>1
    <2>2. CASE h = j
      BY <1>2, <2>2
    <2>3. CASE h # i /\ h # j
      BY <1>1, <1>2, <2>3
    <2>4. QED
      BY <2>1, <2>2, <2>3
  <1>4. Imagen(y, n) = Imagen(x, n)
    <2>1. Imagen(y, n) \subseteq Imagen(x, n)
      <3> SUFFICES ASSUME NEW h \in 0 .. n - 1 PROVE y[h] \in Imagen(x, n)
        BY DEF Imagen
      <3>1. QED
        BY <1>3 DEF Imagen
    <2>2. Imagen(x, n) \subseteq Imagen(y, n)
      <3> SUFFICES ASSUME NEW h \in 0 .. n - 1 PROVE x[h] \in Imagen(y, n)
        BY DEF Imagen
      <3>1. QED
        BY <1>3 DEF Imagen
    <2>3. QED
      BY <2>1, <2>2
  <1>5. QED
    BY <1>4 DEF y

LEMMA HijoMayorForma ==
  ASSUME NEW m \in Nat, NEW W \in SUBSET Cadena, NEW x \in [0 .. m - 1 -> W],
         NEW n \in 0 .. m, NEW r \in 0 .. n - 1, 2 * r + 1 < n
  PROVE  /\ HijoMayor(x, n, r) \in Hijos(r)
         /\ HijoMayor(x, n, r) \in 0 .. n - 1
         /\ \A c \in Hijos(r) : c < n => NoMayor(x[c], x[HijoMayor(x, n, r)])
  <1> DEFINE h == 2 * r + 1
             g == HijoMayor(x, n, r)
  <1>1. h \in 0 .. n - 1 /\ h \in 0 .. m - 1 /\ x[h] \in Cadena
    OBVIOUS
  <1>2. g = IF h + 1 < n /\ strcmp(x[h], x[h + 1]) < 0 THEN h + 1 ELSE h
    BY DEF HijoMayor
  <1>3. Hijos(r) = {h, h + 1}
    BY DEF Hijos
  <1> HIDE DEF h, g
  <1>4. CASE h + 1 < n
    <2>1. h + 1 \in 0 .. n - 1 /\ h + 1 \in 0 .. m - 1 /\ x[h + 1] \in Cadena
      BY <1>1, <1>4
    <2>2. strcmp(x[h], x[h + 1]) < 0 <=> Menor(x[h], x[h + 1])
      BY <1>1, <2>1, Strcmp
    <2>3. NoMayor(x[h], x[h]) /\ NoMayor(x[h + 1], x[h + 1])
      BY <1>1, <2>1, Orden
    <2>4. CASE Menor(x[h], x[h + 1])
      <3>1. g = h + 1 /\ NoMayor(x[h], x[h + 1])
        BY <1>1, <1>2, <1>4, <2>1, <2>2, <2>4, Orden
      <3>2. QED
        BY <1>3, <2>1, <2>3, <3>1 DEF g
    <2>5. CASE ~Menor(x[h], x[h + 1])
      <3>1. g = h /\ NoMayor(x[h + 1], x[h])
        BY <1>2, <2>2, <2>5 DEF NoMayor
      <3>2. QED
        BY <1>1, <1>3, <2>3, <3>1 DEF g
    <2>6. QED
      BY <2>4, <2>5
  <1>5. CASE ~(h + 1 < n)
    <2>1. g = h
      BY <1>2, <1>5
    <2>2. NoMayor(x[h], x[h])
      BY <1>1, Orden
    <2>3. QED
      BY <1>1, <1>3, <1>5, <2>1, <2>2 DEF g
  <1>6. QED
    BY <1>4, <1>5

\* A turn of the loop of sift_down.
Turno(b, n) ==
  LET h == HijoMayor(b.idx, n, b.r) IN
    IF 2 * b.r + 1 >= n \/ strcmp(b.idx[b.r], b.idx[h]) >= 0 THEN b
    ELSE [idx |-> Cambia(b.idx, b.r, h), r |-> h]

\* What the turns keep: x is the array before them.
Bajando(b, x, m, W, n, d) ==
  /\ b.idx \in [0 .. m - 1 -> W]
  /\ b.r \in d .. n - 1
  /\ MontonSalvo(b.idx, n, d, b.r)
  /\ Abuelo(b.idx, n, d, b.r)
  /\ Imagen(b.idx, n) = Imagen(x, n)
  /\ \A i \in n .. m - 1 : b.idx[i] = x[i]

LEMMA TurnoBaja ==
  ASSUME NEW m \in Nat, NEW W \in SUBSET Cadena, NEW n \in 0 .. m, NEW d \in 0 .. n - 1,
         NEW x, NEW b, Bajando(b, x, m, W, n, d)
  PROVE  \/ Turno(b, n) = b /\ Monton(b.idx, n, d)
         \/ Bajando(Turno(b, n), x, m, W, n, d) /\ Turno(b, n).r > b.r
  <1> DEFINE y == b.idx
             r == b.r
             h == HijoMayor(y, n, r)
             z == Cambia(y, r, h)
  <1>1. /\ y \in [0 .. m - 1 -> W] /\ r \in d .. n - 1
        /\ MontonSalvo(y, n, d, r) /\ Abuelo(y, n, d, r)
        /\ Imagen(y, n) = Imagen(x, n)
        /\ \A i \in n .. m - 1 : y[i] = x[i]
    BY DEF Bajando
  <1>2. Turno(b, n) = IF 2 * r + 1 >= n \/ strcmp(y[r], y[h]) >= 0 THEN b
                      ELSE [idx |-> z, r |-> h]
    BY DEF Turno
  <1> HIDE DEF y, r
  <1>3. r \in 0 .. n - 1 /\ r \in 0 .. m - 1 /\ r \in Nat /\ d \in Nat /\ n \in Nat
    BY <1>1
  <1>4. CASE 2 * r + 1 >= n
    <2>1. Monton(y, n, d)
      <3> SUFFICES ASSUME NEW p \in d .. n - 1, NEW c \in Hijos(p), c < n
                   PROVE  NoMayor(y[c], y[p])
        BY DEF Monton
      <3>1. p # r
        BY <1>3, <1>4 DEF Hijos
      <3>2. QED
        BY <1>1, <3>1 DEF MontonSalvo
    <2>2. QED
      BY <1>2, <1>4, <2>1 DEF y
  <1>5. CASE 2 * r + 1 < n
    <2>1. /\ h \in Hijos(r) /\ h \in 0 .. n - 1
          /\ \A c \in Hijos(r) : c < n => NoMayor(y[c], y[h])
      BY <1>1, <1>3, <1>5, HijoMayorForma
    <2> HIDE DEF h
    <2>2. h \in 0 .. m - 1 /\ h > r /\ h \in d .. n - 1 /\ h # r
      BY <1>1, <1>3, <2>1 DEF Hijos
    <2>3. y[r] \in Cadena /\ y[h] \in Cadena
      BY <1>1, <1>3, <2>2
    <2>4. CASE strcmp(y[r], y[h]) >= 0
      <3>1. NoMayor(y[h], y[r])
        BY <2>3, <2>4, Strcmp DEF NoMayor
      <3>2. Monton(y, n, d)
        <4> SUFFICES ASSUME NEW p \in d .. n - 1, NEW c \in Hijos(p), c < n
                     PROVE  NoMayor(y[c], y[p])
          BY DEF Monton
        <4>1. CASE p # r
          BY <1>1, <4>1 DEF MontonSalvo
        <4>2. CASE p = r
          <5>1. c \in 0 .. m - 1 /\ NoMayor(y[c], y[h])
            BY <1>3, <2>1, <4>2 DEF Hijos
          <5>2. y[c] \in Cadena
            BY <1>1, <5>1
          <5>3. QED
            BY <2>3, <3>1, <4>2, <5>1, <5>2, NoMayorTransitiva
        <4>3. QED
          BY <4>1, <4>2
      <3>3. Turno(b, n) = b
        BY <1>2, <2>4
      <3>4. QED
        BY <3>2, <3>3 DEF y
    <2>5. CASE ~(strcmp(y[r], y[h]) >= 0)
      <3>1. Turno(b, n) = [idx |-> z, r |-> h]
        BY <1>2, <1>3, <1>5, <2>5
      <3>2. strcmp(y[r], y[h]) < 0
        BY <2>3, <2>5, Strcmp
      <3>3. NoMayor(y[r], y[h])
        BY <2>3, <3>2, Strcmp, Orden
      <3>4. /\ z \in [0 .. m - 1 -> W] /\ z[r] = y[h] /\ z[h] = y[r]
            /\ \A i \in (0 .. m - 1) \ {r, h} : z[i] = y[i]
        <4>1. /\ y \in [0 .. m - 1 -> W] /\ r \in 0 .. m - 1 /\ h \in 0 .. m - 1
              /\ y[r] \in W /\ y[h] \in W
          BY <1>1, <1>3, <2>2
        <4>2. z = [y EXCEPT ![r] = y[h], ![h] = y[r]]
          BY DEF Cambia
        <4> HIDE DEF z
        <4>3. QED
          BY <2>2, <4>1, <4>2
      <3>5. Imagen(z, n) = Imagen(x, n)
        BY <1>1, <1>3, <2>1, CambiaImagen
      <3> HIDE DEF z
      <3>6. \A i \in n .. m - 1 : z[i] = x[i]
        BY <1>1, <1>3, <2>1, <3>4
      <3>7. MontonSalvo(z, n, d, h)
        <4> SUFFICES ASSUME NEW p \in d .. n - 1, p # h, NEW c \in Hijos(p), c < n
                     PROVE  NoMayor(z[c], z[p])
          BY DEF MontonSalvo
        <4>1. p \in 0 .. m - 1 /\ c \in 0 .. m - 1 /\ c \in 0 .. n - 1 /\ p \in Nat /\ c > p
          BY <1>3 DEF Hijos
        <4>2. CASE p = r /\ c = h
          BY <3>3, <3>4, <4>2
        <4>3. CASE p = r /\ c # h
          <5>1. z[c] = y[c] /\ c # r
            BY <3>4, <4>1, <4>3
          <5>2. NoMayor(y[c], y[h])
            BY <2>1, <4>3
          <5>3. QED
            BY <3>4, <4>3, <5>1, <5>2
        <4>4. CASE p # r /\ c = r
          <5>1. z[p] = y[p]
            BY <3>4, <4>1, <4>4
          <5>2. NoMayor(y[h], y[p])
            BY <1>1, <2>1, <4>4 DEF Abuelo
          <5>3. QED
            BY <3>4, <4>4, <5>1, <5>2
        <4>5. CASE p # r /\ c # r
          <5>1. c # h
            BY <1>3, <2>1, <4>1, <4>5 DEF Hijos
          <5>2. z[p] = y[p] /\ z[c] = y[c]
            BY <3>4, <4>1, <4>5, <5>1
          <5>3. QED
            BY <1>1, <4>5, <5>2 DEF MontonSalvo
        <4>6. QED
          BY <4>2, <4>3, <4>4, <4>5
      <3>8. Abuelo(z, n, d, h)
        <4> SUFFICES ASSUME NEW p \in d .. n - 1, h \in Hijos(p), NEW c \in Hijos(h), c < n
                     PROVE  NoMayor(z[c], z[p])
          BY DEF Abuelo
        <4>1. p = r
          BY <1>3, <2>1 DEF Hijos
        <4>2. c \in 0 .. m - 1 /\ c # r /\ c # h
          BY <1>3, <2>2 DEF Hijos
        <4>3. z[c] = y[c] /\ z[p] = y[h]
          BY <3>4, <4>1, <4>2
        <4>4. NoMayor(y[c], y[h])
          BY <1>1, <2>2 DEF MontonSalvo
        <4>5. QED
          BY <4>3, <4>4
      <3>9. QED
        BY <2>2, <3>1, <3>4, <3>5, <3>6, <3>7, <3>8 DEF Bajando, r
    <2>6. QED
      BY <2>4, <2>5
  <1>6. QED
    BY <1>3, <1>4, <1>5

LEMMA TurnoTipo ==
  ASSUME NEW m \in Nat, NEW W \in SUBSET Cadena, NEW n \in 0 .. m,
         NEW b \in [idx : [0 .. m - 1 -> W], r : Nat]
  PROVE  Turno(b, n) \in [idx : [0 .. m - 1 -> W], r : Nat]
  <1> DEFINE y == b.idx
             r == b.r
             h == HijoMayor(y, n, r)
  <1>1. y \in [0 .. m - 1 -> W] /\ r \in Nat
    OBVIOUS
  <1>2. Turno(b, n) = IF 2 * r + 1 >= n \/ strcmp(y[r], y[h]) >= 0 THEN b
                      ELSE [idx |-> Cambia(y, r, h), r |-> h]
    BY DEF Turno
  <1> HIDE DEF y, r
  <1>3. CASE 2 * r + 1 < n
    <2>1. r \in 0 .. n - 1 /\ r \in 0 .. m - 1
      BY <1>1, <1>3
    <2>2. h \in 0 .. n - 1
      BY <1>1, <1>3, <2>1, HijoMayorForma
    <2> HIDE DEF h
    <2>3. h \in 0 .. m - 1 /\ h \in Nat
      BY <2>2
    <2>4. Cambia(y, r, h) \in [0 .. m - 1 -> W]
      BY <1>1, <2>1, <2>3 DEF Cambia
    <2>5. QED
      BY <1>2, <2>3, <2>4
  <1>4. CASE ~(2 * r + 1 < n)
    <2>1. 2 * r + 1 >= n
      BY <1>1, <1>4
    <2>2. QED
      BY <1>2, <2>1
  <1>5. QED
    BY <1>3, <1>4

\* What sift_down does to an array that is a heap but for its root.
Baja(y, x, m, n, root) ==
  /\ Monton(y, n, root)
  /\ Imagen(y, n) = Imagen(x, n)
  /\ \A i \in n .. m - 1 : y[i] = x[i]

LEMMA SiftDown ==
  ASSUME NEW m \in Nat, NEW W \in SUBSET Cadena, NEW n \in 0 .. m, NEW root \in 0 .. n - 1,
         NEW x \in [0 .. m - 1 -> W]
  PROVE  /\ sift_down(x, n, root) \in [0 .. m - 1 -> W]
         /\ MontonSalvo(x, n, root, root) => Baja(sift_down(x, n, root), x, m, n, root)
  <1> DEFINE baja[k \in 0 .. n] ==
               IF k = 0 THEN [idx |-> x, r |-> root]
               ELSE LET b == baja[k - 1]
                        h == HijoMayor(b.idx, n, b.r)
                    IN IF 2 * b.r + 1 >= n \/ strcmp(b.idx[b.r], b.idx[h]) >= 0 THEN b
                       ELSE [idx |-> Cambia(b.idx, b.r, h), r |-> h]
             v == [idx |-> x, r |-> root]
             V == [idx : [0 .. m - 1 -> W], r : Nat]
             F == [k \in 1 .. n |-> [b \in V |-> Turno(b, n)]]
             Pre == MontonSalvo(x, n, root, root)
             Vale(b) == Bajando(b, x, m, W, n, root)
  <1>1. v \in V /\ n \in Nat
    OBVIOUS
  <1>2. Pre => Vale(v)
    <2>1. Abuelo(x, n, root, root)
      BY DEF Abuelo, Hijos
    <2>2. v.idx = x /\ v.r = root
      OBVIOUS
    <2>3. QED
      BY <2>1, <2>2 DEF Bajando
  <1>3. ASSUME NEW b \in V
        PROVE  Turno(b, n) \in V
    <2> HIDE DEF V
    <2>1. QED
      BY <1>1, TurnoTipo DEF V
  <1>4. F \in Pasos(n, V)
    BY <1>3 DEF Pasos
  <1>5. PICK g \in [0 .. n -> V] : Bucle(g, n, v, F)
    <2> HIDE DEF F, V, v, baja
    <2>1. QED
      BY <1>1, <1>4, Recursion
  <1>6. g = [k \in 0 .. n |-> IF k = 0 THEN v ELSE Turno(g[k - 1], n)]
    <2>1. ASSUME NEW k \in 1 .. n
          PROVE  g[k] = Turno(g[k - 1], n)
      <3>1. k - 1 \in 0 .. n
        OBVIOUS
      <3>2. g[k - 1] \in V
        <4> HIDE DEF F
        <4>1. QED
          BY <3>1
      <3>3. F[k] = [b \in V |-> Turno(b, n)]
        OBVIOUS
      <3> HIDE DEF F, V, v
      <3>4. QED
        BY <1>5, <3>2, <3>3 DEF Bucle
    <2> HIDE DEF F, V, v
    <2>2. \A k \in 0 .. n : g[k] = IF k = 0 THEN v ELSE Turno(g[k - 1], n)
      BY <1>5, <2>1 DEF Bucle
    <2>3. QED
      BY <2>2
  <1>7. baja = [k \in 0 .. n |-> IF k = 0 THEN v ELSE Turno(baja[k - 1], n)]
    BY <1>6 DEF Turno
  <1>8. sift_down(x, n, root) = baja[n].idx
    BY DEF sift_down
  <1> HIDE DEF baja, F
  <1>9. baja[0] = v /\ \A k \in 1 .. n : baja[k] = Turno(baja[k - 1], n)
    BY <1>1, <1>7
  <1> DEFINE Quieto(k) == Turno(baja[k], n) = baja[k] /\ Monton(baja[k].idx, n, root)
             Bien(k) == Vale(baja[k]) /\ (Quieto(k) \/ baja[k].r >= root + k)
             S == {k \in 0 .. n : baja[k] \in V /\ (Pre => Bien(k))}
  <1>10. 0 \in S
    <2>1. v.r >= root + 0
      OBVIOUS
    <2> HIDE DEF v, V, Pre
    <2>2. QED
      BY <1>1, <1>2, <1>9, <2>1
  <1>11. ASSUME NEW k \in 0 .. n - 1, k \in S
         PROVE  k + 1 \in S
    <2>1. baja[k] \in V /\ (Pre => Bien(k)) /\ k + 1 \in 0 .. n
      BY <1>11
    <2>2. baja[k + 1] = Turno(baja[k], n)
      <3>1. k + 1 \in 1 .. n /\ (k + 1) - 1 = k
        OBVIOUS
      <3>2. QED
        BY <1>9, <3>1
    <2>3. baja[k + 1] \in V
      <3> HIDE DEF V
      <3>1. QED
        BY <1>3, <2>1, <2>2
    <2>4. baja[k].r \in Nat /\ baja[k + 1].r \in Nat
      BY <2>1, <2>3
    <2>5. ASSUME Pre
          PROVE  Bien(k + 1)
      <3> HIDE DEF V, Pre
      <3>1. Vale(baja[k]) /\ (Quieto(k) \/ baja[k].r >= root + k)
        BY <2>1, <2>5
      <3>2. CASE Quieto(k)
        BY <2>2, <3>1, <3>2
      <3>3. CASE ~Quieto(k)
        <4>1. Vale(baja[k + 1]) /\ baja[k + 1].r > baja[k].r
          BY <1>1, <2>2, <3>1, <3>3, TurnoBaja
        <4>2. baja[k + 1].r >= root + (k + 1)
          BY <2>4, <3>1, <3>3, <4>1
        <4>3. QED
          BY <4>1, <4>2
      <3>4. QED
        BY <3>2, <3>3
    <2>6. QED
      BY <2>1, <2>3, <2>5
  <1>12. n \in S
    <2> HIDE DEF S
    <2>1. 0 .. n \subseteq S
      BY <1>1, <1>10, <1>11, Induccion
    <2>2. QED
      BY <1>1, <2>1
  <1>13. baja[n].idx \in [0 .. m - 1 -> W]
    BY <1>12
  <1>14. ASSUME Pre
         PROVE  Baja(baja[n].idx, x, m, n, root)
    <2>1. Vale(baja[n]) /\ (Quieto(n) \/ baja[n].r >= root + n)
      BY <1>12, <1>14
    <2>2. baja[n].r \in root .. n - 1
      BY <2>1 DEF Bajando
    <2>3. Monton(baja[n].idx, n, root)
      BY <2>1, <2>2
    <2>4. QED
      BY <2>1, <2>3 DEF Bajando, Baja
  <1>15. QED
    BY <1>8, <1>13, <1>14

\* The root of a heap is its greatest.
LEMMA MontonMaximo ==
  ASSUME NEW m \in Nat, NEW W \in SUBSET Cadena, NEW x \in [0 .. m - 1 -> W],
         NEW n \in 0 .. m, Monton(x, n, 0), NEW i \in 0 .. n - 1
  PROVE  NoMayor(x[i], x[0])
  <1> DEFINE F == {k \in 0 .. n - 1 : ~NoMayor(x[k], x[0])}
  <1> SUFFICES ASSUME F # {}
               PROVE  FALSE
    OBVIOUS
  <1>1. PICK k \in F : \A j \in F : k <= j
    <2>1. F \in SUBSET Nat
      OBVIOUS
    <2> HIDE DEF F
    <2>2. QED
      BY <2>1, Minimo
  <1>2. k \in 0 .. n - 1 /\ 0 \in 0 .. m - 1 /\ k \in 0 .. m - 1 /\ x[0] \in Cadena /\ x[k] \in Cadena
    OBVIOUS
  <1>3. k # 0
    BY <1>2, Orden
  <1> DEFINE p == (k - 1) \div 2
  <1>4. p \in 0 .. n - 1 /\ k \in Hijos(p) /\ ~(k <= p)
    BY <1>2, <1>3 DEF Hijos
  <1> HIDE DEF p
  <1>5. NoMayor(x[k], x[p])
    BY <1>2, <1>4 DEF Monton
  <1>6. NoMayor(x[p], x[0])
    BY <1>1, <1>4
  <1>7. x[p] \in Cadena
    BY <1>4
  <1>8. NoMayor(x[k], x[0])
    BY <1>2, <1>5, <1>6, <1>7, NoMayorTransitiva
  <1>9. QED
    BY <1>1, <1>8

LEMMA ImagenParte ==
  ASSUME NEW n \in Nat, NEW k \in 0 .. n, NEW x, NEW y,
         Imagen(x, k) = Imagen(y, k), \A i \in k .. n - 1 : x[i] = y[i]
  PROVE  Imagen(x, n) = Imagen(y, n)
  <1>1. ASSUME NEW i \in 0 .. n - 1
        PROVE  x[i] \in Imagen(y, n) /\ y[i] \in Imagen(x, n)
    <2>1. CASE i \in k .. n - 1
      BY <2>1 DEF Imagen
    <2>2. CASE i \notin k .. n - 1
      <3>1. i \in 0 .. k - 1
        BY <2>2
      <3>2. x[i] \in Imagen(y, k) /\ y[i] \in Imagen(x, k)
        BY <3>1 DEF Imagen
      <3>3. Imagen(x, k) \subseteq Imagen(x, n) /\ Imagen(y, k) \subseteq Imagen(y, n)
        BY DEF Imagen
      <3>4. QED
        BY <3>2, <3>3
    <2>3. QED
      BY <2>1, <2>2
  <1>2. Imagen(x, n) \subseteq Imagen(y, n)
    <2> SUFFICES ASSUME NEW i \in 0 .. n - 1 PROVE x[i] \in Imagen(y, n)
      BY DEF Imagen
    <2>1. QED
      BY <1>1
  <1>3. Imagen(y, n) \subseteq Imagen(x, n)
    <2> SUFFICES ASSUME NEW i \in 0 .. n - 1 PROVE y[i] \in Imagen(x, n)
      BY DEF Imagen
    <2>1. QED
      BY <1>1
  <1>4. QED
    BY <1>2, <1>3

\* x is sorted from k on, and nothing before k is greater than what comes after.
Colocado(x, n, k) ==
  \A i \in 0 .. n - 1 : \A j \in k .. n - 1 : i < j => NoMayor(x[i], x[j])

\* A turn of the first loop of heapsort makes node d the root of a heap.
LEMMA Amontona ==
  ASSUME NEW n \in Nat, NEW W \in SUBSET Cadena, NEW x \in [0 .. n - 1 -> W],
         NEW d \in 0 .. n - 1
  PROVE  /\ sift_down(x, n, d) \in [0 .. n - 1 -> W]
         /\ Monton(x, n, d + 1) =>
              /\ Monton(sift_down(x, n, d), n, d)
              /\ Imagen(sift_down(x, n, d), n) = Imagen(x, n)
  <1>1. n \in 0 .. n
    OBVIOUS
  <1>2. Monton(x, n, d + 1) => MontonSalvo(x, n, d, d)
    BY DEF Monton, MontonSalvo
  <1> DEFINE y == sift_down(x, n, d)
  <1>3. /\ y \in [0 .. n - 1 -> W]
        /\ MontonSalvo(x, n, d, d) => Baja(y, x, n, n, d)
    BY <1>1, SiftDown
  <1> HIDE DEF y
  <1>4. QED
    BY <1>2, <1>3 DEF y, Baja

\* A turn of the second puts the greatest of the first k in its place.
LEMMA Extrae ==
  ASSUME NEW n \in Nat, NEW W \in SUBSET Cadena, NEW x \in [0 .. n - 1 -> W],
         NEW k \in 1 .. n - 1
  PROVE  LET y == sift_down(Cambia(x, 0, k), k, 0) IN
           /\ y \in [0 .. n - 1 -> W]
           /\ Monton(x, k + 1, 0) /\ Colocado(x, n, k + 1) =>
                /\ Monton(y, k, 0)
                /\ Colocado(y, n, k)
                /\ Imagen(y, n) = Imagen(x, n)
  <1> DEFINE z == Cambia(x, 0, k)
             y == sift_down(z, k, 0)
  <1>1. 0 \in 0 .. n - 1 /\ k \in 0 .. n - 1 /\ 0 \in 0 .. k - 1 /\ k \in 0 .. n /\ k # 0
    OBVIOUS
  <1>2. /\ z \in [0 .. n - 1 -> W] /\ z[0] = x[k] /\ z[k] = x[0]
        /\ \A h \in (0 .. n - 1) \ {0, k} : z[h] = x[h]
    BY <1>1 DEF Cambia
  <1>3. Imagen(z, n) = Imagen(x, n)
    <2>1. n \in 0 .. n
      OBVIOUS
    <2>2. QED
      BY <1>1, <2>1, CambiaImagen
  <1> HIDE DEF z
  <1>4. /\ y \in [0 .. n - 1 -> W]
        /\ MontonSalvo(z, k, 0, 0) => Baja(y, z, n, k, 0)
    BY <1>1, <1>2, SiftDown
  <1> HIDE DEF y
  <1>5. ASSUME Monton(x, k + 1, 0), Colocado(x, n, k + 1)
        PROVE  Monton(y, k, 0) /\ Colocado(y, n, k) /\ Imagen(y, n) = Imagen(x, n)
    <2>1. MontonSalvo(z, k, 0, 0)
      <3> SUFFICES ASSUME NEW p \in 0 .. k - 1, p # 0, NEW h \in Hijos(p), h < k
                   PROVE  NoMayor(z[h], z[p])
        BY DEF MontonSalvo
      <3>1. /\ h \in (0 .. n - 1) \ {0, k} /\ p \in (0 .. n - 1) \ {0, k}
            /\ h < k + 1 /\ p \in 0 .. (k + 1) - 1
        BY DEF Hijos
      <3>2. z[h] = x[h] /\ z[p] = x[p]
        BY <1>2, <3>1
      <3>3. QED
        BY <1>5, <3>1, <3>2 DEF Monton
    <2>2. Monton(y, k, 0) /\ Imagen(y, k) = Imagen(z, k) /\ \A i \in k .. n - 1 : y[i] = z[i]
      BY <1>4, <2>1 DEF Baja
    <2>3. Imagen(y, n) = Imagen(x, n)
      BY <1>1, <1>3, <2>2, ImagenParte
    <2>4. ASSUME NEW i \in 0 .. k
          PROVE  NoMayor(x[i], x[0])
      <3>1. k + 1 \in 0 .. n /\ i \in 0 .. (k + 1) - 1
        OBVIOUS
      <3>2. QED
        BY <1>5, <3>1, MontonMaximo
    <2>5. ASSUME NEW i \in 0 .. k - 1
          PROVE  \E h \in 0 .. k : y[i] = x[h]
      <3>1. y[i] \in Imagen(z, k)
        BY <2>2 DEF Imagen
      <3>2. PICK h \in 0 .. k - 1 : y[i] = z[h]
        BY <3>1 DEF Imagen
      <3>3. CASE h = 0
        BY <1>2, <3>2, <3>3
      <3>4. CASE h # 0
        <4>1. h \in (0 .. n - 1) \ {0, k}
          BY <3>4
        <4>2. QED
          BY <1>2, <3>2, <4>1
      <3>5. QED
        BY <3>3, <3>4
    <2>6. y[k] = x[0] /\ \A j \in k + 1 .. n - 1 : y[j] = x[j]
      <3>1. y[k] = z[k]
        BY <2>2
      <3>2. ASSUME NEW j \in k + 1 .. n - 1
            PROVE  y[j] = x[j]
        <4>1. j \in k .. n - 1 /\ j \in (0 .. n - 1) \ {0, k}
          OBVIOUS
        <4>2. QED
          BY <1>2, <2>2, <4>1
      <3>3. QED
        BY <1>2, <3>1, <3>2
    <2>7. Colocado(y, n, k)
      <3> SUFFICES ASSUME NEW i \in 0 .. n - 1, NEW j \in k .. n - 1, i < j
                   PROVE  NoMayor(y[i], y[j])
        BY DEF Colocado
      <3>1. CASE j = k
        <4>1. i \in 0 .. k - 1
          BY <3>1
        <4>2. QED
          BY <2>4, <2>5, <2>6, <3>1, <4>1
      <3>2. CASE j # k
        <4>1. j \in k + 1 .. n - 1
          BY <3>2
        <4>2. PICK h \in 0 .. n - 1 : y[i] = x[h] /\ h < j
          <5>1. CASE i < k
            <6>1. i \in 0 .. k - 1
              BY <5>1
            <6>2. PICK h \in 0 .. k : y[i] = x[h]
              BY <2>5, <6>1
            <6>3. h \in 0 .. n - 1 /\ h < j
              BY <4>1
            <6>4. QED
              BY <6>2, <6>3
          <5>2. CASE i = k
            BY <1>1, <2>6, <4>1, <5>2
          <5>3. CASE i > k
            BY <2>6, <5>3
          <5>4. QED
            BY <5>1, <5>2, <5>3
        <4>3. NoMayor(x[h], x[j])
          BY <1>5, <4>1, <4>2 DEF Colocado
        <4>4. QED
          BY <2>6, <4>1, <4>2, <4>3
      <3>3. QED
        BY <3>1, <3>2
    <2>8. QED
      BY <2>2, <2>3, <2>7
  <1>6. QED
    BY <1>4, <1>5 DEF y, z

\* The two loops of heapsort, from any array x on.
LEMMA PrimerBucle ==
  ASSUME NEW n \in Nat \ {0}, NEW W \in SUBSET Cadena, NEW x \in [0 .. n - 1 -> W]
  PROVE  LET monton[k \in 0 .. n \div 2] ==
               IF k = 0 THEN x ELSE sift_down(monton[k - 1], n, n \div 2 - k)
         IN  /\ monton[n \div 2] \in [0 .. n - 1 -> W]
             /\ Monton(monton[n \div 2], n, 0)
             /\ Imagen(monton[n \div 2], n) = Imagen(x, n)
  <1> DEFINE N == n \div 2
             monton[k \in 0 .. N] ==
               IF k = 0 THEN x ELSE sift_down(monton[k - 1], n, N - k)
             V == [0 .. n - 1 -> W]
             F == [k \in 1 .. N |-> [y \in V |-> sift_down(y, n, N - k)]]
  <1>1. N \in Nat /\ N <= n /\ \A p \in N .. n - 1 : 2 * p + 1 >= n
    OBVIOUS
  <1>2. N = n \div 2
    OBVIOUS
  <1> HIDE DEF N
  <1>3. ASSUME NEW k \in 1 .. N, NEW y \in V
        PROVE  /\ sift_down(y, n, N - k) \in V
               /\ Monton(y, n, N - (k - 1)) =>
                    /\ Monton(sift_down(y, n, N - k), n, N - k)
                    /\ Imagen(sift_down(y, n, N - k), n) = Imagen(y, n)
    <2> DEFINE d == N - k
    <2>1. d \in 0 .. n - 1 /\ N - (k - 1) = d + 1
      BY <1>1
    <2> HIDE DEF d
    <2>2. /\ sift_down(y, n, d) \in V
          /\ Monton(y, n, d + 1) =>
               /\ Monton(sift_down(y, n, d), n, d)
               /\ Imagen(sift_down(y, n, d), n) = Imagen(y, n)
      BY <2>1, Amontona
    <2>3. QED
      BY <2>1, <2>2 DEF d
  <1>4. F \in Pasos(N, V)
    BY <1>3 DEF Pasos
  <1>5. PICK g \in [0 .. N -> V] : Bucle(g, N, x, F)
    <2>1. x \in V
      OBVIOUS
    <2> HIDE DEF F, V
    <2>2. QED
      BY <1>1, <1>4, <2>1, Recursion
  <1>6. g = [k \in 0 .. N |-> IF k = 0 THEN x ELSE sift_down(g[k - 1], n, N - k)]
    <2>1. ASSUME NEW k \in 1 .. N
          PROVE  g[k] = sift_down(g[k - 1], n, N - k)
      <3>1. k - 1 \in 0 .. N
        BY <1>1
      <3>2. g[k - 1] \in V
        <4> HIDE DEF F, V
        <4>1. QED
          BY <3>1
      <3>3. F[k] = [y \in V |-> sift_down(y, n, N - k)]
        OBVIOUS
      <3> HIDE DEF F, V
      <3>4. QED
        BY <1>5, <3>2, <3>3 DEF Bucle
    <2> HIDE DEF F, V
    <2>2. \A k \in 0 .. N : g[k] = IF k = 0 THEN x ELSE sift_down(g[k - 1], n, N - k)
      BY <1>5, <2>1 DEF Bucle
    <2>3. QED
      BY <2>2
  <1>7. monton = [k \in 0 .. N |-> IF k = 0 THEN x ELSE sift_down(monton[k - 1], n, N - k)]
    <2> HIDE DEF F, V
    <2>1. QED
      BY <1>6
  <1> HIDE DEF monton, F
  <1>8. monton[0] = x /\ \A k \in 1 .. N : monton[k] = sift_down(monton[k - 1], n, N - k)
    BY <1>1, <1>7
  <1> DEFINE S == {k \in 0 .. N : /\ monton[k] \in V
                                  /\ Monton(monton[k], n, N - k)
                                  /\ Imagen(monton[k], n) = Imagen(x, n)}
  <1>9. 0 \in S
    <2>1. Monton(x, n, N)
      <3> SUFFICES ASSUME NEW p \in N .. n - 1, NEW h \in Hijos(p), h < n
                   PROVE  FALSE
        BY DEF Monton
      <3>1. p \in Nat /\ 2 * p + 1 >= n
        BY <1>1
      <3>2. QED
        BY <3>1 DEF Hijos
    <2>2. N - 0 = N /\ 0 \in 0 .. N
      BY <1>1
    <2>3. QED
      BY <1>8, <2>1, <2>2
  <1>10. ASSUME NEW k \in 0 .. N - 1, k \in S
         PROVE  k + 1 \in S
    <2> DEFINE y == monton[k]
    <2>1. k + 1 \in 1 .. N /\ k + 1 \in 0 .. N /\ (k + 1) - 1 = k
      BY <1>1
    <2>2. y \in V /\ Monton(y, n, N - ((k + 1) - 1)) /\ Imagen(y, n) = Imagen(x, n)
      BY <1>10, <2>1
    <2>3. monton[k + 1] = sift_down(y, n, N - (k + 1))
      BY <1>8, <2>1
    <2> HIDE DEF y, V
    <2>4. QED
      BY <1>3, <2>1, <2>2, <2>3
  <1>11. N \in S
    <2> HIDE DEF S
    <2>1. 0 .. N \subseteq S
      BY <1>1, <1>9, <1>10, Induccion
    <2>2. QED
      BY <1>1, <2>1
  <1>12. monton[N] \in V /\ Monton(monton[N], n, 0) /\ Imagen(monton[N], n) = Imagen(x, n)
    BY <1>1, <1>11
  <1>13. QED
    BY <1>12 DEF N, monton

LEMMA SegundoBucle ==
  ASSUME NEW n \in Nat \ {0}, NEW W \in SUBSET Cadena, NEW x \in [0 .. n - 1 -> W],
         Monton(x, n, 0)
  PROVE  LET extrae[k \in 0 .. n - 1] ==
               IF k = 0 THEN x ELSE sift_down(Cambia(extrae[k - 1], 0, n - k), n - k, 0)
         IN  /\ extrae[n - 1] \in [0 .. n - 1 -> W]
             /\ Colocado(extrae[n - 1], n, 1)
             /\ Imagen(extrae[n - 1], n) = Imagen(x, n)
  <1> DEFINE N == n - 1
             Saca(y, k) == sift_down(Cambia(y, 0, n - k), n - k, 0)
             extrae[k \in 0 .. N] == IF k = 0 THEN x ELSE Saca(extrae[k - 1], k)
             V == [0 .. n - 1 -> W]
             F == [k \in 1 .. N |-> [y \in V |-> Saca(y, k)]]
  <1>1. N \in Nat /\ N = n - 1
    OBVIOUS
  <1> HIDE DEF N
  <1>2. ASSUME NEW k \in 1 .. N, NEW y \in V
        PROVE  /\ Saca(y, k) \in V
               /\ Monton(y, n - (k - 1), 0) /\ Colocado(y, n, n - (k - 1)) =>
                    /\ Monton(Saca(y, k), n - k, 0)
                    /\ Colocado(Saca(y, k), n, n - k)
                    /\ Imagen(Saca(y, k), n) = Imagen(y, n)
    <2> DEFINE d == n - k
    <2>1. d \in 1 .. n - 1 /\ n - (k - 1) = d + 1
      BY <1>1
    <2> DEFINE z == sift_down(Cambia(y, 0, d), d, 0)
    <2>2. Saca(y, k) = z
      OBVIOUS
    <2> HIDE DEF d
    <2>3. /\ z \in V
          /\ Monton(y, d + 1, 0) /\ Colocado(y, n, d + 1) =>
               /\ Monton(z, d, 0)
               /\ Colocado(z, n, d)
               /\ Imagen(z, n) = Imagen(y, n)
      BY <2>1, Extrae
    <2> HIDE DEF z, V, Saca
    <2>4. QED
      BY <2>1, <2>2, <2>3 DEF d
  <1> HIDE DEF Saca
  <1>3. F \in Pasos(N, V)
    BY <1>2 DEF Pasos
  <1>4. PICK g \in [0 .. N -> V] : Bucle(g, N, x, F)
    <2>1. x \in V
      OBVIOUS
    <2> HIDE DEF F, V
    <2>2. QED
      BY <1>1, <1>3, <2>1, Recursion
  <1>5. g = [k \in 0 .. N |-> IF k = 0 THEN x ELSE Saca(g[k - 1], k)]
    <2>1. ASSUME NEW k \in 1 .. N
          PROVE  g[k] = Saca(g[k - 1], k)
      <3>1. k - 1 \in 0 .. N
        BY <1>1
      <3>2. g[k - 1] \in V
        <4> HIDE DEF F, V
        <4>1. QED
          BY <3>1
      <3>3. F[k] = [y \in V |-> Saca(y, k)]
        OBVIOUS
      <3> HIDE DEF F, V
      <3>4. QED
        BY <1>4, <3>2, <3>3 DEF Bucle
    <2> HIDE DEF F, V
    <2>2. \A k \in 0 .. N : g[k] = IF k = 0 THEN x ELSE Saca(g[k - 1], k)
      BY <1>4, <2>1 DEF Bucle
    <2>3. QED
      BY <2>2
  <1>6. extrae = [k \in 0 .. N |-> IF k = 0 THEN x ELSE Saca(extrae[k - 1], k)]
    <2> HIDE DEF F, V
    <2>1. QED
      BY <1>5
  <1> HIDE DEF extrae, F
  <1>7. extrae[0] = x /\ \A k \in 1 .. N : extrae[k] = Saca(extrae[k - 1], k)
    BY <1>1, <1>6
  <1> DEFINE S == {k \in 0 .. N : /\ extrae[k] \in V
                                  /\ Monton(extrae[k], n - k, 0)
                                  /\ Colocado(extrae[k], n, n - k)
                                  /\ Imagen(extrae[k], n) = Imagen(x, n)}
  <1>8. 0 \in S
    <2>1. Colocado(x, n, n)
      BY DEF Colocado
    <2>2. n - 0 = n /\ 0 \in 0 .. N
      BY <1>1
    <2>3. QED
      BY <1>7, <2>1, <2>2
  <1>9. ASSUME NEW k \in 0 .. N - 1, k \in S
        PROVE  k + 1 \in S
    <2> DEFINE y == extrae[k]
    <2>1. k + 1 \in 1 .. N /\ k + 1 \in 0 .. N /\ (k + 1) - 1 = k
      BY <1>1
    <2>2. /\ y \in V /\ Monton(y, n - ((k + 1) - 1), 0) /\ Colocado(y, n, n - ((k + 1) - 1))
          /\ Imagen(y, n) = Imagen(x, n)
      BY <1>9, <2>1
    <2>3. extrae[k + 1] = Saca(y, k + 1)
      BY <1>7, <2>1
    <2> HIDE DEF y, V
    <2>4. QED
      BY <1>2, <2>1, <2>2, <2>3
  <1>10. N \in S
    <2> HIDE DEF S
    <2>1. 0 .. N \subseteq S
      BY <1>1, <1>8, <1>9, Induccion
    <2>2. QED
      BY <1>1, <2>1
  <1>11. extrae[N] \in V /\ Colocado(extrae[N], n, 1) /\ Imagen(extrae[N], n) = Imagen(x, n)
    <2>1. n - N = 1
      BY <1>1
    <2>2. QED
      BY <1>10, <2>1
  <1>12. QED
    BY <1>11 DEF N, extrae, Saca

-----------------------------------------------------------------------------
\* What blocklist_finalize does to a list.

EnOrden(s) == \A i, j \in DOMAIN s : i < j => NoMayor(s[i], s[j])

LEMMA HeapsortOrdena ==
  ASSUME NEW W \in SUBSET Cadena, NEW s \in Seq(W), s # <<>>
  PROVE  /\ Heapsort(s) \in [1 .. Len(s) -> W]
         /\ EnOrden(Heapsort(s))
         /\ Elementos(Heapsort(s)) = Elementos(s)
  <1> DEFINE n == Len(s)
             x == [i \in 0 .. n - 1 |-> s[i + 1]]
             monton[k \in 0 .. n \div 2] ==
               IF k = 0 THEN x ELSE sift_down(monton[k - 1], n, n \div 2 - k)
             y == monton[n \div 2]
             extrae[k \in 0 .. n - 1] ==
               IF k = 0 THEN y ELSE sift_down(Cambia(extrae[k - 1], 0, n - k), n - k, 0)
             z == extrae[n - 1]
             r == [i \in 1 .. n |-> z[i - 1]]
  <1>1. n \in Nat \ {0} /\ x \in [0 .. n - 1 -> W] /\ DOMAIN s = 1 .. n
    OBVIOUS
  <1>2. Heapsort(s) = r
    BY DEF Heapsort
  <1>3. y \in [0 .. n - 1 -> W] /\ Monton(y, n, 0) /\ Imagen(y, n) = Imagen(x, n)
    <2> HIDE DEF x
    <2> HIDE DEF n
    <2>1. QED
      BY <1>1, PrimerBucle
  <1> HIDE DEF y
  <1>4. z \in [0 .. n - 1 -> W] /\ Colocado(z, n, 1) /\ Imagen(z, n) = Imagen(y, n)
    <2> HIDE DEF n
    <2>1. QED
      BY <1>1, <1>3, SegundoBucle
  <1>5. \A i \in 0 .. n - 1 : x[i] = s[i + 1]
    OBVIOUS
  <1> HIDE DEF z, n, x
  <1>6. r \in [1 .. n -> W] /\ \A i \in 1 .. n : r[i] = z[i - 1]
    BY <1>1, <1>4
  <1> HIDE DEF r
  <1>7. EnOrden(r)
    <2> SUFFICES ASSUME NEW i \in 1 .. n, NEW j \in 1 .. n, i < j
                 PROVE  NoMayor(r[i], r[j])
      BY <1>6 DEF EnOrden
    <2>1. i - 1 \in 0 .. n - 1 /\ j - 1 \in 1 .. n - 1 /\ i - 1 < j - 1
      BY <1>1
    <2>2. QED
      BY <1>4, <1>6, <2>1 DEF Colocado
  <1>8. Elementos(r) = Imagen(z, n)
    <2>1. Elementos(r) \subseteq Imagen(z, n)
      <3> SUFFICES ASSUME NEW i \in 1 .. n PROVE r[i] \in Imagen(z, n)
        BY <1>6 DEF Elementos
      <3>1. i - 1 \in 0 .. n - 1
        BY <1>1
      <3>2. QED
        BY <1>6, <3>1 DEF Imagen
    <2>2. Imagen(z, n) \subseteq Elementos(r)
      <3> SUFFICES ASSUME NEW i \in 0 .. n - 1 PROVE z[i] \in Elementos(r)
        BY DEF Imagen
      <3>1. i + 1 \in 1 .. n /\ (i + 1) - 1 = i
        BY <1>1
      <3>2. z[i] = r[i + 1] /\ DOMAIN r = 1 .. n
        BY <1>6, <3>1
      <3>3. QED
        BY <3>1, <3>2 DEF Elementos
    <2>3. QED
      BY <2>1, <2>2
  <1>9. Elementos(s) = Imagen(x, n)
    <2>1. Elementos(s) \subseteq Imagen(x, n)
      <3> SUFFICES ASSUME NEW i \in 1 .. n PROVE s[i] \in Imagen(x, n)
        BY <1>1 DEF Elementos
      <3>1. i - 1 \in 0 .. n - 1 /\ (i - 1) + 1 = i
        BY <1>1
      <3>2. s[i] = x[i - 1]
        BY <1>5, <3>1
      <3>3. QED
        BY <3>1, <3>2 DEF Imagen
    <2>2. Imagen(x, n) \subseteq Elementos(s)
      <3> SUFFICES ASSUME NEW i \in 0 .. n - 1 PROVE x[i] \in Elementos(s)
        BY DEF Imagen
      <3>1. i + 1 \in 1 .. n
        BY <1>1
      <3>2. QED
        BY <1>1, <1>5, <3>1 DEF Elementos
    <2>3. QED
      BY <2>1, <2>2
  <1>10. QED
    BY <1>2, <1>3, <1>4, <1>6, <1>7, <1>8, <1>9 DEF n

Creciente(s) == \A i, j \in DOMAIN s : i < j => Menor(s[i], s[j])

\* A turn of the removal of repeated entries, ...
Anade(q, e) == IF q # <<>> /\ strcmp(e, q[Len(q)]) = 0 THEN q ELSE Append(q, e)

\* ... and what there is after k of them.
Resumen(q, s, k, W) ==
  /\ q \in Seq(W) /\ Len(q) <= k
  /\ k = 0 => q = <<>>
  /\ k > 0 => q # <<>> /\ q[Len(q)] = s[k]
  /\ Creciente(q)
  /\ Elementos(q) = {s[i] : i \in 1 .. k}
  /\ Creciente(s) => Len(q) = k /\ \A i \in 1 .. k : q[i] = s[i]

LEMMA AnadeResumen ==
  ASSUME NEW W \in SUBSET Cadena, NEW s \in Seq(W), EnOrden(s), NEW k \in 1 .. Len(s),
         NEW q, Resumen(q, s, k - 1, W)
  PROVE  Resumen(Anade(q, s[k]), s, k, W)
  <1> DEFINE e == s[k]
             p == Len(q)
             t == Append(q, e)
  <1>1. /\ q \in Seq(W) /\ p \in Nat /\ p <= k - 1 /\ DOMAIN q = 1 .. p
        /\ k - 1 = 0 => q = <<>>
        /\ k - 1 > 0 => q # <<>> /\ q[p] = s[k - 1]
        /\ Creciente(q)
        /\ Elementos(q) = {s[i] : i \in 1 .. k - 1}
        /\ Creciente(s) => p = k - 1 /\ \A i \in 1 .. k - 1 : q[i] = s[i]
    BY DEF Resumen
  <1>2. e \in W /\ e \in Cadena /\ k \in DOMAIN s /\ k \in Nat /\ DOMAIN s = 1 .. Len(s)
    OBVIOUS
  <1>3. q # <<>> <=> p > 0
    BY <1>1
  <1>4. {s[i] : i \in 1 .. k} = {s[i] : i \in 1 .. k - 1} \cup {e}
    <2>1. \A i \in 1 .. k : i \in 1 .. k - 1 \/ i = k
      BY <1>2
    <2>2. \A i \in 1 .. k - 1 : i \in 1 .. k
      BY <1>2
    <2>3. k \in 1 .. k
      BY <1>2
    <2>4. QED
      BY <2>1, <2>2, <2>3
  <1>5. ASSUME p > 0
        PROVE  /\ q[p] \in Cadena /\ q[p] = s[k - 1] /\ k - 1 \in DOMAIN s
               /\ NoMayor(q[p], e)
               /\ strcmp(e, q[p]) = 0 <=> e = q[p]
    <2>1. q[p] \in W /\ q[p] \in Cadena
      BY <1>1, <1>5
    <2>2. k - 1 \in DOMAIN s /\ k - 1 < k /\ k - 1 > 0
      BY <1>1, <1>2, <1>5
    <2>3. q[p] = s[k - 1]
      BY <1>1, <2>2
    <2>4. NoMayor(s[k - 1], s[k])
      BY <1>2, <2>2 DEF EnOrden
    <2>5. strcmp(e, q[p]) = 0 <=> e = q[p]
      BY <1>2, <2>1, Strcmp
    <2>6. QED
      BY <2>1, <2>2, <2>3, <2>4, <2>5
  <1> HIDE DEF e, p
  <1>6. CASE p > 0 /\ e = q[p]
    <2>1. Anade(q, e) = q
      BY <1>3, <1>5, <1>6 DEF Anade, p
    <2>2. ~Creciente(s)
      <3>1. s[k - 1] = s[k] /\ k - 1 \in DOMAIN s /\ k \in DOMAIN s /\ k - 1 < k
        BY <1>2, <1>5, <1>6 DEF e
      <3>2. Creciente(s) => Menor(s[k - 1], s[k])
        BY <3>1 DEF Creciente
      <3>3. ~Menor(e, e)
        BY <1>2, Orden DEF NoMayor
      <3>4. QED
        BY <3>1, <3>2, <3>3 DEF e
    <2>3. e \in Elementos(q)
      BY <1>1, <1>6 DEF Elementos
    <2>4. Elementos(q) = {s[i] : i \in 1 .. k}
      BY <1>1, <1>4, <2>3
    <2>5. q # <<>> /\ q[Len(q)] = s[k] /\ Len(q) <= k /\ k > 0 /\ q \in Seq(W) /\ Creciente(q)
      BY <1>1, <1>2, <1>3, <1>6 DEF e, p
    <2>6. Resumen(q, s, k, W)
      BY <2>2, <2>4, <2>5 DEF Resumen
    <2>7. QED
      BY <2>1, <2>6 DEF e
  <1>7. CASE ~(p > 0 /\ e = q[p])
    <2>1. Anade(q, e) = t
      BY <1>3, <1>5, <1>7 DEF Anade, p
    <2>2. /\ t \in Seq(W) /\ Len(t) = p + 1 /\ DOMAIN t = 1 .. p + 1 /\ t[p + 1] = e
          /\ \A i \in 1 .. p : t[i] = q[i]
      BY <1>1, <1>2 DEF p
    <2> HIDE DEF t
    <2>3. Creciente(t)
      <3>1. ASSUME p > 0
            PROVE  Menor(q[p], e)
        BY <1>2, <1>5, <1>7, <3>1, Orden
      <3> SUFFICES ASSUME NEW i \in 1 .. p + 1, NEW j \in 1 .. p + 1, i < j
                   PROVE  Menor(t[i], t[j])
        BY <2>2 DEF Creciente
      <3>2. i \in 1 .. p /\ t[i] = q[i] /\ q[i] \in W
        BY <1>1, <2>2
      <3>3. CASE j \in 1 .. p
        BY <1>1, <2>2, <3>2, <3>3 DEF Creciente
      <3>4. CASE j \notin 1 .. p
        <4>1. j = p + 1 /\ t[j] = e /\ p > 0 /\ p \in 1 .. p
          BY <1>1, <2>2, <3>2, <3>4
        <4>2. CASE i = p
          BY <3>1, <3>2, <4>1, <4>2
        <4>3. CASE i # p
          <5>1. i < p
            BY <1>1, <3>2, <4>3
          <5>2. Menor(q[i], q[p])
            BY <1>1, <3>2, <4>1, <5>1 DEF Creciente
          <5>3. q[i] \in Cadena /\ q[p] \in Cadena
            BY <1>5, <3>2, <4>1
          <5>4. Menor(q[i], e)
            BY <1>2, <3>1, <4>1, <5>2, <5>3, MenorTransitiva
          <5>5. QED
            BY <3>2, <4>1, <5>4
        <4>4. QED
          BY <4>2, <4>3
      <3>5. QED
        BY <3>3, <3>4
    <2>4. Elementos(t) = {s[i] : i \in 1 .. k}
      <3>1. Elementos(t) \subseteq Elementos(q) \cup {e}
        <4> SUFFICES ASSUME NEW i \in 1 .. p + 1 PROVE t[i] \in Elementos(q) \cup {e}
          BY <2>2 DEF Elementos
        <4>1. i \in 1 .. p \/ i = p + 1
          BY <1>1
        <4>2. QED
          BY <1>1, <2>2, <4>1 DEF Elementos
      <3>2. Elementos(q) \cup {e} \subseteq Elementos(t)
        <4>1. e \in Elementos(t)
          <5>1. p + 1 \in DOMAIN t
            BY <1>1, <2>2
          <5>2. QED
            BY <2>2, <5>1 DEF Elementos
        <4>2. ASSUME NEW i \in 1 .. p
              PROVE  q[i] \in Elementos(t)
          <5>1. i \in DOMAIN t /\ q[i] = t[i]
            BY <1>1, <2>2
          <5>2. QED
            BY <5>1 DEF Elementos
        <4>3. Elementos(q) \subseteq Elementos(t)
          BY <1>1, <4>2 DEF Elementos
        <4>4. QED
          BY <4>1, <4>3
      <3>3. QED
        BY <1>1, <1>4, <3>1, <3>2
    <2>5. Len(t) <= k /\ k > 0 /\ t # <<>> /\ t[Len(t)] = s[k]
      <3>1. t # <<>> /\ p + 1 <= k
        BY <1>1, <1>2, <2>2
      <3>2. QED
        BY <1>2, <2>2, <3>1 DEF e
    <2>6. ASSUME Creciente(s)
          PROVE  Len(t) = k /\ \A i \in 1 .. k : t[i] = s[i]
      <3>1. p = k - 1 /\ p + 1 = k
        BY <1>1, <1>2, <2>6
      <3>2. ASSUME NEW i \in 1 .. k
            PROVE  t[i] = s[i]
        <4>1. i \in 1 .. p \/ i = k
          BY <1>2, <3>1
        <4>2. QED
          BY <1>1, <2>2, <2>6, <3>1, <4>1 DEF e
      <3>3. QED
        BY <2>2, <3>1, <3>2
    <2>7. Resumen(t, s, k, W)
      BY <2>2, <2>3, <2>4, <2>5, <2>6 DEF Resumen
    <2>8. QED
      BY <2>1, <2>7 DEF e
  <1>8. QED
    BY <1>6, <1>7

LEMMA DedupeResumen ==
  ASSUME NEW W \in SUBSET Cadena, NEW s \in Seq(W), EnOrden(s)
  PROVE  Resumen(Dedupe(s), s, Len(s), W)
  <1> DEFINE N == Len(s)
             quedan[k \in 0 .. N] ==
               IF k = 0 THEN <<>>
               ELSE LET q == quedan[k - 1] IN
                      IF q # <<>> /\ strcmp(s[k], q[Len(q)]) = 0 THEN q ELSE Append(q, s[k])
             V == Seq(W)
             F == [k \in 1 .. N |-> [q \in V |-> Anade(q, s[k])]]
  <1>1. N \in Nat /\ Dedupe(s) = quedan[N]
    BY DEF Dedupe
  <1>2. ASSUME NEW k \in 1 .. N, NEW q \in V
        PROVE  Anade(q, s[k]) \in V
    BY DEF Anade
  <1> HIDE DEF N
  <1>3. F \in Pasos(N, V)
    BY <1>2 DEF Pasos
  <1>4. PICK g \in [0 .. N -> V] : Bucle(g, N, <<>>, F)
    <2>1. <<>> \in V
      OBVIOUS
    <2> HIDE DEF F, V
    <2>2. QED
      BY <1>1, <1>3, <2>1, Recursion
  <1>5. g = [k \in 0 .. N |-> IF k = 0 THEN <<>> ELSE Anade(g[k - 1], s[k])]
    <2>1. ASSUME NEW k \in 1 .. N
          PROVE  g[k] = Anade(g[k - 1], s[k])
      <3>1. k - 1 \in 0 .. N
        BY <1>1
      <3>2. g[k - 1] \in V
        <4> HIDE DEF F, V
        <4>1. QED
          BY <3>1
      <3>3. F[k] = [q \in V |-> Anade(q, s[k])]
        OBVIOUS
      <3> HIDE DEF F, V
      <3>4. QED
        BY <1>4, <3>2, <3>3 DEF Bucle
    <2> HIDE DEF F, V
    <2>2. \A k \in 0 .. N : g[k] = IF k = 0 THEN <<>> ELSE Anade(g[k - 1], s[k])
      BY <1>4, <2>1 DEF Bucle
    <2>3. QED
      BY <2>2
  <1>6. quedan = [k \in 0 .. N |-> IF k = 0 THEN <<>> ELSE Anade(quedan[k - 1], s[k])]
    <2> HIDE DEF F, V
    <2>1. QED
      BY <1>5 DEF Anade
  <1> HIDE DEF quedan, F
  <1>7. quedan[0] = <<>> /\ \A k \in 1 .. N : quedan[k] = Anade(quedan[k - 1], s[k])
    BY <1>1, <1>6
  <1> DEFINE S == {k \in 0 .. N : Resumen(quedan[k], s, k, W)}
  <1>8. 0 \in S
    <2>1. Resumen(<<>>, s, 0, W)
      <3>1. {s[i] : i \in 1 .. 0} = {} /\ Elementos(<<>>) = {}
        BY DEF Elementos
      <3>2. Creciente(<<>>)
        BY DEF Creciente
      <3>3. QED
        BY <3>1, <3>2 DEF Resumen
    <2>2. QED
      BY <1>1, <1>7, <2>1
  <1>9. ASSUME NEW k \in 0 .. N - 1, k \in S
        PROVE  k + 1 \in S
    <2> DEFINE q == quedan[k]
               i == k + 1
    <2>1. i \in 1 .. N /\ i \in 1 .. Len(s) /\ i \in 0 .. N /\ i - 1 = k
      BY <1>1 DEF N
    <2>2. Resumen(q, s, i - 1, W)
      BY <1>9, <2>1
    <2>3. quedan[i] = Anade(q, s[i])
      BY <1>7, <2>1
    <2> HIDE DEF q, i
    <2>4. Resumen(Anade(q, s[i]), s, i, W)
      BY <2>1, <2>2, AnadeResumen
    <2>5. i \in S
      BY <2>1, <2>3, <2>4
    <2>6. QED
      BY <2>5 DEF i
  <1>10. N \in S
    <2> HIDE DEF S
    <2>1. 0 .. N \subseteq S
      BY <1>1, <1>8, <1>9, Induccion
    <2>2. QED
      BY <1>1, <2>1
  <1>11. QED
    BY <1>1, <1>10 DEF N

LEMMA OrdenadaEnOrden ==
  ASSUME NEW W \in SUBSET Cadena, NEW s \in Seq(W)
  PROVE  Ordenada(s) => EnOrden(s)
  <1> SUFFICES ASSUME Ordenada(s), NEW i \in DOMAIN s, NEW j \in DOMAIN s, i < j,
                      ~NoMayor(s[i], s[j])
               PROVE  FALSE
    BY DEF EnOrden
  <1> DEFINE n == Len(s)
             F == {k \in i .. n : ~NoMayor(s[i], s[k])}
  <1>1. n \in Nat /\ DOMAIN s = 1 .. n /\ i \in 1 .. n /\ j \in F
    OBVIOUS
  <1>2. PICK k \in F : \A l \in F : k <= l
    <2>1. F \in SUBSET Nat
      BY <1>1
    <2> HIDE DEF F
    <2>2. QED
      BY <1>1, <2>1, Minimo
  <1>3. k \in 1 .. n /\ k >= i /\ ~NoMayor(s[i], s[k])
    BY <1>1
  <1>4. \A l \in 1 .. n : s[l] \in Cadena
    OBVIOUS
  <1>5. k # i
    BY <1>1, <1>3, <1>4, Orden
  <1> DEFINE a == s[i]
             b == s[k - 1]
             c == s[k]
  <1>6. k - 1 \in 1 .. n /\ k - 1 >= i /\ k \in 2 .. n /\ ~(k <= k - 1)
    BY <1>1, <1>3, <1>5
  <1>7. a \in Cadena /\ b \in Cadena /\ c \in Cadena
    BY <1>1, <1>3, <1>4, <1>6
  <1>8. NoMayor(a, b)
    BY <1>2, <1>6
  <1>9. strcmp(b, c) <= 0
    BY <1>6 DEF Ordenada
  <1>10. ~NoMayor(a, c)
    BY <1>3
  <1> HIDE DEF a, b, c
  <1>11. NoMayor(b, c)
    <2>1. ~(strcmp(b, c) > 0) /\ (strcmp(b, c) > 0 <=> Menor(c, b))
      BY <1>7, <1>9, Strcmp
    <2>2. QED
      BY <2>1 DEF NoMayor
  <1>12. QED
    BY <1>7, <1>8, <1>10, <1>11, NoMayorTransitiva

\* r is s in order and without repetitions.
Depurada(r, s, W) ==
  /\ r \in Seq(W) /\ Len(r) <= Len(s)
  /\ Creciente(r)
  /\ Elementos(r) = Elementos(s)
  /\ Creciente(s) => r = s

\* blocklist_finalize, a heapsort and the removal of repetitions, keeps the
\* entries there were, in strict order, and leaves alone a list already so.
THEOREM Finaliza ==
  ASSUME NEW W \in SUBSET Cadena, NEW s \in Seq(W)
  PROVE  Depurada(blocklist_finalize(s), s, W)
  <1>1. ASSUME NEW t \in Seq(W), EnOrden(t)
        PROVE  Depurada(Dedupe(t), t, W)
    <2> DEFINE r == Dedupe(t)
               n == Len(t)
    <2>1. Resumen(r, t, n, W)
      BY <1>1, DedupeResumen
    <2> HIDE DEF r
    <2>2. n \in Nat /\ DOMAIN t = 1 .. n /\ Elementos(t) = {t[i] : i \in 1 .. n}
      BY DEF Elementos
    <2>3. Creciente(t) => r = t
      <3> SUFFICES ASSUME Creciente(t) PROVE r = t
        OBVIOUS
      <3>1. r \in Seq(W) /\ Len(r) = n /\ \A i \in 1 .. n : r[i] = t[i]
        BY <2>1 DEF Resumen
      <3>2. QED
        BY <2>2, <3>1
    <2>4. QED
      BY <2>1, <2>2, <2>3 DEF Resumen, Depurada, r
  <1>2. CASE Ordenada(s)
    <2>1. EnOrden(s) /\ blocklist_finalize(s) = Dedupe(s)
      BY <1>2, OrdenadaEnOrden DEF blocklist_finalize
    <2>2. QED
      BY <1>1, <2>1
  <1>3. CASE ~Ordenada(s)
    <2> DEFINE t == Heapsort(s)
               r == Dedupe(t)
    <2>1. blocklist_finalize(s) = r
      BY <1>3 DEF blocklist_finalize
    <2>2. s # <<>>
      BY <1>3 DEF Ordenada
    <2>3. t \in [1 .. Len(s) -> W] /\ EnOrden(t) /\ Elementos(t) = Elementos(s)
      BY <2>2, HeapsortOrdena
    <2> HIDE DEF t
    <2>4. t \in Seq(W) /\ Len(t) = Len(s)
      BY <2>3
    <2>5. Depurada(r, t, W)
      BY <1>1, <2>3, <2>4
    <2>6. ~Creciente(s)
      <3> SUFFICES ASSUME Creciente(s) PROVE Ordenada(s)
        BY <1>3
      <3> SUFFICES ASSUME NEW i \in 2 .. Len(s) PROVE strcmp(s[i - 1], s[i]) <= 0
        BY DEF Ordenada
      <3> DEFINE a == s[i - 1]
                 b == s[i]
      <3>1. i - 1 \in DOMAIN s /\ i \in DOMAIN s /\ i - 1 < i
        OBVIOUS
      <3>2. Menor(a, b)
        BY <3>1 DEF Creciente
      <3>3. a \in Cadena /\ b \in Cadena
        BY <3>1
      <3> HIDE DEF a, b
      <3>4. strcmp(a, b) < 0 /\ strcmp(a, b) \in Int
        BY <3>2, <3>3, Strcmp
      <3>5. strcmp(a, b) <= 0
        BY <3>4
      <3>6. QED
        BY <3>5 DEF a, b
    <2> HIDE DEF r
    <2>7. QED
      BY <2>1, <2>3, <2>4, <2>5, <2>6 DEF Depurada
  <1>4. QED
    BY <1>2, <1>3

-----------------------------------------------------------------------------
\* busca_paso: the binary search.

\* The first k bytes of q.
Prefijo(q, k) == SubSeq(q, 1, k)

LEMMA PrefijoTipo ==
  ASSUME NEW q \in Cadena, NEW k \in 0 .. Len(q)
  PROVE  /\ Prefijo(q, k) \in Cadena
         /\ Len(Prefijo(q, k)) = k
         /\ \A i \in Nat : Byte(Prefijo(q, k), i) = IF i < k THEN Byte(q, i) ELSE 0
  <1> DEFINE p == Prefijo(q, k)
  <1>1. p \in Cadena /\ Len(p) = k /\ \A i \in 1 .. k : p[i] = q[i]
    BY DEF Prefijo, Cadena
  <1>2. Len(q) \in Nat
    BY DEF Cadena
  <1> HIDE DEF p
  <1>3. ASSUME NEW i \in Nat
        PROVE  Byte(p, i) = IF i < k THEN Byte(q, i) ELSE 0
    <2>1. CASE i < k
      <3>1. i + 1 \in 1 .. k /\ i < Len(q)
        BY <1>2, <2>1
      <3>2. QED
        BY <1>1, <2>1, <3>1 DEF Byte
    <2>2. CASE ~(i < k)
      BY <1>1, <2>2 DEF Byte, NUL
    <2>3. QED
      BY <2>1, <2>2
  <1>4. QED
    BY <1>1, <1>3 DEF p

LEMMA ComparaSigno ==
  ASSUME NEW e \in Cadena, NEW q \in Cadena, NEW k \in 0 .. Len(q)
  PROVE  /\ Compara(e, q, k) \in Int
         /\ Compara(e, q, k) = 0 => e = Prefijo(q, k)
         /\ Compara(e, q, k) < 0 => Menor(e, Prefijo(q, k))
         /\ Compara(e, q, k) > 0 => Menor(Prefijo(q, k), e)
  <1> DEFINE p == Prefijo(q, k)
             c == strncmp(e, q, k)
             d == Compara(e, q, k)
  <1>1. k \in Nat /\ p \in Cadena /\ Len(p) = k
        /\ \A i \in Nat : Byte(p, i) = IF i < k THEN Byte(q, i) ELSE 0
    BY PrefijoTipo DEF Cadena
  <1>2. d = IF c = 0 /\ Byte(e, k) # 0 THEN 1 ELSE c
    BY DEF Compara, NUL
  <1>3. \/ Iguales(e, q, k) /\ c = 0
        \/ \E i \in 0 .. k - 1 : Iguales(e, q, i) /\ Byte(e, i) # Byte(q, i)
                                 /\ c = Byte(e, i) - Byte(q, i)
    BY <1>1, StrncmpForma
  <1> HIDE DEF p, c, d
  <1>4. CASE Iguales(e, q, k) /\ c = 0 /\ Byte(e, k) # 0
    <2>1. d = 1
      BY <1>2, <1>4
    <2>2. Iguales(p, e, k)
      BY <1>1, <1>4 DEF Iguales
    <2>3. Byte(p, k) < Byte(e, k)
      <3>1. Byte(p, k) = 0 /\ Byte(e, k) \in Nat
        BY <1>1, ByteTipo
      <3>2. QED
        BY <1>4, <3>1
    <2>4. Menor(p, e)
      BY <1>1, <2>2, <2>3 DEF Menor
    <2>5. QED
      BY <2>1, <2>4 DEF d, p
  <1>5. CASE Iguales(e, q, k) /\ c = 0 /\ Byte(e, k) = 0
    <2>1. d = 0
      BY <1>2, <1>5
    <2>2. Len(e) \in Nat /\ Len(e) <= k
      BY <1>1, <1>5, ByteTipo
    <2>3. Iguales(e, p, Len(e) + Len(p) + 1)
      <3> SUFFICES ASSUME NEW j \in 0 .. Len(e) + Len(p)
                   PROVE  Byte(e, j) = Byte(p, j)
        BY <1>1, <2>2 DEF Iguales
      <3>1. CASE j < k
        BY <1>1, <1>5, <3>1 DEF Iguales
      <3>2. CASE ~(j < k)
        <4>1. j \in Nat /\ j >= Len(e)
          BY <1>1, <2>2, <3>2
        <4>2. Byte(e, j) = 0
          BY <4>1, ByteTipo
        <4>3. QED
          BY <1>1, <3>2, <4>1, <4>2
      <3>3. QED
        BY <3>1, <3>2
    <2>4. e = p
      BY <1>1, <2>3, IgualesTodo
    <2>5. QED
      BY <2>1, <2>4 DEF d, p
  <1>6. ASSUME NEW i \in 0 .. k - 1, Iguales(e, q, i), Byte(e, i) # Byte(q, i),
               c = Byte(e, i) - Byte(q, i)
        PROVE  d \in Int /\ d # 0 /\ (d < 0 => Menor(e, p)) /\ (d > 0 => Menor(p, e))
    <2> DEFINE x == Byte(e, i)
               y == Byte(q, i)
    <2>1. x \in Nat /\ y \in Nat
      <3>1. i \in Nat
        BY <1>1
      <3>2. QED
        BY <3>1, ByteTipo
    <2>2. Iguales(e, p, i) /\ Iguales(p, e, i) /\ Byte(p, i) = y
      BY <1>1, <1>6 DEF Iguales
    <2> HIDE DEF x, y
    <2>3. c = x - y /\ x # y
      BY <1>6 DEF x, y
    <2>4. d = x - y
      BY <1>2, <2>1, <2>3
    <2>5. d \in Int /\ d # 0 /\ (d < 0 => x < y) /\ (d > 0 => y < x)
      BY <2>1, <2>3, <2>4
    <2>6. (x < y => Menor(e, p)) /\ (y < x => Menor(p, e))
      BY <1>1, <2>2 DEF Menor, x
    <2>7. QED
      BY <2>5, <2>6
  <1>7. QED
    BY <1>3, <1>4, <1>5, <1>6 DEF d, p

\* A turn of the binary search, ...
Divide(b, s, q, k) ==
  LET mid == b.lo + (b.hi - b.lo) \div 2
      c == Compara(s[mid + 1], q, k)
  IN IF b.exacta \/ b.lo >= b.hi THEN b
     ELSE [exacta |-> c = 0,
           lo |-> IF c < 0 THEN mid + 1 ELSE b.lo,
           hi |-> IF c < 0 THEN b.hi ELSE mid]

Tramo(s) == [exacta : BOOLEAN, lo : 0 .. Len(s), hi : 0 .. Len(s)]

\* ... and what it knows after n of them.
Acotada(b, s, q, k, n) ==
  /\ b \in Tramo(s)
  /\ b.exacta => Prefijo(q, k) \in Elementos(s)
  /\ ~b.exacta =>
       /\ b.lo <= b.hi /\ (b.lo = b.hi \/ b.hi - b.lo <= Len(s) - n)
       /\ \A i \in 1 .. b.lo : Menor(s[i], Prefijo(q, k))
       /\ \A i \in b.hi + 1 .. Len(s) : Menor(Prefijo(q, k), s[i])

LEMMA DivideTipo ==
  ASSUME NEW s \in Seq(Cadena), NEW q \in Cadena, NEW k \in 0 .. Len(q), NEW b \in Tramo(s)
  PROVE  Divide(b, s, q, k) \in Tramo(s)
  <1> DEFINE mid == b.lo + (b.hi - b.lo) \div 2
             c == Compara(s[mid + 1], q, k)
             d == [exacta |-> c = 0,
                   lo |-> IF c < 0 THEN mid + 1 ELSE b.lo,
                   hi |-> IF c < 0 THEN b.hi ELSE mid]
  <1>1. b.lo \in 0 .. Len(s) /\ b.hi \in 0 .. Len(s) /\ Len(s) \in Nat
    BY DEF Tramo
  <1>2. Divide(b, s, q, k) = IF b.exacta \/ b.lo >= b.hi THEN b ELSE d
    BY DEF Divide
  <1>3. b.lo < b.hi => mid \in 0 .. Len(s) /\ mid + 1 \in 0 .. Len(s)
    BY <1>1
  <1> HIDE DEF mid, c
  <1>4. b.lo < b.hi => d \in Tramo(s)
    BY <1>1, <1>3 DEF Tramo
  <1> HIDE DEF d
  <1>5. QED
    BY <1>1, <1>2, <1>4

LEMMA DivideAcota ==
  ASSUME NEW s \in Seq(Cadena), Creciente(s), NEW q \in Cadena, NEW k \in 0 .. Len(q),
         NEW n \in Nat, NEW b, Acotada(b, s, q, k, n)
  PROVE  Acotada(Divide(b, s, q, k), s, q, k, n + 1)
  <1> DEFINE lo == b.lo
             hi == b.hi
             p == Prefijo(q, k)
             mid == lo + (hi - lo) \div 2
             e == s[mid + 1]
             c == Compara(e, q, k)
             d == [exacta |-> c = 0,
                   lo |-> IF c < 0 THEN mid + 1 ELSE lo,
                   hi |-> IF c < 0 THEN hi ELSE mid]
  <1>1. /\ b \in Tramo(s) /\ lo \in 0 .. Len(s) /\ hi \in 0 .. Len(s) /\ Len(s) \in Nat
        /\ b.exacta \in BOOLEAN /\ DOMAIN s = 1 .. Len(s)
    BY DEF Acotada, Tramo
  <1>2. Divide(b, s, q, k) = IF b.exacta \/ lo >= hi THEN b ELSE d
    BY DEF Divide
  <1>3. CASE b.exacta
    BY <1>2, <1>3 DEF Acotada
  <1>4. CASE ~b.exacta /\ lo >= hi
    <2>1. Divide(b, s, q, k) = b /\ lo = hi
      BY <1>1, <1>2, <1>4 DEF Acotada
    <2>2. QED
      BY <1>1, <1>4, <2>1 DEF Acotada
  <1>5. CASE ~b.exacta /\ lo < hi
    <2>1. Divide(b, s, q, k) = d
      BY <1>1, <1>2, <1>5
    <2>2. /\ \A i \in 1 .. lo : Menor(s[i], p)
          /\ \A i \in hi + 1 .. Len(s) : Menor(p, s[i])
          /\ hi - lo <= Len(s) - n
      BY <1>1, <1>5 DEF Acotada
    <2>3. d \in Tramo(s)
      BY <1>1, <2>1, DivideTipo
    <2> HIDE DEF lo, hi
    <2>4. mid \in lo .. hi - 1 /\ mid - lo <= Len(s) - (n + 1) /\ hi - (mid + 1) <= Len(s) - (n + 1)
      BY <1>1, <1>5, <2>2
    <2> HIDE DEF mid
    <2>5. mid + 1 \in 1 .. Len(s) /\ mid + 1 \in DOMAIN s
      BY <1>1, <2>4
    <2>6. e \in Cadena /\ p \in Cadena /\ \A i \in 1 .. Len(s) : s[i] \in Cadena
      BY <1>1, <2>5, PrefijoTipo
    <2> HIDE DEF e, p
    <2>7. /\ c \in Int
          /\ c = 0 => e = p
          /\ c < 0 => Menor(e, p)
          /\ c > 0 => Menor(p, e)
      BY <2>6, ComparaSigno DEF p
    <2> HIDE DEF c
    <2>8. CASE c = 0
      <3>1. d.exacta = TRUE
        BY <2>8
      <3>2. p \in Elementos(s)
        BY <2>5, <2>7, <2>8 DEF e, Elementos
      <3> HIDE DEF d
      <3>3. QED
        BY <2>1, <2>3, <3>1, <3>2 DEF Acotada, p
    <2>9. CASE c < 0
      <3>1. ~d.exacta /\ d.lo = mid + 1 /\ d.hi = hi
        <4>1. (c = 0) = FALSE /\ (c < 0) = TRUE
          BY <2>7, <2>9
        <4>2. QED
          BY <4>1
      <3>2. ASSUME NEW i \in 1 .. mid + 1
            PROVE  Menor(s[i], p)
        <4>1. i \in DOMAIN s /\ s[i] \in Cadena
          BY <1>1, <2>5, <2>6
        <4>2. CASE i = mid + 1
          BY <2>7, <2>9, <4>2 DEF e
        <4>3. CASE i # mid + 1
          <5>1. i < mid + 1
            BY <1>1, <2>4, <4>3
          <5>2. Menor(s[i], e)
            BY <2>5, <4>1, <5>1 DEF Creciente, e
          <5>3. QED
            BY <2>6, <2>7, <2>9, <4>1, <5>2, MenorTransitiva
        <4>4. QED
          BY <4>2, <4>3
      <3>3. mid + 1 <= hi /\ hi - (mid + 1) <= Len(s) - (n + 1)
        BY <1>1, <2>4
      <3> HIDE DEF d
      <3>4. QED
        BY <2>1, <2>2, <2>3, <3>1, <3>2, <3>3 DEF Acotada, p
    <2>10. CASE c > 0
      <3>1. ~d.exacta /\ d.lo = lo /\ d.hi = mid
        <4>1. (c = 0) = FALSE /\ (c < 0) = FALSE
          BY <2>7, <2>10
        <4>2. QED
          BY <4>1
      <3>2. ASSUME NEW i \in mid + 1 .. Len(s)
            PROVE  Menor(p, s[i])
        <4>1. i \in DOMAIN s /\ i \in 1 .. Len(s) /\ s[i] \in Cadena
          BY <1>1, <2>5, <2>6
        <4>2. CASE i = mid + 1
          BY <2>7, <2>10, <4>2 DEF e
        <4>3. CASE i # mid + 1
          <5>1. mid + 1 < i
            BY <1>1, <2>4, <4>3
          <5>2. Menor(e, s[i])
            BY <2>5, <4>1, <5>1 DEF Creciente, e
          <5>3. QED
            BY <2>6, <2>7, <2>10, <4>1, <5>2, MenorTransitiva
        <4>4. QED
          BY <4>2, <4>3
      <3>3. lo <= mid /\ mid - lo <= Len(s) - (n + 1)
        BY <1>1, <2>4
      <3> HIDE DEF d
      <3>4. QED
        BY <2>1, <2>2, <2>3, <3>1, <3>2, <3>3 DEF Acotada, p
    <2>11. QED
      BY <2>7, <2>8, <2>9, <2>10
  <1>6. QED
    BY <1>1, <1>3, <1>4, <1>5

LEMMA BuscaBien ==
  ASSUME NEW s \in Seq(Cadena), Creciente(s), NEW q \in Cadena, NEW k \in 0 .. Len(q)
  PROVE  LET b == Busca(s, q, k) IN
           /\ b.exacta \in BOOLEAN /\ b.lo \in 0 .. Len(s)
           /\ b.exacta => Prefijo(q, k) \in Elementos(s)
           /\ ~b.exacta => /\ \A i \in 1 .. b.lo : Menor(s[i], Prefijo(q, k))
                           /\ \A i \in b.lo + 1 .. Len(s) : Menor(Prefijo(q, k), s[i])
  <1> DEFINE N == Len(s)
             v == [exacta |-> FALSE, lo |-> 0, hi |-> N]
             vuelta[n \in 0 .. N] ==
               IF n = 0 THEN v
               ELSE LET b == vuelta[n - 1]
                        mid == b.lo + (b.hi - b.lo) \div 2
                        c == Compara(s[mid + 1], q, k)
                    IN IF b.exacta \/ b.lo >= b.hi THEN b
                       ELSE [exacta |-> c = 0,
                             lo |-> IF c < 0 THEN mid + 1 ELSE b.lo,
                             hi |-> IF c < 0 THEN b.hi ELSE mid]
             V == Tramo(s)
             F == [n \in 1 .. N |-> [b \in V |-> Divide(b, s, q, k)]]
  <1>1. N \in Nat /\ v \in V /\ Busca(s, q, k) = vuelta[N]
    BY DEF Busca, Tramo
  <1>2. ASSUME NEW b \in V
        PROVE  Divide(b, s, q, k) \in V
    BY DivideTipo
  <1>3. Acotada(v, s, q, k, 0)
    <2>1. ~v.exacta /\ v.lo = 0 /\ v.hi = N
      OBVIOUS
    <2>2. (1 .. 0) = {} /\ (N + 1 .. N) = {} /\ 0 <= N /\ N - 0 <= N - 0
      BY <1>1
    <2> HIDE DEF v, V
    <2>3. QED
      BY <1>1, <2>1, <2>2 DEF Acotada, N, V
  <1> HIDE DEF N, V
  <1>4. F \in Pasos(N, V)
    BY <1>2 DEF Pasos
  <1>5. PICK g \in [0 .. N -> V] : Bucle(g, N, v, F)
    <2> HIDE DEF F, v
    <2>1. QED
      BY <1>1, <1>4, Recursion
  <1>6. g = [n \in 0 .. N |-> IF n = 0 THEN v ELSE Divide(g[n - 1], s, q, k)]
    <2>1. ASSUME NEW n \in 1 .. N
          PROVE  g[n] = Divide(g[n - 1], s, q, k)
      <3>1. n - 1 \in 0 .. N
        BY <1>1
      <3>2. g[n - 1] \in V
        BY <3>1
      <3>3. F[n] = [b \in V |-> Divide(b, s, q, k)]
        OBVIOUS
      <3> HIDE DEF F, v
      <3>4. QED
        BY <1>5, <3>2, <3>3 DEF Bucle
    <2> HIDE DEF F, v
    <2>2. \A n \in 0 .. N : g[n] = IF n = 0 THEN v ELSE Divide(g[n - 1], s, q, k)
      BY <1>5, <2>1 DEF Bucle
    <2>3. QED
      BY <2>2
  <1>7. vuelta = [n \in 0 .. N |-> IF n = 0 THEN v ELSE Divide(vuelta[n - 1], s, q, k)]
    <2> HIDE DEF F
    <2>1. QED
      BY <1>6 DEF Divide
  <1> HIDE DEF vuelta, F, v
  <1>8. vuelta[0] = v /\ \A n \in 1 .. N : vuelta[n] = Divide(vuelta[n - 1], s, q, k)
    BY <1>1, <1>7
  <1> DEFINE S == {n \in 0 .. N : Acotada(vuelta[n], s, q, k, n)}
  <1>9. 0 \in S
    BY <1>1, <1>3, <1>8
  <1>10. ASSUME NEW n \in 0 .. N - 1, n \in S
         PROVE  n + 1 \in S
    <2>1. n \in Nat /\ n + 1 \in 1 .. N /\ n + 1 \in 0 .. N /\ (n + 1) - 1 = n
      BY <1>1
    <2>2. Acotada(vuelta[n], s, q, k, n) /\ vuelta[n + 1] = Divide(vuelta[n], s, q, k)
      BY <1>8, <1>10, <2>1
    <2>3. Acotada(vuelta[n + 1], s, q, k, n + 1)
      BY <2>1, <2>2, DivideAcota
    <2>4. QED
      BY <2>1, <2>3
  <1>11. N \in S
    <2> HIDE DEF S
    <2>1. 0 .. N \subseteq S
      BY <1>1, <1>9, <1>10, Induccion
    <2>2. QED
      BY <1>1, <2>1
  <1> DEFINE b == vuelta[N]
  <1>12. Acotada(b, s, q, k, N)
    BY <1>11
  <1> HIDE DEF b
  <1>13. /\ b.exacta \in BOOLEAN /\ b.lo \in 0 .. N /\ b.hi \in 0 .. N
         /\ ~b.exacta => b.lo = b.hi
    <2>1. b.exacta \in BOOLEAN /\ b.lo \in 0 .. N /\ b.hi \in 0 .. N
      BY <1>12 DEF Acotada, Tramo, N
    <2>2. ~b.exacta => b.lo <= b.hi /\ (b.lo = b.hi \/ b.hi - b.lo <= N - N)
      BY <1>12 DEF Acotada, N
    <2>3. QED
      BY <1>1, <2>1, <2>2
  <1>14. QED
    BY <1>1, <1>12, <1>13 DEF Acotada, N, b

-----------------------------------------------------------------------------
\* busca_paso: from a predecessor to a shorter prefix.

LEMMA ComunForma ==
  ASSUME NEW e \in Cadena, NEW q \in Cadena, NEW k \in 0 .. Len(q)
  PROVE  LET c == Comun(e, q, k) IN
           /\ c \in 0 .. k /\ c <= Len(e) /\ Iguales(e, q, c)
           /\ c = k \/ c >= Len(e) \/ Byte(e, c) # Byte(q, c)
  <1> DEFINE Fin(c) == c = k \/ c >= Len(e) \/ Byte(e, c) # Byte(q, c)
             Es(c) == (\A i \in 0 .. c - 1 : Byte(e, i) = Byte(q, i)) /\ Fin(c)
             D == {c \in 0 .. k : Fin(c)}
             c == Comun(e, q, k)
  <1>1. k \in Nat /\ Len(e) \in Nat /\ Len(q) \in Nat
    BY DEF Cadena
  <1>2. PICK d \in D : \A j \in D : d <= j
    <2>1. D \in SUBSET Nat /\ k \in D
      BY <1>1
    <2> HIDE DEF D
    <2>2. QED
      BY <2>1, Minimo
  <1>3. ASSUME NEW i \in 0 .. d - 1
        PROVE  Byte(e, i) = Byte(q, i)
    <2>1. i \in 0 .. k /\ ~(d <= i)
      BY <1>1
    <2>2. i \notin D
      BY <1>2, <2>1
    <2>3. QED
      BY <2>1, <2>2
  <1>4. d \in 0 .. k /\ Es(d)
    BY <1>2, <1>3
  <1>5. c = CHOOSE x \in 0 .. k : Es(x)
    BY DEF Comun
  <1>6. c \in 0 .. k /\ Es(c)
    <2> HIDE DEF Es, c
    <2>1. QED
      BY <1>4, <1>5
  <1> HIDE DEF c
  <1>7. c <= Len(e)
    <2> SUFFICES ASSUME c > Len(e) PROVE FALSE
      BY <1>1, <1>6
    <2>1. Len(e) \in 0 .. c - 1 /\ Len(e) < Len(q)
      BY <1>1, <1>6
    <2>2. Byte(e, Len(e)) = Byte(q, Len(e))
      BY <1>6, <2>1
    <2>3. Byte(e, Len(e)) = 0 /\ Byte(q, Len(e)) # 0
      BY <1>1, <2>1, ByteTipo
    <2>4. QED
      BY <2>2, <2>3
  <1>8. QED
    BY <1>6, <1>7 DEF c, Iguales

LEMMA SiguienteForma ==
  ASSUME NEW q \in Cadena, NEW c \in Nat
  PROVE  LET p == SiguientePrefijo(q, c) IN
           /\ p \in 0 .. c
           /\ p # 0 => Byte(q, p) = PUNTO
           /\ \A i \in 1 .. c : Byte(q, i) = PUNTO => i <= p
  <1> DEFINE A == {i \in 1 .. c : Byte(q, i) = PUNTO}
             p == SiguientePrefijo(q, c)
  <1>1. p = IF A = {} THEN 0 ELSE CHOOSE i \in A : \A o \in A : o <= i
    BY DEF SiguientePrefijo
  <1>2. CASE A = {}
    BY <1>1, <1>2
  <1>3. CASE A # {}
    <2> DEFINE B == {c - i : i \in A}
    <2>1. PICK d \in B : \A x \in B : d <= x
      <3>1. B \in SUBSET Nat /\ B # {}
        BY <1>3
      <3> HIDE DEF B
      <3>2. QED
        BY <3>1, Minimo
    <2>2. PICK m \in A : d = c - m
      OBVIOUS
    <2>3. \A o \in A : o <= m
      <3> SUFFICES ASSUME NEW o \in A PROVE o <= m
        OBVIOUS
      <3>1. c - m <= c - o
        BY <2>1, <2>2
      <3>2. QED
        BY <3>1
    <2> HIDE DEF A, p
    <2>4. p \in A /\ \A o \in A : o <= p
      BY <1>1, <1>3, <2>3
    <2>5. QED
      BY <2>4 DEF A, p
  <1>4. QED
    BY <1>2, <1>3

\* e is the first k bytes of q, or ends there at a label.
Padre(e, q, k) ==
  /\ Len(e) <= k /\ Iguales(e, q, Len(e))
  /\ Len(e) = k \/ Byte(q, Len(e)) = PUNTO

LEMMA PrefijoNoMayor ==
  ASSUME NEW e \in Cadena, NEW q \in Cadena, NEW k \in 0 .. Len(q),
         Len(e) <= k, Iguales(e, q, Len(e))
  PROVE  ~Menor(Prefijo(q, k), e)
  <1> DEFINE p == Prefijo(q, k)
  <1>1. \A i \in Nat : Byte(p, i) = IF i < k THEN Byte(q, i) ELSE 0
    BY PrefijoTipo
  <1> HIDE DEF p
  <1> SUFFICES ASSUME NEW i \in Nat, Byte(p, i) < Byte(e, i)
               PROVE  FALSE
    BY DEF Menor, p
  <1>2. Byte(e, i) # 0 /\ Len(e) \in Nat /\ k \in Nat
    <2>1. Byte(e, i) \in Nat /\ Byte(q, i) \in Nat
      BY ByteTipo
    <2>2. Byte(p, i) \in Nat
      BY <1>1, <2>1
    <2>3. QED
      BY <2>1, <2>2 DEF Cadena
  <1>3. i < Len(e)
    BY <1>2, ByteTipo
  <1>4. Byte(p, i) = Byte(q, i) /\ Byte(e, i) = Byte(q, i)
    BY <1>1, <1>2, <1>3 DEF Iguales
  <1>5. Byte(e, i) \in Nat
    BY ByteTipo
  <1>6. QED
    BY <1>4, <1>5

\* What lies between a prefix of q and q begins with that prefix.
LEMMA Emparedado ==
  ASSUME NEW e \in Cadena, NEW x \in Cadena, NEW q \in Cadena, NEW k \in 0 .. Len(q),
         Len(e) <= k, Iguales(e, q, Len(e)), Menor(e, x), Menor(x, Prefijo(q, k))
  PROVE  Iguales(e, x, Len(e)) /\ Len(e) <= Len(x)
  <1> DEFINE p == Prefijo(q, k)
  <1>1. p \in Cadena /\ \A i \in Nat : Byte(p, i) = IF i < k THEN Byte(q, i) ELSE 0
    BY PrefijoTipo
  <1>2. Menor(x, p)
    OBVIOUS
  <1> HIDE DEF p
  <1>3. PICK i \in Nat : Iguales(e, x, i) /\ Byte(e, i) < Byte(x, i)
    BY DEF Menor
  <1>4. Len(e) \in Nat /\ Len(x) \in Nat /\ k \in Nat
    BY DEF Cadena
  <1>5. i >= Len(e)
    <2> SUFFICES ASSUME i < Len(e) PROVE FALSE
      BY <1>4
    <2>1. \A j \in 0 .. i : Byte(p, j) = Byte(e, j)
      BY <1>1, <1>4 DEF Iguales
    <2>2. Iguales(p, x, i) /\ Byte(p, i) < Byte(x, i)
      BY <1>3, <2>1 DEF Iguales
    <2>3. Menor(p, x)
      BY <2>2 DEF Menor
    <2>4. QED
      BY <1>1, <1>2, <2>3, Strcmp
  <1>6. Iguales(e, x, Len(e))
    BY <1>3, <1>4, <1>5 DEF Iguales
  <1>7. Len(e) <= Len(x)
    <2> SUFFICES ASSUME Len(x) < Len(e) PROVE FALSE
      BY <1>4
    <2>1. Byte(e, Len(x)) = Byte(x, Len(x))
      BY <1>4, <1>6 DEF Iguales
    <2>2. QED
      BY <1>4, <2>1, ByteTipo
  <1>8. QED
    BY <1>6, <1>7

\* Some entry of s is the first k bytes of q, or ends there at a label.
HayPadre(s, q, k) == \E e \in Elementos(s) : Padre(e, q, k)

LEMMA PasoBien ==
  ASSUME NEW s \in Seq(Cadena \ {<<>>}), Creciente(s), NEW q \in Cadena, NEW k \in 0 .. Len(q)
  PROVE  LET b == busca_paso(s, q, k) IN
           \/ b.r = 1 /\ HayPadre(s, q, k)
           \/ b.r = -1 /\ ~HayPadre(s, q, k)
           \/ b.r = 0 /\ b.next \in 1 .. k - 1 /\ (HayPadre(s, q, k) <=> HayPadre(s, q, b.next))
  <1> DEFINE bu == Busca(s, q, k)
             pre == Prefijo(q, k)
             pred == s[bu.lo]
             c == Comun(pred, q, k)
             p == SiguientePrefijo(q, c)
             b == busca_paso(s, q, k)
  <1>1. s \in Seq(Cadena) /\ k \in Nat /\ Len(s) \in Nat /\ DOMAIN s = 1 .. Len(s) /\ Len(q) \in Nat
    BY DEF Cadena
  <1>2. /\ pre \in Cadena /\ Len(pre) = k
        /\ \A i \in Nat : Byte(pre, i) = IF i < k THEN Byte(q, i) ELSE 0
    BY PrefijoTipo
  <1>3. /\ bu.exacta \in BOOLEAN /\ bu.lo \in 0 .. Len(s)
        /\ bu.exacta => pre \in Elementos(s)
        /\ ~bu.exacta => /\ \A i \in 1 .. bu.lo : Menor(s[i], pre)
                         /\ \A i \in bu.lo + 1 .. Len(s) : Menor(pre, s[i])
    BY <1>1, BuscaBien
  <1>4. \A e \in Elementos(s) : e \in Cadena /\ Len(e) \in Nat \ {0}
    <2> SUFFICES ASSUME NEW i \in 1 .. Len(s) PROVE s[i] \in Cadena /\ Len(s[i]) \in Nat \ {0}
      BY <1>1 DEF Elementos
    <2> DEFINE e == s[i]
    <2>1. e \in Cadena /\ e # <<>>
      OBVIOUS
    <2> HIDE DEF e
    <2>2. e \in Cadena /\ Len(e) \in Nat \ {0}
      BY <2>1 DEF Cadena
    <2>3. QED
      BY <2>2 DEF e
  <1>5. CASE bu.exacta
    <2>1. b = [r |-> 1, next |-> 0]
      BY <1>5 DEF busca_paso
    <2>2. Iguales(pre, q, k)
      BY <1>1, <1>2 DEF Iguales
    <2>3. Padre(pre, q, k)
      BY <1>1, <1>2, <2>2 DEF Padre
    <2>4. HayPadre(s, q, k)
      BY <1>3, <1>5, <2>3 DEF HayPadre
    <2> HIDE DEF b
    <2>5. QED
      BY <2>1, <2>4 DEF b
  <1>6. CASE ~bu.exacta /\ bu.lo = 0
    <2>1. b = [r |-> -1, next |-> 0]
      BY <1>6 DEF busca_paso
    <2>2. ~HayPadre(s, q, k)
      <3> SUFFICES ASSUME NEW i \in 1 .. Len(s), Padre(s[i], q, k)
                   PROVE  FALSE
        BY <1>1 DEF HayPadre, Elementos
      <3> DEFINE e == s[i]
      <3>1. e \in Elementos(s)
        BY <1>1 DEF Elementos
      <3>2. i \in bu.lo + 1 .. Len(s)
        BY <1>6
      <3>3. Menor(pre, e)
        BY <1>3, <1>6, <3>2
      <3> HIDE DEF e
      <3>4. Len(e) <= k /\ Iguales(e, q, Len(e))
        BY DEF Padre, e
      <3>5. QED
        BY <1>4, <3>1, <3>3, <3>4, PrefijoNoMayor
    <2> HIDE DEF b
    <2>3. QED
      BY <2>1, <2>2 DEF b
  <1>7. CASE ~bu.exacta /\ bu.lo # 0
    <2> DEFINE lo == bu.lo
    <2>1. b = IF c >= Len(pred) /\ EnLimite(q, c, k) THEN [r |-> 1, next |-> 0]
              ELSE [r |-> IF p = 0 THEN -1 ELSE 0, next |-> p]
      BY <1>7 DEF busca_paso
    <2>2. /\ lo \in 1 .. Len(s)
          /\ \A i \in 1 .. lo : Menor(s[i], pre)
          /\ \A i \in lo + 1 .. Len(s) : Menor(pre, s[i])
      BY <1>1, <1>3, <1>7
    <2> HIDE DEF b, bu
    <2>3. pred \in Elementos(s) /\ pred = s[lo]
      BY <1>1, <2>2 DEF Elementos
    <2>4. Menor(pred, pre)
      BY <1>1, <2>2
    <2> HIDE DEF pred
    <2>5. pred \in Cadena /\ Len(pred) \in Nat \ {0}
      BY <1>4, <2>3
    <2>6. /\ c \in 0 .. k /\ c <= Len(pred) /\ Iguales(pred, q, c)
          /\ c = k \/ c >= Len(pred) \/ Byte(pred, c) # Byte(q, c)
      BY <2>5, ComunForma
    <2> HIDE DEF c
    <2>7. /\ p \in 0 .. c
          /\ p # 0 => Byte(q, p) = PUNTO
          /\ \A i \in 1 .. c : Byte(q, i) = PUNTO => i <= p
      <3>1. c \in Nat
        BY <2>6
      <3>2. QED
        BY <3>1, SiguienteForma
    <2> HIDE DEF p, pre
    <2>8. ASSUME NEW e \in Elementos(s), Len(e) <= k, Iguales(e, q, Len(e))
          PROVE  Len(e) <= c
      <3>1. e \in Cadena /\ Len(e) \in Nat \ {0}
        BY <1>4
      <3>2. PICK j \in 1 .. Len(s) : e = s[j]
        BY <1>1 DEF Elementos
      <3>3. ~Menor(pre, e)
        BY <2>8, <3>1, PrefijoNoMayor DEF pre
      <3>4. j <= lo
        BY <1>1, <2>2, <3>2, <3>3
      <3>5. Iguales(e, pred, Len(e)) /\ Len(e) <= Len(pred)
        <4>1. CASE j = lo
          <5>1. e = pred
            BY <2>3, <3>2, <4>1
          <5>2. QED
            BY <2>5, <5>1 DEF Iguales
        <4>2. CASE j # lo
          <5>1. j < lo
            BY <2>2, <3>2, <3>4, <4>2
          <5>2. Menor(e, pred)
            BY <1>1, <2>2, <2>3, <3>2, <5>1 DEF Creciente
          <5>3. QED
            BY <2>4, <2>5, <2>8, <3>1, <5>2, Emparedado DEF pre
        <4>3. QED
          BY <4>1, <4>2
      <3>6. QED
        <4> SUFFICES ASSUME c < Len(e) PROVE FALSE
          BY <1>1, <2>6, <3>1
        <4>1. c \in 0 .. Len(e) - 1 /\ c # k /\ ~(c >= Len(pred))
          BY <1>1, <2>5, <2>6, <2>8, <3>1, <3>5
        <4>2. Byte(e, c) = Byte(pred, c) /\ Byte(e, c) = Byte(q, c)
          BY <2>8, <3>5, <4>1 DEF Iguales
        <4>3. QED
          BY <2>6, <4>1, <4>2
    <2>9. CASE c >= Len(pred) /\ EnLimite(q, c, k)
      <3>1. c = Len(pred)
        BY <1>1, <2>5, <2>6, <2>9
      <3>2. Padre(pred, q, k)
        BY <1>1, <2>6, <2>9, <3>1 DEF Padre, EnLimite
      <3>3. b.r = 1 /\ HayPadre(s, q, k)
        BY <2>1, <2>3, <2>9, <3>2 DEF HayPadre
      <3>4. QED
        BY <3>3 DEF b
    <2>10. CASE ~(c >= Len(pred) /\ EnLimite(q, c, k))
      <3>1. b = [r |-> IF p = 0 THEN -1 ELSE 0, next |-> p]
        BY <2>1, <2>10
      <3>2. c < k
        <4> SUFFICES ASSUME c = k PROVE FALSE
          BY <1>1, <2>6
        <4>1. PICK i \in Nat : Iguales(pred, pre, i) /\ Byte(pred, i) < Byte(pre, i)
          BY <2>4 DEF Menor
        <4>2. Byte(pred, i) \in Nat
          BY <2>5, ByteTipo
        <4>3. i < k
          <5> SUFFICES ASSUME ~(i < k) PROVE FALSE
            OBVIOUS
          <5>1. Byte(pre, i) = 0
            BY <1>2
          <5>2. QED
            BY <4>1, <4>2, <5>1
        <4>4. Byte(pre, i) = Byte(q, i) /\ Byte(pred, i) = Byte(q, i)
          BY <1>1, <1>2, <2>6, <4>3 DEF Iguales
        <4>5. QED
          BY <4>1, <4>2, <4>4
      <3>3. ASSUME HayPadre(s, q, k)
            PROVE  p # 0 /\ HayPadre(s, q, p)
        <4>1. PICK e \in Elementos(s) : Padre(e, q, k)
          BY <3>3 DEF HayPadre
        <4>2. Len(e) \in Nat \ {0} /\ Len(e) <= c
          BY <1>4, <2>8, <4>1 DEF Padre
        <4>3. Byte(q, Len(e)) = PUNTO /\ Iguales(e, q, Len(e))
          BY <1>1, <2>6, <3>2, <4>1, <4>2 DEF Padre
        <4>4. Len(e) \in 1 .. c
          BY <2>6, <4>2
        <4>5. Len(e) <= p
          BY <2>7, <4>3, <4>4
        <4>6. Padre(e, q, p)
          BY <4>3, <4>5 DEF Padre
        <4>7. QED
          BY <2>7, <4>2, <4>5, <4>6 DEF HayPadre
      <3>4. ASSUME p # 0, HayPadre(s, q, p)
            PROVE  HayPadre(s, q, k)
        <4>1. PICK e \in Elementos(s) : Padre(e, q, p)
          BY <3>4 DEF HayPadre
        <4>2. Byte(q, Len(e)) = PUNTO
          BY <2>7, <3>4, <4>1 DEF Padre
        <4>3. Len(e) <= k
          BY <1>1, <1>4, <2>6, <2>7, <4>1 DEF Padre
        <4>4. Padre(e, q, k)
          BY <4>1, <4>2, <4>3 DEF Padre
        <4>5. QED
          BY <4>4 DEF HayPadre
      <3>5. CASE p = 0
        <4>1. b.r = -1 /\ ~HayPadre(s, q, k)
          BY <3>1, <3>3, <3>5
        <4>2. QED
          BY <4>1 DEF b
      <3>6. CASE p # 0
        <4>1. p \in 1 .. k - 1
          BY <1>1, <2>6, <2>7, <3>2, <3>6
        <4>2. b.r = 0 /\ b.next = p
          BY <3>1, <3>6
        <4>3. HayPadre(s, q, k) <=> HayPadre(s, q, p)
          BY <3>3, <3>4, <3>6
        <4>4. QED
          BY <4>1, <4>2, <4>3 DEF b
      <3>7. QED
        BY <3>5, <3>6
    <2>11. QED
      BY <2>9, <2>10
  <1>8. QED
    BY <1>3, <1>5, <1>6, <1>7

LEMMA PadreSufijo ==
  ASSUME NEW e \in Cadena \ {<<>>}, NEW q \in Cadena
  PROVE  Padre(e, q, Len(q)) <=> domain_suffix_match(e, q)
  <1> DEFINE n == Len(e)
             m == Len(q)
  <1>1. n \in Nat \ {0} /\ m \in Nat /\ e \in Seq(Nat) /\ q \in Seq(Nat)
    BY DEF Cadena
  <1>2. ASSUME n <= m
        PROVE  /\ Iguales(e, q, n) <=> SubSeq(q, 1, n) = e
               /\ n # m => Byte(q, n) = q[n + 1]
    <2> DEFINE t == SubSeq(q, 1, n)
    <2>1. t \in Seq(Nat) /\ Len(t) = n /\ \A i \in 1 .. n : t[i] = q[i]
      BY <1>1, <1>2
    <2>2. t = e <=> \A i \in 1 .. n : q[i] = e[i]
      <3>1. (\A i \in 1 .. n : t[i] = e[i]) => t = e
        <4> SUFFICES ASSUME \A i \in 1 .. n : t[i] = e[i]
                     PROVE  t = e
          OBVIOUS
        <4>1. t \in Seq(Nat) /\ e \in Seq(Nat) /\ Len(t) = Len(e)
              /\ \A i \in 1 .. Len(e) : t[i] = e[i]
          BY <1>1, <2>1
        <4> HIDE DEF t, n
        <4>2. QED
          BY <4>1
      <3>2. QED
        BY <2>1, <3>1
    <2>3. Iguales(e, q, n) <=> \A i \in 1 .. n : q[i] = e[i]
      <3>1. \A j \in 0 .. n - 1 : Byte(e, j) = e[j + 1] /\ Byte(q, j) = q[j + 1]
        BY <1>1, <1>2 DEF Byte
      <3>2. ASSUME Iguales(e, q, n), NEW i \in 1 .. n
            PROVE  q[i] = e[i]
        <4>1. i - 1 \in 0 .. n - 1 /\ (i - 1) + 1 = i
          BY <1>1
        <4>2. QED
          BY <3>1, <3>2, <4>1 DEF Iguales
      <3>3. ASSUME \A i \in 1 .. n : q[i] = e[i], NEW j \in 0 .. n - 1
            PROVE  Byte(e, j) = Byte(q, j)
        <4>1. j + 1 \in 1 .. n
          BY <1>1
        <4>2. QED
          BY <3>1, <3>3, <4>1
      <3>4. QED
        BY <3>2, <3>3 DEF Iguales
    <2>4. n # m => Byte(q, n) = q[n + 1]
      BY <1>1, <1>2 DEF Byte
    <2>5. QED
      BY <2>2, <2>3, <2>4
  <1>3. QED
    BY <1>1, <1>2 DEF Padre, domain_suffix_match

\* blocklist_contains finds a name of the list, or a parent in it, and nothing else.
THEOREM Contiene ==
  ASSUME NEW s \in Seq(Cadena \ {<<>>}), Creciente(s), NEW q \in Cadena
  PROVE  blocklist_contains(s, q) <=> \E e \in Elementos(s) : domain_suffix_match(e, q)
  <1> DEFINE N == Len(q)
             Va(f, k) == LET b == busca_paso(s, q, k) IN b.r = 1 \/ (b.r = 0 /\ f[b.next])
             prueba[k \in 0 .. N] ==
               LET b == busca_paso(s, q, k) IN b.r = 1 \/ (b.r = 0 /\ prueba[b.next])
             g == [k \in 0 .. N |-> HayPadre(s, q, k)]
  <1>1. N \in Nat
    BY DEF Cadena
  <1>2. ASSUME NEW k \in 0 .. N
        PROVE  LET b == busca_paso(s, q, k) IN
                 \/ b.r = 1 /\ HayPadre(s, q, k)
                 \/ b.r = -1 /\ ~HayPadre(s, q, k)
                 \/ b.r = 0 /\ b.next \in 1 .. k - 1
                    /\ (HayPadre(s, q, k) <=> HayPadre(s, q, b.next))
    BY PasoBien
  <1>3. ASSUME NEW f, NEW k \in 0 .. N,
               \A j \in 1 .. k - 1 : f[j] <=> HayPadre(s, q, j)
        PROVE  Va(f, k) <=> HayPadre(s, q, k)
    <2> DEFINE b == busca_paso(s, q, k)
    <2>1. \/ b.r = 1 /\ HayPadre(s, q, k)
          \/ b.r = -1 /\ ~HayPadre(s, q, k)
          \/ b.r = 0 /\ b.next \in 1 .. k - 1
             /\ (HayPadre(s, q, k) <=> HayPadre(s, q, b.next))
      BY <1>2
    <2>2. Va(f, k) <=> (b.r = 1 \/ (b.r = 0 /\ f[b.next]))
      OBVIOUS
    <2> HIDE DEF b, Va
    <2>3. CASE b.r = 1 /\ HayPadre(s, q, k)
      BY <2>2, <2>3
    <2>4. CASE b.r = -1 /\ ~HayPadre(s, q, k)
      <3>1. b.r # 1 /\ b.r # 0
        BY <2>4
      <3>2. QED
        BY <2>2, <2>4, <3>1, Zenon
    <2>5. CASE b.r = 0 /\ b.next \in 1 .. k - 1
               /\ (HayPadre(s, q, k) <=> HayPadre(s, q, b.next))
      <3>1. b.r # 1
        BY <2>5
      <3>2. f[b.next] <=> HayPadre(s, q, b.next)
        BY <1>3, <2>5, Zenon
      <3>3. QED
        BY <2>2, <2>5, <3>1, <3>2, Zenon
    <2>6. QED
      BY <2>1, <2>3, <2>4, <2>5
  <1>4. g = [k \in 0 .. N |-> Va(g, k)]
    <2>1. ASSUME NEW k \in 0 .. N
          PROVE  Va(g, k) = HayPadre(s, q, k)
      <3>1. \A j \in 1 .. k - 1 : j \in 0 .. N
        BY <1>1
      <3>2. \A j \in 1 .. k - 1 : g[j] <=> HayPadre(s, q, j)
        BY <3>1, Zenon
      <3> HIDE DEF g, Va
      <3>3. Va(g, k) <=> HayPadre(s, q, k)
        BY <1>3, <3>2
      <3> DEFINE u == Va(g, k)
                 w == HayPadre(s, q, k)
      <3>4. u \in BOOLEAN /\ w \in BOOLEAN /\ (u <=> w)
        BY <3>3 DEF Va, HayPadre
      <3> HIDE DEF u, w
      <3>5. u = w
        BY <3>4
      <3>6. QED
        BY <3>5 DEF u, w
    <2> HIDE DEF Va
    <2>2. QED
      BY <2>1, Zenon
  <1>5. prueba = [k \in 0 .. N |-> Va(prueba, k)]
    <2> HIDE DEF g
    <2>1. QED
      BY <1>4
  <1> HIDE DEF prueba, Va, g
  <1>6. \A k \in 0 .. N : prueba[k] <=> Va(prueba, k)
    BY <1>5, Zenon
  <1> DEFINE M == {k \in 0 .. N : ~(prueba[k] <=> HayPadre(s, q, k))}
  <1>7. M = {}
    <2> SUFFICES ASSUME M # {} PROVE FALSE
      OBVIOUS
    <2>1. PICK k \in M : \A j \in M : k <= j
      <3>1. M \in SUBSET Nat
        BY <1>1
      <3> HIDE DEF M
      <3>2. QED
        BY <3>1, Minimo
    <2>2. k \in 0 .. N /\ ~(prueba[k] <=> HayPadre(s, q, k))
      BY Zenon
    <2>3. ASSUME NEW j \in 1 .. k - 1
          PROVE  prueba[j] <=> HayPadre(s, q, j)
      <3>1. j \in 0 .. N /\ ~(k <= j)
        BY <1>1, <2>2
      <3>2. QED
        BY <2>1, <3>1, Zenon
    <2> HIDE DEF M
    <2>4. Va(prueba, k) <=> HayPadre(s, q, k)
      BY <1>3, <2>2, <2>3
    <2>5. QED
      BY <1>6, <2>2, <2>4, Zenon
  <1>8. prueba[N] <=> HayPadre(s, q, N)
    <2>1. N \in 0 .. N
      BY <1>1
    <2>2. QED
      BY <1>7, <2>1, Zenon
  <1>9. blocklist_contains(s, q) <=> s # <<>> /\ prueba[N]
    BY DEF blocklist_contains, prueba
  <1>10. \A e \in Elementos(s) : e \in Cadena \ {<<>>}
    BY DEF Elementos
  <1>11. s = <<>> => Elementos(s) = {}
    BY DEF Elementos
  <1>12. HayPadre(s, q, N) <=> \E e \in Elementos(s) : domain_suffix_match(e, q)
    <2>1. \A e \in Elementos(s) : Padre(e, q, N) <=> domain_suffix_match(e, q)
      BY <1>10, PadreSufijo
    <2>2. QED
      BY <2>1, Zenon DEF HayPadre
  <1>13. QED
    BY <1>8, <1>9, <1>11, <1>12, Zenon

-----------------------------------------------------------------------------
\* The list in use, the partition and what is in them.

Tipos ==
  /\ TypeOK
  /\ bl = Lista(bl.idx, bl.state) /\ bl.idx \in Seq(Todas)
  /\ part = Particion(part.magia, part.entradas) /\ part.entradas \in Seq(Todas)

\* The index has what was put in it, in order when it is in service.
EnServicio ==
  /\ Elementos(bl.idx) = puestas
  /\ bl.state = "ACTIVE" => Creciente(bl.idx)

\* A list is written to the partition when in service, and read into an empty one.
Fases ==
  /\ tarea \in {"borra", "escribe"} => bl.state = "ACTIVE"
  /\ tarea = "carga" => bl.state # "ACTIVE"

\* With no update under way the list in use is what the partition gives.
Guardada ==
  tarea = "no" /\ bl.state = "ACTIVE" /\ bl.idx # <<>> =>
    bl.idx = Finalizada(IF HayLista THEN part.entradas ELSE LISTA_PRUEBA)

Invariante == Tipos /\ EnServicio /\ Fases /\ Guardada

LEMMA TodasNombres ==
  /\ Todas \in SUBSET Cadena /\ Todas \in SUBSET (Cadena \ {<<>>})
  /\ \A q \in Consultas : q \in Cadena
  <1>1. ASSUME NEW n \in Todas \cup Consultas
        PROVE  n \in Cadena \ {<<>>}
    <2>1. EsNombre(n)
      BY ListaAssumption
    <2>2. QED
      BY <2>1 DEF EsNombre, Cadena, NUL
  <1> HIDE DEF Cadena, Todas
  <1>2. QED
    BY <1>1

LEMMA FinalizadaBien ==
  ASSUME NEW s \in Seq(Todas), Len(s) <= INDEX_CAP
  PROVE  /\ Finalizada(s) \in Seq(Todas) /\ Len(Finalizada(s)) <= INDEX_CAP
         /\ Creciente(Finalizada(s))
         /\ Elementos(Finalizada(s)) = Elementos(s)
         /\ Creciente(s) => Finalizada(s) = s
  <1> USE ListaAssumption DEF Todas
  <1> DEFINE W == Todas
             r == blocklist_finalize(s)
             t == CHOOSE t \in Tabla : t[1] = s
  <1> HIDE DEF Todas
  <1>1. Len(s) \in 0 .. INDEX_CAP /\ s \in [1 .. Len(s) -> W]
    OBVIOUS
  <1>2. s \in Indices
    BY <1>1 DEF Indices
  <1>3. <<s, r>> \in Tabla
    BY <1>2 DEF Tabla
  <1> HIDE DEF r
  <1>4. \E u \in Tabla : u[1] = s
    BY <1>3
  <1>5. t \in Tabla /\ t[1] = s
    BY <1>4
  <1>6. PICK u \in Indices : t = <<u, blocklist_finalize(u)>>
    BY <1>5 DEF Tabla
  <1> HIDE DEF t
  <1>7. t[2] = r
    <2>1. t[1] = u /\ t[2] = blocklist_finalize(u)
      BY <1>6
    <2>2. QED
      BY <1>5, <2>1 DEF r
  <1>8. Finalizada(s) = r
    BY <1>7 DEF Finalizada, t
  <1>9. Depurada(r, s, W)
    BY TodasNombres, Finaliza DEF r
  <1>10. Len(r) <= INDEX_CAP
    BY <1>1, <1>9 DEF Depurada
  <1>11. QED
    BY <1>8, <1>9, <1>10 DEF Depurada

LEMMA InvarianteInicial == Init => Invariante
  <1> SUFFICES ASSUME Init PROVE Invariante
    OBVIOUS
  <1> USE ListaAssumption DEF Init, Lista, Particion
  <1>1. Tipos
    <2>1. <<>> \in Seq(Todas) /\ Len(<<>>) = 0 /\ Previa \in Seq(Todas)
      OBVIOUS
    <2>2. /\ bl.idx = <<>> /\ bl.state = "EMPTY" /\ part.entradas = Previa
          /\ part.magia \in BOOLEAN /\ buscando \in BOOLEAN /\ puestas = {}
          /\ tarea = "arranca" /\ lineas = 0 /\ cortes = 0 /\ fallos = 0
      OBVIOUS
    <2>3. /\ 0 \in 0 .. MaxLineas /\ 0 \in 0 .. MaxCortes /\ 0 \in 0 .. MaxFallos
          /\ 0 <= INDEX_CAP /\ Len(Previa) <= INDEX_CAP
      OBVIOUS
    <2>4. TypeOK
      <3> HIDE ListaAssumption DEF Init, Lista, Particion
      <3>1. QED
        BY <2>1, <2>2, <2>3 DEF TypeOK
    <2>5. QED
      BY <2>1, <2>4 DEF Tipos
  <1>2. EnServicio
    BY DEF EnServicio, Elementos
  <1>3. Fases /\ Guardada
    BY DEF Fases, Guardada
  <1>4. QED
    BY <1>1, <1>2, <1>3 DEF Invariante

\* Loading the list of the partition.
LEMMA Carga ==
  ASSUME Tipos, NEW s \in Seq(Todas), Len(s) <= INDEX_CAP,
         bl' = Lista(Finalizada(s), "ACTIVE"), puestas' = Elementos(s)
  PROVE  /\ bl'.idx = Finalizada(s) /\ bl'.state = "ACTIVE"
         /\ bl'.idx \in Seq(Todas) /\ Len(bl'.idx) <= INDEX_CAP
         /\ puestas' \subseteq Todas
         /\ EnServicio'
  <1> DEFINE r == Finalizada(s)
  <1>1. /\ r \in Seq(Todas) /\ Len(r) <= INDEX_CAP
        /\ Creciente(r) /\ Elementos(r) = Elementos(s)
    BY FinalizadaBien
  <1>2. bl'.idx = r /\ bl'.state = "ACTIVE"
    BY DEF Lista
  <1>3. Elementos(s) \subseteq Todas
    BY DEF Elementos
  <1> HIDE DEF r
  <1>4. EnServicio'
    BY <1>1, <1>2 DEF EnServicio
  <1>5. QED
    BY <1>1, <1>2, <1>3, <1>4 DEF r

\* What a sector written, whole or in part, leaves in the partition.
LEMMA EscritasTipo ==
  ASSUME Tipos, NEW n \in Nat
  PROVE  /\ Escritas(n) \in Seq(Todas) /\ Len(Escritas(n)) <= INDEX_CAP
         /\ EsTodo(n) => Escritas(n) = bl.idx
  <1> DEFINE s == bl.idx
             m == IF n < Len(s) THEN n ELSE Len(s)
             t == SubSeq(s, 1, m)
  <1>1. s \in Seq(Todas) /\ Len(s) <= INDEX_CAP /\ Escritas(n) = t
    BY DEF Tipos, TypeOK, Escritas
  <1> HIDE DEF s
  <1>2. m \in 0 .. Len(s) /\ (n >= Len(s) => m = Len(s))
    BY <1>1
  <1> HIDE DEF m
  <1>3. t \in Seq(Todas) /\ Len(t) = m /\ \A i \in 1 .. m : t[i] = s[i]
    BY <1>1, <1>2
  <1> HIDE DEF t
  <1>4. m = Len(s) => t = s
    <2> SUFFICES ASSUME m = Len(s) PROVE t = s
      OBVIOUS
    <2>1. Len(t) = Len(s) /\ \A i \in 1 .. Len(s) : t[i] = s[i]
      BY <1>3
    <2>2. QED
      BY <1>1, <1>3, <2>1
  <1>5. Len(t) <= INDEX_CAP
    BY <1>1, <1>2, <1>3, ListaAssumption
  <1>6. QED
    BY <1>1, <1>2, <1>3, <1>4, <1>5 DEF EsTodo, s

LEMMA InvariantePaso == Invariante /\ [Next]_vars => Invariante'
  <1> SUFFICES ASSUME Invariante, [Next]_vars PROVE Invariante'
    OBVIOUS
  <1> USE ListaAssumption
  <1>1. Tipos /\ EnServicio /\ Fases /\ Guardada
    BY DEF Invariante
  <1>2. /\ bl.idx \in Seq(Todas) /\ Len(bl.idx) <= INDEX_CAP /\ Len(bl.idx) \in Nat
        /\ part.entradas \in Seq(Todas) /\ Len(part.entradas) <= INDEX_CAP
        /\ Len(part.entradas) \in Nat
        /\ part.magia \in BOOLEAN
        /\ bl = Lista(bl.idx, bl.state) /\ part = Particion(part.magia, part.entradas)
        /\ puestas \subseteq Todas
        /\ buscando \in BOOLEAN
        /\ lineas \in 0 .. MaxLineas /\ cortes \in 0 .. MaxCortes /\ fallos \in 0 .. MaxFallos
        /\ bl.state \in {"EMPTY", "LOADING", "ACTIVE"}
        /\ tarea \in {"arranca", "no", "suspende", "vacia", "descarga", "borra", "escribe",
                      "recarga", "carga"}
    BY <1>1 DEF Tipos, TypeOK
  <1>3. MaxLineas \in Nat /\ MaxCortes \in Nat /\ MaxFallos \in Nat /\ SECT \in Nat /\ INDEX_CAP \in Nat
    OBVIOUS
  <1>4. <<>> \in Seq(Todas) /\ Len(<<>>) = 0 /\ Elementos(<<>>) = {}
    BY DEF Elementos
  <1>5. CASE EmpiezaBusqueda \/ AcabaBusqueda \/ UNCHANGED vars
    <2>1. UNCHANGED <<bl, puestas, part, tarea, lineas, cortes, fallos>> /\ buscando' \in BOOLEAN
      BY <1>2, <1>5 DEF EmpiezaBusqueda, AcabaBusqueda, vars
    <2>2. Tipos'
      BY <1>1, <2>1 DEF Tipos, TypeOK
    <2>3. EnServicio' /\ Fases' /\ Guardada'
      BY <1>1, <2>1 DEF EnServicio, Fases, Guardada, HayLista
    <2>4. QED
      BY <2>2, <2>3 DEF Invariante
  <1>6. CASE listupdate_trigger \/ DescargaFalla
    <2>1. /\ UNCHANGED <<bl, puestas, part, buscando, cortes, fallos>>
          /\ tarea' \in {"suspende", "recarga"} /\ lineas' \in 0 .. MaxLineas
      BY <1>2, <1>3, <1>6 DEF listupdate_trigger, DescargaFalla, Pasa, TrasError
    <2>2. Tipos'
      BY <1>1, <2>1 DEF Tipos, TypeOK
    <2>3. /\ EnServicio'
          /\ Guardada'
      BY <1>1, <2>1 DEF EnServicio, Guardada
    <2>4. Fases'
      BY <1>1, <1>6, <2>1 DEF listupdate_trigger, DescargaFalla, Pasa, TrasError, Fases
    <2>5. QED
      BY <2>2, <2>3, <2>4 DEF Invariante
  <1>7. CASE net_dns_blocklist_suspend \/ SuspendeSinTurno
    <2>1. /\ bl' = [bl EXCEPT !.state = "EMPTY"] /\ tarea' = "vacia"
          /\ UNCHANGED <<puestas, buscando, part, lineas, cortes>>
      BY <1>7 DEF net_dns_blocklist_suspend, SuspendeSinTurno, Pasa
    <2>2. fallos' \in 0 .. MaxFallos
      BY <1>2, <1>3, <1>7 DEF net_dns_blocklist_suspend, SuspendeSinTurno, Fallo
    <2>3. bl' = Lista(bl'.idx, bl'.state) /\ bl'.idx = bl.idx /\ bl'.state = "EMPTY"
      BY <1>2, <2>1 DEF Lista
    <2>4. Tipos'
      <3>1. TypeOK'
        BY <1>2, <2>1, <2>2, <2>3 DEF TypeOK
      <3>2. bl'.idx \in Seq(Todas) /\ part' = part
        BY <1>2, <2>1, <2>3
      <3>3. part' = Particion(part'.magia, part'.entradas) /\ part'.entradas \in Seq(Todas)
        BY <1>2, <3>2
      <3>4. QED
        BY <2>3, <3>1, <3>2, <3>3 DEF Tipos
    <2>5. EnServicio' /\ Fases' /\ Guardada'
      BY <1>1, <2>1, <2>3 DEF EnServicio, Fases, Guardada
    <2>6. QED
      BY <2>4, <2>5 DEF Invariante
  <1>8. CASE blocklist_reset \/ Recarga \/ Corte
    <2>1. /\ Vaciada /\ tarea' \in {"descarga", "carga", "arranca"}
          /\ lineas' \in 0 .. MaxLineas /\ fallos' = fallos /\ buscando' \in BOOLEAN
          /\ cortes' \in 0 .. MaxCortes
      <3>1. 0 \in 0 .. MaxLineas
        BY <1>3
      <3>2. CASE blocklist_reset
        BY <1>2, <3>1, <3>2 DEF blocklist_reset, Pasa
      <3>3. CASE Recarga
        BY <1>2, <3>3 DEF Recarga, Pasa
      <3>4. CASE Corte
        <4>1. cortes + 1 \in 0 .. MaxCortes
          BY <1>2, <1>3, <3>4 DEF Corte
        <4>2. QED
          BY <3>1, <3>4, <4>1 DEF Corte
      <3>5. QED
        BY <1>8, <3>2, <3>3, <3>4
    <2>2. bl' = Lista(<<>>, "EMPTY") /\ bl'.idx = <<>> /\ bl'.state = "EMPTY" /\ puestas' = {}
      BY <2>1 DEF Vaciada, Lista
    <2>3. /\ part' = Particion(part'.magia, part'.entradas) /\ part'.magia \in BOOLEAN
          /\ part'.entradas \in Seq(Todas) /\ Len(part'.entradas) <= INDEX_CAP
      <3>1. part' = part \/ part' = Particion(FALSE, <<>>) \/ part' \in Rotas
        BY <1>8 DEF blocklist_reset, Recarga, Corte
      <3>2. CASE part' = part
        BY <1>2, <3>2
      <3>3. CASE part' = Particion(FALSE, <<>>)
        BY <1>3, <1>4, <3>3 DEF Particion
      <3>4. ASSUME NEW k \in 0 .. SECT - 1, part' = Particion(TRUE, Escritas(Len(part.entradas) + k))
            PROVE  /\ part' = Particion(part'.magia, part'.entradas) /\ part'.magia \in BOOLEAN
                   /\ part'.entradas \in Seq(Todas) /\ Len(part'.entradas) <= INDEX_CAP
        <4> DEFINE t == Escritas(Len(part.entradas) + k)
        <4>1. Len(part.entradas) + k \in Nat
          BY <1>2, <1>3
        <4>2. t \in Seq(Todas) /\ Len(t) <= INDEX_CAP
          BY <1>1, <4>1, EscritasTipo
        <4> HIDE DEF t
        <4>3. QED
          BY <3>4, <4>2 DEF Particion, t
      <3>5. QED
        BY <3>1, <3>2, <3>3, <3>4 DEF Rotas
    <2>4. Tipos'
      <3>1. bl' = Lista(bl'.idx, bl'.state)
        BY <2>2
      <3>2. bl'.idx \in Seq(Todas) /\ Len(bl'.idx) <= INDEX_CAP /\ puestas' \subseteq Todas
        <4>1. bl'.idx = <<>> /\ puestas' = {}
          BY <2>2
        <4>2. Len(bl'.idx) <= INDEX_CAP
          BY <1>3, <1>4, <4>1
        <4>3. bl'.idx \in Seq(Todas)
          BY <4>1
        <4>4. QED
          BY <4>1, <4>2, <4>3
      <3>3. TypeOK'
        BY <1>2, <2>1, <2>2, <2>3, <3>2 DEF TypeOK
      <3>4. QED
        BY <2>3, <3>1, <3>2, <3>3 DEF Tipos
    <2>5. EnServicio'
      BY <1>4, <2>2 DEF EnServicio
    <2>6. Fases' /\ Guardada'
      BY <2>1, <2>2 DEF Fases, Guardada
    <2>7. QED
      BY <2>4, <2>5, <2>6 DEF Invariante
  <1>9. ASSUME NEW n \in Nombres, blocklist_add(n)
        PROVE  Invariante'
    <2>1. /\ tarea = "descarga" /\ tarea' = "descarga" /\ lineas' \in 0 .. MaxLineas
          /\ UNCHANGED <<buscando, part, cortes, fallos>>
      BY <1>2, <1>3, <1>9 DEF blocklist_add
    <2>2. CASE Cabe
      <3> DEFINE s == bl.idx
                 t == Append(s, n)
      <3>1. bl' = Lista(t, "LOADING") /\ puestas' = puestas \cup {n}
        BY <1>9, <2>2 DEF blocklist_add
      <3>2. bl'.idx = t /\ bl'.state = "LOADING"
        BY <3>1 DEF Lista
      <3>3. s \in Seq(Todas) /\ n \in Todas /\ Len(s) < INDEX_CAP
        BY <1>2, <2>2 DEF Todas, Cabe
      <3>4. Elementos(s) = puestas
        BY <1>1 DEF EnServicio
      <3> HIDE DEF s
      <3>5. /\ t \in Seq(Todas) /\ Len(t) = Len(s) + 1 /\ DOMAIN t = 1 .. Len(s) + 1
            /\ t[Len(s) + 1] = n /\ \A i \in 1 .. Len(s) : t[i] = s[i]
            /\ DOMAIN s = 1 .. Len(s) /\ Len(s) \in Nat
        BY <3>3
      <3> HIDE DEF t
      <3>6. Elementos(t) = Elementos(s) \cup {n}
        <4>1. Elementos(t) \subseteq Elementos(s) \cup {n}
          <5> SUFFICES ASSUME NEW i \in 1 .. Len(s) + 1 PROVE t[i] \in Elementos(s) \cup {n}
            BY <3>5 DEF Elementos
          <5>1. i \in 1 .. Len(s) \/ i = Len(s) + 1
            BY <3>5
          <5>2. QED
            BY <3>5, <5>1 DEF Elementos
        <4>2. Elementos(s) \subseteq Elementos(t)
          <5> SUFFICES ASSUME NEW i \in 1 .. Len(s) PROVE s[i] \in Elementos(t)
            BY <3>5 DEF Elementos
          <5>1. i \in DOMAIN t /\ t[i] = s[i]
            BY <3>5
          <5>2. QED
            BY <5>1 DEF Elementos
        <4>3. n \in Elementos(t)
          <5>1. Len(s) + 1 \in DOMAIN t
            BY <3>5
          <5>2. QED
            BY <3>5, <5>1 DEF Elementos
        <4>4. QED
          BY <4>1, <4>2, <4>3
      <3>7. Tipos'
        <4>1. Len(t) <= INDEX_CAP
          BY <1>3, <3>3, <3>5
        <4>2. puestas' \subseteq Todas
          BY <1>2, <3>1, <3>3
        <4>3. QED
          BY <1>2, <2>1, <3>1, <3>2, <3>5, <4>1, <4>2 DEF Tipos, TypeOK
      <3>8. EnServicio' /\ Fases' /\ Guardada'
        BY <2>1, <3>1, <3>2, <3>4, <3>6 DEF EnServicio, Fases, Guardada
      <3>9. QED
        BY <3>7, <3>8 DEF Invariante
    <2>3. CASE ~Cabe
      <3>1. bl' = [bl EXCEPT !.state = "LOADING"] /\ puestas' = puestas
        BY <1>9, <2>3 DEF blocklist_add
      <3>2. bl' = Lista(bl'.idx, bl'.state) /\ bl'.idx = bl.idx /\ bl'.state = "LOADING"
        BY <1>2, <3>1 DEF Lista
      <3>3. Tipos'
        <4>1. TypeOK'
          BY <1>2, <2>1, <3>1, <3>2 DEF TypeOK
        <4>2. QED
          BY <1>2, <2>1, <3>2, <4>1 DEF Tipos
      <3>4. EnServicio' /\ Fases' /\ Guardada'
        BY <1>1, <2>1, <3>1, <3>2 DEF EnServicio, Fases, Guardada
      <3>5. QED
        BY <3>3, <3>4 DEF Invariante
    <2>4. QED
      BY <2>2, <2>3
  <1>10. CASE Activa
    <2>1. /\ bl' = Lista(Finalizada(bl.idx), "ACTIVE") /\ tarea' = "borra" /\ lineas' = 0
          /\ UNCHANGED <<puestas, buscando, part, cortes, fallos>>
      BY <1>10 DEF Activa, Pasa
    <2>2. puestas' = Elementos(bl.idx)
      BY <1>1, <2>1 DEF EnServicio
    <2>3. /\ bl'.state = "ACTIVE" /\ bl'.idx \in Seq(Todas) /\ Len(bl'.idx) <= INDEX_CAP
          /\ puestas' \subseteq Todas /\ EnServicio'
      BY <1>1, <1>2, <2>1, <2>2, Carga
    <2>4. Tipos'
      <3>1. bl' = Lista(bl'.idx, bl'.state)
        BY <2>1 DEF Lista
      <3>2. QED
        BY <1>2, <1>3, <2>1, <2>3, <3>1 DEF Tipos, TypeOK
    <2>5. QED
      BY <2>1, <2>3, <2>4 DEF Invariante, Fases, Guardada
  <1>11. CASE Borra \/ BorraFalla
    <2>1. /\ tarea' \in {"escribe", "recarga"} /\ tarea = "borra"
          /\ UNCHANGED <<bl, puestas, buscando, lineas, cortes>>
          /\ part' \in {part, Particion(FALSE, <<>>)}
      BY <1>11 DEF Borra, BorraFalla, Pasa, TrasError
    <2>2. fallos' \in 0 .. MaxFallos
      <3>1. CASE Borra
        BY <1>2, <3>1 DEF Borra
      <3>2. CASE BorraFalla
        BY <1>2, <1>3, <3>2 DEF BorraFalla, Fallo
      <3>3. QED
        BY <1>11, <3>1, <3>2
    <2>3. /\ part' = Particion(part'.magia, part'.entradas) /\ part'.magia \in BOOLEAN
          /\ part'.entradas \in Seq(Todas) /\ Len(part'.entradas) <= INDEX_CAP
      <3>1. CASE part' = part
        BY <1>2, <3>1
      <3>2. CASE part' = Particion(FALSE, <<>>)
        BY <1>3, <1>4, <3>2 DEF Particion
      <3>3. QED
        BY <2>1, <3>1, <3>2
    <2>4. Tipos'
      BY <1>2, <2>1, <2>2, <2>3 DEF Tipos, TypeOK
    <2>5. EnServicio' /\ Fases' /\ Guardada'
      BY <1>1, <2>1 DEF EnServicio, Fases, Guardada
    <2>6. QED
      BY <2>4, <2>5 DEF Invariante
  <1>12. CASE EscribeSector
    <2> DEFINE n == Len(part.entradas) + SECT
               t == Escritas(n)
    <2>1. /\ tarea = "escribe" /\ part' = Particion(TRUE, t)
          /\ tarea' = IF EsTodo(n) THEN "no" ELSE "escribe"
          /\ UNCHANGED <<bl, puestas, buscando, lineas, cortes, fallos>>
      BY <1>12 DEF EscribeSector
    <2>2. n \in Nat
      BY <1>2, <1>3
    <2> HIDE DEF n
    <2>3. t \in Seq(Todas) /\ Len(t) <= INDEX_CAP /\ (EsTodo(n) => t = bl.idx)
      BY <1>1, <2>2, EscritasTipo
    <2> HIDE DEF t
    <2>4. part'.magia = TRUE /\ part'.entradas = t
      BY <2>1 DEF Particion
    <2>5. tarea' = "no" => EsTodo(n)
      BY <2>1
    <2>6. tarea' \in {"no", "escribe"}
      BY <2>1
    <2>7. Tipos'
      BY <1>2, <2>1, <2>3, <2>4, <2>6 DEF Tipos, TypeOK
    <2>8. bl.state = "ACTIVE" /\ Creciente(bl.idx)
      BY <1>1, <2>1 DEF Fases, EnServicio
    <2>9. EnServicio' /\ Fases'
      BY <1>1, <2>1, <2>6, <2>8 DEF EnServicio, Fases
    <2>10. Guardada'
      <3> SUFFICES ASSUME tarea' = "no", bl.idx # <<>>
                   PROVE  bl.idx = Finalizada(IF HayLista' THEN part'.entradas ELSE LISTA_PRUEBA)
        BY <2>1 DEF Guardada
      <3>1. part'.entradas = bl.idx
        BY <2>3, <2>4, <2>5
      <3>2. HayLista'
        BY <2>4, <3>1 DEF HayLista
      <3>3. Finalizada(bl.idx) = bl.idx
        BY <1>2, <2>8, FinalizadaBien
      <3>4. QED
        BY <3>1, <3>2, <3>3
    <2>11. QED
      BY <2>7, <2>9, <2>10 DEF Invariante
  <1>13. CASE EscribeFalla
    <2>1. /\ tarea = "escribe" /\ tarea' = "recarga" /\ part' \in Rotas
          /\ UNCHANGED <<bl, puestas, buscando, lineas, cortes>>
      BY <1>13 DEF EscribeFalla, Pasa, TrasError
    <2>2. fallos' \in 0 .. MaxFallos
      BY <1>2, <1>3, <1>13 DEF EscribeFalla, Fallo
    <2>3. /\ part' = Particion(part'.magia, part'.entradas) /\ part'.magia \in BOOLEAN
          /\ part'.entradas \in Seq(Todas) /\ Len(part'.entradas) <= INDEX_CAP
      <3>1. CASE part' = part
        BY <1>2, <3>1
      <3>2. ASSUME NEW k \in 0 .. SECT - 1, part' = Particion(TRUE, Escritas(Len(part.entradas) + k))
            PROVE  /\ part' = Particion(part'.magia, part'.entradas) /\ part'.magia \in BOOLEAN
                   /\ part'.entradas \in Seq(Todas) /\ Len(part'.entradas) <= INDEX_CAP
        <4> DEFINE t == Escritas(Len(part.entradas) + k)
        <4>1. Len(part.entradas) + k \in Nat
          BY <1>2, <1>3
        <4>2. t \in Seq(Todas) /\ Len(t) <= INDEX_CAP
          BY <1>1, <4>1, EscritasTipo
        <4> HIDE DEF t
        <4>3. QED
          BY <3>2, <4>2 DEF Particion, t
      <3>3. QED
        BY <2>1, <3>1, <3>2 DEF Rotas
    <2>4. Tipos'
      BY <1>2, <2>1, <2>2, <2>3 DEF Tipos, TypeOK
    <2>5. EnServicio' /\ Fases' /\ Guardada'
      BY <1>1, <2>1 DEF EnServicio, Fases, Guardada
    <2>6. QED
      BY <2>4, <2>5 DEF Invariante
  <1>14. CASE carga_lista \/ Restaura
    <2>1. /\ tarea' = "no" /\ UNCHANGED <<buscando, part, lineas, cortes, fallos>>
          /\ tarea \in {"arranca", "carga"}
      BY <1>14 DEF carga_lista, Restaura, Pasa
    <2>2. ASSUME NEW s \in Seq(Todas), Len(s) <= INDEX_CAP,
                 bl' = Lista(Finalizada(s), "ACTIVE"), puestas' = Elementos(s),
                 s = <<>> \/ s = IF HayLista THEN part.entradas ELSE LISTA_PRUEBA
          PROVE  Invariante'
      <3>1. /\ bl'.idx = Finalizada(s) /\ bl'.state = "ACTIVE" /\ bl'.idx \in Seq(Todas)
            /\ Len(bl'.idx) <= INDEX_CAP /\ puestas' \subseteq Todas /\ EnServicio'
        BY <1>1, <2>2, Carga
      <3>2. bl' = Lista(bl'.idx, bl'.state)
        BY <2>2, <3>1
      <3>3. Tipos'
        BY <1>2, <2>1, <3>1, <3>2 DEF Tipos, TypeOK
      <3>4. Guardada'
        <4>1. CASE s = <<>>
          <5>1. Creciente(s)
            BY <4>1 DEF Creciente
          <5>2. bl'.idx = <<>>
            BY <2>2, <3>1, <4>1, <5>1, FinalizadaBien
          <5>3. QED
            BY <5>2 DEF Guardada
        <4>2. CASE s = IF HayLista THEN part.entradas ELSE LISTA_PRUEBA
          <5>1. HayLista' = HayLista /\ part' = part
            BY <2>1 DEF HayLista
          <5>2. QED
            BY <3>1, <4>2, <5>1 DEF Guardada
        <4>3. QED
          BY <2>2, <4>1, <4>2
      <3>5. QED
        BY <2>1, <3>1, <3>3, <3>4 DEF Invariante, Fases
    <2>3. CASE part.magia /\ (HayLista \/ Restaura)
      <3> DEFINE s == part.entradas
      <3>1. bl' = Lista(Finalizada(s), "ACTIVE") /\ puestas' = Elementos(s)
        BY <1>14, <2>3 DEF carga_lista, Restaura, blocklist_load
      <3>2. s = <<>> \/ HayLista
        BY <2>3 DEF HayLista
      <3>3. QED
        BY <1>2, <2>2, <3>1, <3>2
    <2>4. CASE carga_lista /\ ~HayLista
      <3> DEFINE s == LISTA_PRUEBA
      <3>1. bl' = Lista(Finalizada(s), "ACTIVE") /\ puestas' = Elementos(s)
        BY <2>4 DEF carga_lista
      <3>2. s \in Seq(Todas) /\ Len(s) <= INDEX_CAP
        OBVIOUS
      <3>3. QED
        BY <2>2, <2>4, <3>1, <3>2
    <2>5. CASE Restaura /\ ~part.magia
      <3>1. bl' = bl /\ puestas' = puestas /\ tarea = "carga"
        BY <2>5 DEF Restaura, Pasa, blocklist_load
      <3>2. bl.state # "ACTIVE"
        BY <1>1, <3>1 DEF Fases
      <3>3. Tipos'
        BY <1>2, <2>1, <3>1 DEF Tipos, TypeOK
      <3>4. QED
        BY <1>1, <2>1, <3>1, <3>2, <3>3 DEF Invariante, EnServicio, Fases, Guardada
    <2>6. QED
      BY <1>2, <1>14, <2>3, <2>4, <2>5 DEF HayLista
  <1>15. QED
    BY <1>5, <1>6, <1>7, <1>8, <1>9, <1>10, <1>11, <1>12, <1>13, <1>14 DEF Next, Tarea

LEMMA InvarianteSiempre == Spec => []Invariante
  BY InvarianteInicial, InvariantePaso, PTL DEF Spec

\* Whatever the list took, in whatever order, a search in the list in service
\* finds a name that is in it or has a parent in it, and no other.
THEOREM BusquedaFiel == Spec => []BusquedaCorrecta
  <1>1. Invariante => BusquedaCorrecta
    <2> SUFFICES ASSUME Invariante, bl.state = "ACTIVE", NEW q \in Consultas
                 PROVE  blocklist_contains(bl.idx, q) <=> \E e \in puestas : domain_suffix_match(e, q)
      BY DEF BusquedaCorrecta
    <2> DEFINE s == bl.idx
    <2>1. s \in Seq(Todas) /\ Creciente(s) /\ Elementos(s) = puestas
      BY DEF Invariante, Tipos, EnServicio
    <2>2. q \in Cadena /\ s \in Seq(Cadena \ {<<>>})
      <3> HIDE DEF s
      <3>1. QED
        BY <2>1, TodasNombres
    <2> HIDE DEF s
    <2>3. blocklist_contains(s, q) <=> \E e \in Elementos(s) : domain_suffix_match(e, q)
      BY <2>1, <2>2, Contiene
    <2>4. QED
      BY <2>1, <2>3 DEF s
  <1>2. QED
    BY <1>1, InvarianteSiempre, PTL

\* With no update under way a restart changes nothing of what is blocked.
THEOREM ListaPersistente == Spec => []ReinicioNoCambia
  <1>1. Invariante => ReinicioNoCambia
    BY DEF Invariante, Tipos, Guardada, ReinicioNoCambia
  <1>2. QED
    BY <1>1, InvarianteSiempre, PTL
=============================================================================
