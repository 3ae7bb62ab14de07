---------------------------- MODULE NetDnsProofs ----------------------------
(***************************************************************************)
(* What the limiter and the registry of clients promise.  A bucket refilled*)
(* when it is looked at is followed by the time since its client last came,*)
(* which does not wrap; a client that has lost its bucket was the oldest of*)
(* a full table; and the registry is added up by rising index, one entry   *)
(* at a time.                                                              *)
(*                                                                         *)
(* And what the cache promises, which the same path asks: its links stay   *)
(* in step, it gives each client its own copy of what it kept, and it is   *)
(* the map with deadlines and order of use of Lru.                         *)
(***************************************************************************)
EXTENDS NetDns, Cache, FiniteSetTheorems, WellFoundedInduction, TLAPS

-----------------------------------------------------------------------------
(***************************************************************************)
(* The invariant                                                           *)
(***************************************************************************)

\* What a bucket has d ticks after it had tokens.
Relleno(tokens, rate, burst, d) ==
  IF tokens + rate * d > Tope(burst) THEN Tope(burst) ELSE tokens + rate * d

\* A bucket was stamped when its client last came, and a client has one.
Cubos ==
  /\ \A i \in EnUsoRl :
       LET b == s_rl.cubos[i]
           d == t - ultima[b.ip]
       IN  /\ b.ip \in Locales /\ ultima[b.ip] \in 0 .. t
           /\ b.usado = ultima[b.ip] % ClockMod
           /\ Relleno(b.tokens, ip_rate, ip_burst, d) <= ideal[b.ip]
           /\ ordenado => /\ Relleno(b.tokens, ip_rate, ip_burst, d) = ideal[b.ip]
                          /\ d < ClockMod \div 2
  /\ \A i, j \in EnUsoRl : s_rl.cubos[i].ip = s_rl.cubos[j].ip => i = j

\* The ceiling was refilled in tick u or later, when any client came; until one
\* does, it is full.
TechoDesde(u) ==
  /\ s_rl.glob_ultimo = u % ClockMod
  /\ Relleno(s_rl.glob, glob_rate, glob_burst, t - u) <= techo
  /\ ordenado => Relleno(s_rl.glob, glob_rate, glob_burst, t - u) = techo
  /\ \A c \in Clientes : ultima[c] <= u
  /\ EnUsoRl = {} => s_rl.glob = Tope(glob_burst)

Techo == \E u \in 0 .. t : TechoDesde(u)

\* Those that have come since c did, in the tick of c or later.
Detras(c) == {d \in Locales \ {c} : ultima[d] >= ultima[c]}

Idos ==
  \A c \in Locales :
    ordenado /\ ultima[c] # Nunca /\ DelCliente(s_rl, c) = {}
      => Cardinality(Detras(c)) >= RATELIMIT_TABLE

Invariante == TypeOK /\ Cubos /\ Techo /\ Idos /\ Cuadra

-----------------------------------------------------------------------------
(***************************************************************************)
(* Numbers and sets                                                        *)
(***************************************************************************)
LEMMA Minimo ==
  ASSUME NEW S \in SUBSET Nat, S # {}
  PROVE  \E x \in S : \A y \in S : x <= y
  <1> DEFINE R == OpToRel(<, Nat)
  <1>1. IsWellFoundedOn(R, Nat)
    BY NatLessThanWellFounded
  <1>2. \A x, y \in Nat : <<y, x>> \in R <=> y < x
    BY DEF OpToRel
  <1> HIDE DEF R
  <1>3. PICK x \in S : \A y \in S : <<y, x>> \notin R
    BY <1>1, WFMin
  <1>4. ASSUME NEW y \in S
        PROVE  x <= y
    <2>1. x \in Nat /\ y \in Nat /\ <<y, x>> \notin R
      BY <1>3
    <2>2. ~(y < x)
      BY <1>2, <2>1, Zenon
    <2>3. QED
      BY <2>1, <2>2
  <1>5. QED
    BY <1>4

\* Induction up to a bound, over a set.
LEMMA Induccion ==
  ASSUME NEW n \in Nat, NEW S, 0 \in S, \A m \in 0 .. n - 1 : m \in S => m + 1 \in S
  PROVE  0 .. n \subseteq S
  <1> SUFFICES ASSUME ~(0 .. n \subseteq S)
               PROVE  FALSE
    OBVIOUS
  <1> DEFINE F == {m \in Nat : m <= n /\ m \notin S}
  <1>1. F \in SUBSET Nat /\ F # {}
    OBVIOUS
  <1>2. PICK x \in F : \A y \in F : x <= y
    BY <1>1, Minimo
  <1>3. x \in Nat /\ x <= n /\ x \notin S /\ x # 0
    OBVIOUS
  <1>4. x - 1 \in 0 .. n - 1 /\ x - 1 \in Nat /\ x - 1 <= n /\ ~(x <= x - 1)
    BY <1>3
  <1>5. x - 1 \in S
    BY <1>2, <1>4
  <1>6. (x - 1) + 1 \in S /\ (x - 1) + 1 = x
    BY <1>3, <1>4, <1>5
  <1>7. QED
    BY <1>3, <1>6

LEMMA SinRepetir ==
  ASSUME NEW n \in Nat, NEW S, IsFiniteSet(S), NEW f \in [0 .. n - 1 -> S],
         \A i, j \in 0 .. n - 1 : f[i] = f[j] => i = j
  PROVE  Cardinality(S) >= n
  <1>1. f \in Injection(0 .. n - 1, S)
    BY DEF Injection, IsInjective
  <1>2. Cardinality(0 .. n - 1) <= Cardinality(S)
    BY <1>1, FS_Injection
  <1>3. Cardinality(0 .. n - 1) = n
    <2>1. 0 \in Int /\ n - 1 \in Int
      OBVIOUS
    <2>2. Cardinality(0 .. n - 1) = IF 0 > n - 1 THEN 0 ELSE n - 1 - 0 + 1
      BY <2>1, FS_Interval
    <2>3. QED
      BY <2>2
  <1>4. Cardinality(S) \in Nat
    BY FS_CardinalityType
  <1>5. QED
    BY <1>2, <1>3, <1>4

\* A function on 0 .. n, each value of which is made from the one before.
LEMMA Recursiva ==
  ASSUME NEW n \in Nat, NEW a \in Int, NEW g \in [1 .. n -> [Int -> Int]]
  PROVE  \E s \in [0 .. n -> Int] : /\ s[0] = a
                                  /\ \A k \in 1 .. n : s[k] = g[k][s[k - 1]]
  <1> DEFINE Hasta(m, s) == /\ s \in [0 .. m -> Int] /\ s[0] = a
                            /\ \A k \in 1 .. m : s[k] = g[k][s[k - 1]]
             S == {m \in 0 .. n : \E s : Hasta(m, s)}
  <1>1. 0 \in S
    <2>1. Hasta(0, [k \in 0 .. 0 |-> a])
      OBVIOUS
    <2>2. 0 \in 0 .. n
      OBVIOUS
    <2> HIDE DEF Hasta
    <2>3. QED
      BY <2>1, <2>2
  <1>2. ASSUME NEW m \in 0 .. n - 1, m \in S
        PROVE  m + 1 \in S
    <2>1. PICK s : Hasta(m, s)
      BY <1>2
    <2>2. m \in Nat /\ m + 1 \in 1 .. n /\ m + 1 \in 0 .. n
      OBVIOUS
    <2> DEFINE x == g[m + 1][s[m]]
               r == [k \in 0 .. m + 1 |-> IF k <= m THEN s[k] ELSE x]
    <2>3. x \in Int
      <3>1. g[m + 1] \in [Int -> Int] /\ s[m] \in Int
        BY <2>1, <2>2
      <3>2. QED
        BY <3>1
    <2>4. r \in [0 .. m + 1 -> Int] /\ r[0] = a
      BY <2>1, <2>2, <2>3
    <2>5. ASSUME NEW k \in 1 .. m + 1
          PROVE  r[k] = g[k][r[k - 1]]
      <3>1. k \in 0 .. m + 1 /\ k - 1 \in 0 .. m + 1 /\ k - 1 <= m
        BY <2>2
      <3>2. CASE k <= m
        <4>1. k \in 1 .. m /\ r[k] = s[k] /\ r[k - 1] = s[k - 1]
          BY <2>2, <3>1, <3>2
        <4>2. QED
          BY <2>1, <4>1
      <3>3. CASE ~(k <= m)
        <4>1. k = m + 1 /\ k - 1 = m /\ m \in 0 .. m + 1 /\ m <= m
          BY <2>2, <3>1, <3>3
        <4>2. r[m + 1] = x /\ r[m] = s[m]
          <5> HIDE DEF x
          <5>1. QED
            BY <3>1, <3>3, <4>1
        <4>3. QED
          BY <4>1, <4>2
      <3>4. QED
        BY <3>2, <3>3
    <2> HIDE DEF r
    <2>6. Hasta(m + 1, r)
      BY <2>4, <2>5
    <2>7. QED
      BY <2>2, <2>6
  <1>3. 0 .. n \subseteq S
    <2> HIDE DEF S
    <2>1. QED
      BY <1>1, <1>2, Induccion
  <1>4. n \in S
    <2> HIDE DEF S
    <2>1. n \in 0 .. n
      OBVIOUS
    <2>2. QED
      BY <1>3, <2>1
  <1>5. QED
    BY <1>4

-----------------------------------------------------------------------------
(***************************************************************************)
(* Sums                                                                    *)
(***************************************************************************)
LEMMA SumaPaso ==
  ASSUME NEW n \in Nat, NEW f \in [0 .. n - 1 -> Int]
  PROVE  \E s \in [0 .. n -> Int] : /\ s[0] = 0
                                    /\ \A k \in 1 .. n : s[k] = s[k - 1] + f[k - 1]
                                    /\ Sumatorio(f, n) = s[n]
  <1> DEFINE g == [k \in 1 .. n |-> [x \in Int |-> x + f[k - 1]]]
  <1>1. \A k \in 1 .. n : f[k - 1] \in Int
    OBVIOUS
  <1>2. g \in [1 .. n -> [Int -> Int]]
    BY <1>1
  <1>3. \A k \in 1 .. n, x \in Int : g[k][x] = x + f[k - 1]
    OBVIOUS
  <1> HIDE DEF g
  <1>4. PICK s0 \in [0 .. n -> Int] : /\ s0[0] = 0
                                      /\ \A k \in 1 .. n : s0[k] = g[k][s0[k - 1]]
    <2> DEFINE z == 0
    <2>1. z \in Int
      OBVIOUS
    <2> HIDE DEF z
    <2>2. \E s \in [0 .. n -> Int] : /\ s[0] = z
                                     /\ \A k \in 1 .. n : s[k] = g[k][s[k - 1]]
      BY <1>2, <2>1, Recursiva
    <2>3. QED
      BY <2>2 DEF z
  <1>5. s0 = [k \in 0 .. n |-> IF k = 0 THEN 0 ELSE s0[k - 1] + f[k - 1]]
    <2>1. ASSUME NEW k \in 0 .. n
          PROVE  s0[k] = IF k = 0 THEN 0 ELSE s0[k - 1] + f[k - 1]
      <3>1. CASE k = 0
        BY <1>4, <3>1
      <3>2. CASE k # 0
        <4>1. k \in 1 .. n /\ k - 1 \in 0 .. n
          BY <3>2
        <4>2. QED
          BY <1>3, <1>4, <3>2, <4>1
      <3>3. QED
        BY <3>1, <3>2
    <2>2. QED
      BY <2>1
  <1> DEFINE s == CHOOSE h : h = [k \in 0 .. n |-> IF k = 0 THEN 0 ELSE h[k - 1] + f[k - 1]]
  <1>6. s = [k \in 0 .. n |-> IF k = 0 THEN 0 ELSE s[k - 1] + f[k - 1]]
    BY <1>5, Zenon
  <1>7. Sumatorio(f, n) = s[n]
    BY Zenon DEF Sumatorio
  <1> HIDE DEF s
  <1>8. s[0] = 0 /\ \A k \in 1 .. n : s[k] = s[k - 1] + f[k - 1]
    <2>1. \A k \in 0 .. n : s[k] = IF k = 0 THEN 0 ELSE s[k - 1] + f[k - 1]
      BY <1>6, Zenon
    <2>2. QED
      BY <2>1
  <1>9. \A k \in 0 .. n : s[k] \in Int
    <2> DEFINE S == {k \in 0 .. n : s[k] \in Int}
    <2>1. 0 \in S
      BY <1>8
    <2>2. ASSUME NEW m \in 0 .. n - 1, m \in S
          PROVE  m + 1 \in S
      <3>1. m + 1 \in 1 .. n /\ (m + 1) - 1 = m /\ f[m] \in Int /\ s[m] \in Int
        BY <2>2
      <3>2. s[m + 1] = s[m] + f[m]
        BY <1>8, <3>1
      <3>3. QED
        BY <3>1, <3>2
    <2>3. 0 .. n \subseteq S
      <3> HIDE DEF S
      <3>1. QED
        BY <2>1, <2>2, Induccion
    <2>4. QED
      BY <2>3
  <1>10. s \in [0 .. n -> Int]
    BY <1>6, <1>9
  <1>11. QED
    BY <1>7, <1>8, <1>10

\* A sum of which one term changes.
LEMMA SumaCambia ==
  ASSUME NEW n \in Nat, NEW f \in [0 .. n - 1 -> Int], NEW h \in [0 .. n - 1 -> Int],
         NEW i \in 0 .. n - 1, \A j \in 0 .. n - 1 : j # i => h[j] = f[j]
  PROVE  /\ Sumatorio(h, n) = Sumatorio(f, n) + (h[i] - f[i])
         /\ Sumatorio(f, n) \in Int
  <1>1. PICK s \in [0 .. n -> Int] : /\ s[0] = 0
                                     /\ \A k \in 1 .. n : s[k] = s[k - 1] + f[k - 1]
                                     /\ Sumatorio(f, n) = s[n]
    BY SumaPaso
  <1>2. PICK r \in [0 .. n -> Int] : /\ r[0] = 0
                                     /\ \A k \in 1 .. n : r[k] = r[k - 1] + h[k - 1]
                                     /\ Sumatorio(h, n) = r[n]
    BY SumaPaso
  <1> DEFINE D == h[i] - f[i]
             S == {k \in 0 .. n : r[k] = s[k] + (IF k > i THEN D ELSE 0)}
  <1>3. 0 \in S
    BY <1>1, <1>2
  <1>4. ASSUME NEW m \in 0 .. n - 1, m \in S
        PROVE  m + 1 \in S
    <2>1. /\ m + 1 \in 1 .. n /\ m + 1 \in 0 .. n /\ (m + 1) - 1 = m
          /\ f[m] \in Int /\ h[m] \in Int /\ s[m] \in Int /\ r[m] \in Int
          /\ f[i] \in Int /\ h[i] \in Int
      OBVIOUS
    <2>2. s[m + 1] = s[m] + f[m] /\ r[m + 1] = r[m] + h[m]
      BY <1>1, <1>2, <2>1
    <2>3. r[m] = s[m] + (IF m > i THEN D ELSE 0)
      BY <1>4
    <2>4. CASE m = i
      <3>1. m + 1 > i /\ ~(m > i) /\ h[m] = h[i] /\ f[m] = f[i]
        BY <2>4
      <3>2. r[m + 1] = s[m + 1] + D
        BY <2>1, <2>2, <2>3, <3>1
      <3>3. QED
        BY <2>1, <3>1, <3>2
    <2>5. CASE m # i
      <3>1. h[m] = f[m] /\ (m + 1 > i <=> m > i)
        BY <2>5
      <3>2. r[m + 1] = s[m + 1] + (IF m + 1 > i THEN D ELSE 0)
        <4>1. D \in Int
          BY <2>1
        <4> HIDE DEF D
        <4>2. CASE m > i
          BY <2>1, <2>2, <2>3, <3>1, <4>1, <4>2, SMTT(60)
        <4>3. CASE ~(m > i)
          BY <2>1, <2>2, <2>3, <3>1, <4>1, <4>3
        <4>4. QED
          BY <4>2, <4>3
      <3>3. QED
        BY <2>1, <3>2
    <2>6. QED
      BY <2>4, <2>5
  <1>5. 0 .. n \subseteq S
    <2> HIDE DEF S
    <2>1. QED
      BY <1>3, <1>4, Induccion
  <1>6. n \in S /\ n > i /\ n \in 0 .. n
    BY <1>5
  <1>7. QED
    BY <1>1, <1>2, <1>6

LEMMA SumaCero ==
  ASSUME NEW n \in Nat, NEW f \in [0 .. n - 1 -> Int], \A j \in 0 .. n - 1 : f[j] = 0
  PROVE  Sumatorio(f, n) = 0
  <1>1. PICK s \in [0 .. n -> Int] : /\ s[0] = 0
                                     /\ \A k \in 1 .. n : s[k] = s[k - 1] + f[k - 1]
                                     /\ Sumatorio(f, n) = s[n]
    BY SumaPaso
  <1> DEFINE S == {k \in 0 .. n : s[k] = 0}
  <1>2. 0 \in S
    BY <1>1
  <1>3. ASSUME NEW m \in 0 .. n - 1, m \in S
        PROVE  m + 1 \in S
    <2>1. m + 1 \in 1 .. n /\ m + 1 \in 0 .. n /\ (m + 1) - 1 = m /\ f[m] = 0 /\ s[m] = 0
      BY <1>3
    <2>2. s[m + 1] = s[m] + f[m]
      BY <1>1, <2>1
    <2>3. QED
      BY <2>1, <2>2
  <1>4. 0 .. n \subseteq S
    <2> HIDE DEF S
    <2>1. QED
      BY <1>2, <1>3, Induccion
  <1>5. QED
    BY <1>1, <1>4

-----------------------------------------------------------------------------
(***************************************************************************)
(* The clock                                                               *)
(***************************************************************************)
LEMMA Division ==
  ASSUME NEW x \in Nat
  PROVE  \E q \in Nat, r \in Clock : x = ClockMod * q + r
  <1> DEFINE S == {k \in 0 .. x : \E q \in Nat, r \in Clock : k = ClockMod * q + r}
  <1>1. ClockMod \in Nat /\ ClockMod > 1
    BY ClockModAssumption
  <1>2. 0 \in S
    <2>1. 0 = ClockMod * 0 + 0 /\ 0 \in Nat /\ 0 \in Clock
      BY <1>1 DEF Clock
    <2>2. QED
      BY <2>1
  <1>3. ASSUME NEW m \in 0 .. x - 1, m \in S
        PROVE  m + 1 \in S
    <2>1. PICK q \in Nat, r \in Clock : m = ClockMod * q + r
      BY <1>3
    <2>2. m + 1 \in 0 .. x
      OBVIOUS
    <2>3. CASE r = ClockMod - 1
      <3>1. ClockMod * (q + 1) = ClockMod * q + ClockMod /\ ClockMod * q \in Nat
        BY <1>1
      <3>2. m + 1 = ClockMod * (q + 1) + 0 /\ q + 1 \in Nat /\ 0 \in Clock
        <4> DEFINE y == ClockMod * q
                   z == ClockMod * (q + 1)
        <4>1. m = y + r /\ z = y + ClockMod /\ y \in Nat
          BY <2>1, <3>1
        <4> HIDE DEF y, z
        <4>2. m + 1 = z + 0 /\ 0 \in Clock
          BY <1>1, <2>3, <4>1 DEF Clock
        <4>3. QED
          BY <4>2 DEF z
      <3>3. QED
        BY <2>2, <3>2
    <2>4. CASE r # ClockMod - 1
      <3>1. r + 1 \in Clock /\ m + 1 = ClockMod * q + (r + 1)
        <4> DEFINE y == ClockMod * q
        <4>1. m = y + r /\ y \in Nat
          BY <1>1, <2>1
        <4> HIDE DEF y
        <4>2. r + 1 \in Clock /\ m + 1 = y + (r + 1)
          BY <1>1, <2>4, <4>1 DEF Clock
        <4>3. QED
          BY <4>2 DEF y
      <3>2. QED
        BY <2>2, <3>1
    <2>5. QED
      BY <2>3, <2>4
  <1>4. 0 .. x \subseteq S
    <2> HIDE DEF S
    <2>1. QED
      BY <1>2, <1>3, Induccion
  <1>5. x \in S
    <2> HIDE DEF S
    <2>1. QED
      BY <1>4
  <1>6. QED
    BY <1>5

LEMMA RestoUnico ==
  ASSUME NEW x \in Nat, NEW q \in Nat, NEW r \in Clock, x = ClockMod * q + r
  PROVE  x % ClockMod = r
  BY ClockModAssumption DEF Clock

LEMMA RestoBien ==
  ASSUME NEW x \in Nat
  PROVE  /\ x % ClockMod \in Clock
         /\ (x + 1) % ClockMod = IF x % ClockMod = ClockMod - 1 THEN 0 ELSE (x % ClockMod) + 1
  <1>1. PICK q \in Nat, r \in Clock : x = ClockMod * q + r
    BY Division
  <1>2. x % ClockMod = r
    BY <1>1, RestoUnico
  <1>3. ClockMod \in Nat /\ ClockMod > 1
    BY ClockModAssumption
  <1> DEFINE y == ClockMod * q
             z == ClockMod * (q + 1)
  <1>4. x = y + r /\ z = y + ClockMod /\ y \in Nat
    BY <1>1, <1>3
  <1>5. CASE r = ClockMod - 1
    <2>1. x + 1 = ClockMod * (q + 1) + 0 /\ 0 \in Clock /\ q + 1 \in Nat /\ x + 1 \in Nat
      <3> HIDE DEF y, z
      <3>1. x + 1 = z + 0 /\ 0 \in Clock
        BY <1>3, <1>4, <1>5 DEF Clock
      <3>2. QED
        BY <3>1 DEF z
    <2>2. (x + 1) % ClockMod = 0
      <3> DEFINE x1 == x + 1
                 q1 == q + 1
                 r1 == 0
      <3>1. x1 = ClockMod * q1 + r1 /\ r1 \in Clock /\ q1 \in Nat /\ x1 \in Nat
        BY <2>1
      <3> HIDE DEF x1, q1, r1
      <3>2. x1 % ClockMod = r1
        BY <3>1, RestoUnico
      <3>3. QED
        BY <3>2 DEF x1, r1
    <2>3. QED
      BY <1>2, <1>5, <2>2
  <1>6. CASE r # ClockMod - 1
    <2>1. x + 1 = ClockMod * q + (r + 1) /\ r + 1 \in Clock /\ x + 1 \in Nat
      <3> HIDE DEF y, z
      <3>1. x + 1 = y + (r + 1) /\ r + 1 \in Clock
        BY <1>3, <1>4, <1>6 DEF Clock
      <3>2. QED
        BY <3>1 DEF y
    <2>2. (x + 1) % ClockMod = r + 1
      <3> DEFINE x1 == x + 1
                 r1 == r + 1
      <3>1. x1 = ClockMod * q + r1 /\ r1 \in Clock /\ x1 \in Nat
        BY <2>1
      <3> HIDE DEF x1, r1
      <3>2. x1 % ClockMod = r1
        BY <3>1, RestoUnico
      <3>3. QED
        BY <3>2 DEF x1, r1
    <2>3. QED
      BY <1>2, <1>6, <2>2
  <1>7. QED
    BY <1>5, <1>6

\* The age of a stamp is the time gone by, until the clock has gone round.
LEMMA EdadBien ==
  ASSUME NEW u \in Nat, NEW d \in Nat
  PROVE  LET e == Edad((u + d) % ClockMod, u % ClockMod)
         IN  e \in Nat /\ e <= d /\ (d < ClockMod => e = d)
  <1> DEFINE e(k) == Edad((u + k) % ClockMod, u % ClockMod)
             Bien(k) == e(k) \in Nat /\ e(k) <= k /\ e(k) < ClockMod /\ (k < ClockMod => e(k) = k)
             S == {k \in 0 .. d : Bien(k)}
  <1> DEFINE a == u % ClockMod
  <1>1. a \in Clock /\ ClockMod \in Nat /\ ClockMod > 1
    <2>1. a \in Clock
      BY RestoBien
    <2>2. QED
      BY <2>1, ClockModAssumption
  <1>2. 0 \in S
    <2>1. u + 0 = u
      OBVIOUS
    <2>2. e(0) = Edad(a, a)
      BY <2>1
    <2> HIDE DEF a
    <2>3. Edad(a, a) = 0
      BY <1>1 DEF Clock, Edad
    <2> HIDE DEF e
    <2>4. QED
      BY <1>1, <2>2, <2>3
  <1>3. ASSUME NEW m \in 0 .. d - 1, m \in S
        PROVE  m + 1 \in S
    <2> DEFINE b == (u + m) % ClockMod
               c == (u + (m + 1)) % ClockMod
    <2>1. m \in Nat /\ m + 1 \in 0 .. d /\ u + m \in Nat /\ u + (m + 1) = (u + m) + 1
      OBVIOUS
    <2>2. b \in Clock /\ c = IF b = ClockMod - 1 THEN 0 ELSE b + 1
      BY <2>1, RestoBien
    <2>3. e(m) = Edad(b, a) /\ e(m + 1) = Edad(c, a)
      OBVIOUS
    <2>4. Bien(m)
      BY <1>3
    <2> HIDE DEF a, b, c
    <2>5. Edad(c, a) = IF Edad(b, a) = ClockMod - 1 THEN 0 ELSE Edad(b, a) + 1
      BY <1>1, <2>2 DEF Clock, Edad
    <2> HIDE DEF e
    <2>6. Bien(m + 1)
      BY <1>1, <2>1, <2>3, <2>4, <2>5
    <2>7. QED
      BY <2>1, <2>6
  <1>4. 0 .. d \subseteq S
    <2> HIDE DEF S
    <2>1. QED
      BY <1>2, <1>3, Induccion
  <1>5. d \in S
    <2> HIDE DEF S
    <2>1. QED
      BY <1>4
  <1>6. QED
    BY <1>5

\* Of two stamps in the last half turn, the sign of the difference tells which
\* is the older.
LEMMA AntesBien ==
  ASSUME NEW u \in Nat, NEW v \in Nat, NEW m \in Nat, u <= m, v <= m,
         m - u < ClockMod \div 2, m - v < ClockMod \div 2
  PROVE  Antes(u % ClockMod, v % ClockMod) <=> u < v
  <1>1. /\ ClockMod \in Nat /\ ClockMod > 1 /\ ClockMod \div 2 \in Nat
        /\ ClockMod \div 2 + ClockMod \div 2 <= ClockMod
    BY ClockModAssumption
  <1> DEFINE H == ClockMod \div 2
             a == u % ClockMod
             b == v % ClockMod
  <1>2. H \in Nat /\ H + H <= ClockMod /\ m - u < H /\ m - v < H
    BY <1>1
  <1>3. a \in Clock /\ b \in Clock
    BY RestoBien
  <1>4. CASE u >= v
    <2>1. u - v \in Nat /\ v + (u - v) = u /\ u - v < H /\ u - v < ClockMod
      <3> HIDE DEF H
      <3>1. QED
        BY <1>1, <1>2, <1>4
    <2>2. Edad(a, b) = u - v
      <3> DEFINE d == u - v
      <3>1. d \in Nat /\ v + d = u /\ d < ClockMod
        BY <2>1
      <3> HIDE DEF d
      <3>2. Edad((v + d) % ClockMod, v % ClockMod) = d
        BY <3>1, EdadBien
      <3>3. QED
        BY <3>1, <3>2 DEF d
    <2> HIDE DEF H
    <2>3. ~Antes(a, b)
      <3>1. ~(u - v >= H)
        BY <1>2, <2>1
      <3>2. QED
        BY <2>2, <3>1 DEF Antes, H
    <2>4. QED
      BY <1>4, <2>3
  <1>5. CASE u < v
    <2>1. v - u \in Nat /\ u + (v - u) = v /\ v - u < H /\ v - u < ClockMod /\ v - u # 0
      <3> HIDE DEF H
      <3>1. QED
        BY <1>1, <1>2, <1>5
    <2>2. Edad(b, a) = v - u
      <3> DEFINE d == v - u
      <3>1. d \in Nat /\ u + d = v /\ d < ClockMod
        BY <2>1
      <3> HIDE DEF d
      <3>2. Edad((u + d) % ClockMod, u % ClockMod) = d
        BY <3>1, EdadBien
      <3>3. QED
        BY <3>1, <3>2 DEF d
    <2> HIDE DEF H, a, b
    <2>3. Edad(a, b) = ClockMod - (v - u)
      BY <1>1, <1>3, <2>1, <2>2 DEF Edad, Clock
    <2>4. Antes(a, b)
      <3>1. ClockMod - (v - u) >= H
        BY <1>1, <1>2, <2>1
      <3>2. QED
        BY <2>3, <3>1 DEF Antes, H
    <2>5. QED
      BY <1>5, <2>4 DEF a, b
  <1>6. QED
    BY <1>4, <1>5

-----------------------------------------------------------------------------
(***************************************************************************)
(* Tokens                                                                  *)
(***************************************************************************)
LEMMA Productos ==
  ASSUME NEW r \in Nat, NEW d \in Nat
  PROVE  /\ r * d \in Nat /\ r * (d + 1) = r * d + r /\ r * 0 = 0
         /\ \A e \in Nat : e <= d => r * e <= r * d
  <1>1. r * d \in Nat /\ r * (d + 1) = r * d + r /\ r * 0 = 0
    OBVIOUS
  <1>2. ASSUME NEW e \in Nat, e <= d
        PROVE  r * e <= r * d
    <2>1. d - e \in Nat /\ r * (d - e) \in Nat /\ r * e \in Nat
      BY <1>2
    <2>2. r * d = r * e + r * (d - e)
      BY <1>2
    <2>3. QED
      BY <1>1, <2>1, <2>2
  <1>3. QED
    BY <1>1, <1>2

LEMMA RellenoBien ==
  ASSUME NEW k \in Nat, NEW r \in Nat, NEW b \in Nat, NEW d \in Nat, k <= Tope(b), Tope(b) \in Nat
  PROVE  /\ Relleno(k, r, b, d) \in 0 .. Tope(b)
         /\ Relleno(k, r, b, 0) = k
         /\ Relleno(k, r, b, d + 1) = Repone(Relleno(k, r, b, d), r, b)
         /\ \A e \in Nat : e <= d => Relleno(k, r, b, e) <= Relleno(k, r, b, d)
         /\ k = Tope(b) => Relleno(k, r, b, d) = k
  <1> DEFINE T == Tope(b)
             x == r * d
             y == r * (d + 1)
             z == r * 0
  <1>1. x \in Nat /\ y = x + r /\ z = 0 /\ T \in Nat /\ k <= T
    BY Productos
  <1>2. /\ Relleno(k, r, b, d) = IF k + x > T THEN T ELSE k + x
        /\ Relleno(k, r, b, d + 1) = IF k + y > T THEN T ELSE k + y
        /\ Relleno(k, r, b, 0) = IF k + z > T THEN T ELSE k + z
    BY DEF Relleno
  <1>3. ASSUME NEW e \in Nat, e <= d
        PROVE  Relleno(k, r, b, e) <= Relleno(k, r, b, d)
    <2> DEFINE w == r * e
    <2>1. w \in Nat /\ w <= x
      BY <1>3, Productos
    <2>2. Relleno(k, r, b, e) = IF k + w > T THEN T ELSE k + w
      BY DEF Relleno
    <2> HIDE DEF T, x, w
    <2>3. QED
      BY <1>1, <1>2, <2>1, <2>2
  <1>4. Repone(Relleno(k, r, b, d), r, b)
          = IF Relleno(k, r, b, d) + r > T THEN T ELSE Relleno(k, r, b, d) + r
    BY DEF Repone
  <1> HIDE DEF T, x, y, z
  <1>5. /\ Relleno(k, r, b, d) \in 0 .. T
        /\ Relleno(k, r, b, 0) = k
        /\ Relleno(k, r, b, d + 1) = Repone(Relleno(k, r, b, d), r, b)
        /\ k = T => Relleno(k, r, b, d) = k
    BY <1>1, <1>2, <1>4
  <1>6. QED
    BY <1>3, <1>5 DEF T

\* What is found in a bucket, and what there is by the time gone by.
LEMMA RecargaBien ==
  ASSUME NEW k \in Nat, NEW r \in Nat, NEW b \in Nat, k <= Tope(b), Tope(b) \in Nat,
         NEW m \in Nat, NEW u \in 0 .. m
  PROVE  LET x == recarga(k, u % ClockMod, r, b, m % ClockMod)
         IN  /\ x \in 0 .. Tope(b) /\ x <= Relleno(k, r, b, m - u)
             /\ m - u < ClockMod => x = Relleno(k, r, b, m - u)
             /\ k = Tope(b) => x = k
  <1> DEFINE d == m - u
             y == Edad(m % ClockMod, u % ClockMod)
             x == recarga(k, u % ClockMod, r, b, m % ClockMod)
  <1>1. d \in Nat /\ u \in Nat /\ u + d = m
    OBVIOUS
  <1>2. y \in Nat /\ y <= d /\ (d < ClockMod => y = d)
    <2> HIDE DEF d
    <2>1. LET f == Edad((u + d) % ClockMod, u % ClockMod)
          IN  f \in Nat /\ f <= d /\ (d < ClockMod => f = d)
      BY <1>1, EdadBien
    <2>2. QED
      BY <1>1, <2>1
  <1>3. x = Relleno(k, r, b, y)
    BY DEF recarga, Relleno
  <1> HIDE DEF d, y, x
  <1>4. Relleno(k, r, b, y) \in 0 .. Tope(b)
    BY <1>2, RellenoBien
  <1>5. k = Tope(b) => Relleno(k, r, b, y) = k
    BY <1>2, RellenoBien
  <1>6. Relleno(k, r, b, y) <= Relleno(k, r, b, d)
    BY <1>1, <1>2, RellenoBien
  <1>7. /\ x \in 0 .. Tope(b) /\ x <= Relleno(k, r, b, d)
        /\ d < ClockMod => x = Relleno(k, r, b, d)
        /\ k = Tope(b) => x = k
    BY <1>2, <1>3, <1>4, <1>5, <1>6
  <1>8. QED
    BY <1>7 DEF d, x

-----------------------------------------------------------------------------
(***************************************************************************)
(* The scan of the table of buckets                                        *)
(***************************************************************************)

\* The scan ends with a free bucket if there is one, and otherwise with that
\* of the lowest number, for any numbers that go by the stamps.
LEMMA VictimaBien ==
  ASSUME NEW rl, NEW w \in [CuboSlots -> Int], NEW ord \in BOOLEAN,
         ord => \A i, j \in CuboSlots : rl.cubos[i] # Vacio /\ rl.cubos[j] # Vacio =>
                  (Antes(rl.cubos[i].usado, rl.cubos[j].usado) <=> w[i] < w[j])
  PROVE  /\ Victima(rl) \in CuboSlots
         /\ rl.cubos[Victima(rl)] # Vacio => \A j \in CuboSlots : rl.cubos[j] # Vacio
         /\ ord /\ rl.cubos[Victima(rl)] # Vacio => \A j \in CuboSlots : w[Victima(rl)] <= w[j]
  <1> DEFINE c == rl.cubos
             n == RATELIMIT_TABLE - 1
             Cambia(i, v) == c[v] # Vacio /\ (c[i] = Vacio \/ Antes(c[i].usado, c[v].usado))
             g == [k \in 1 .. n |-> [v \in Int |-> IF Cambia(k, v) THEN k ELSE v]]
             scan == CHOOSE s : s = [i \in CuboSlots |->
                       IF i = 0 THEN 0
                       ELSE LET v == s[i - 1]
                            IN  IF c[v] # Vacio /\ (c[i] = Vacio \/ Antes(c[i].usado, c[v].usado))
                                  THEN i ELSE v]
  <1>1. n \in Nat /\ CuboSlots = 0 .. n /\ n \in CuboSlots
    BY RateLimitAssumption DEF CuboSlots
  <1>2. Victima(rl) = scan[n]
    BY Zenon DEF Victima
  <1>3. /\ g \in [1 .. n -> [Int -> Int]]
        /\ \A k \in 1 .. n, v \in Int : g[k][v] = IF Cambia(k, v) THEN k ELSE v
    <2> HIDE DEF Cambia, n
    <2>1. QED
      BY <1>1
  <1>4. \E s : s = [i \in CuboSlots |->
                      IF i = 0 THEN 0 ELSE IF Cambia(i, s[i - 1]) THEN i ELSE s[i - 1]]
    <2> HIDE DEF g, n, Cambia
    <2> DEFINE z == 0
    <2>1. z \in Int
      OBVIOUS
    <2> HIDE DEF z
    <2>2. PICK s \in [0 .. n -> Int] : s[0] = z /\ \A k \in 1 .. n : s[k] = g[k][s[k - 1]]
      BY <1>1, <1>3, <2>1, Recursiva
    <2>3. ASSUME NEW i \in CuboSlots
          PROVE  s[i] = IF i = 0 THEN 0 ELSE IF Cambia(i, s[i - 1]) THEN i ELSE s[i - 1]
      <3>1. CASE i = 0
        BY <2>2, <3>1 DEF z
      <3>2. CASE i # 0
        <4>1. i \in 1 .. n /\ i - 1 \in 0 .. n
          BY <1>1, <3>2
        <4>2. s[i - 1] \in Int
          BY <2>2, <4>1
        <4>3. QED
          BY <1>3, <2>2, <3>2, <4>1, <4>2
      <3>3. QED
        BY <3>1, <3>2
    <2>4. s = [i \in CuboSlots |->
                 IF i = 0 THEN 0 ELSE IF Cambia(i, s[i - 1]) THEN i ELSE s[i - 1]]
      BY <1>1, <2>2, <2>3
    <2>5. QED
      BY <2>4, Zenon
  <1>5. scan = [i \in CuboSlots |->
                  IF i = 0 THEN 0 ELSE IF Cambia(i, scan[i - 1]) THEN i ELSE scan[i - 1]]
    BY <1>4, Zenon
  <1> HIDE DEF scan, g
  <1>6. /\ scan[0] = 0
        /\ \A k \in 1 .. n : scan[k] = IF Cambia(k, scan[k - 1]) THEN k ELSE scan[k - 1]
    <2> HIDE DEF Cambia, n
    <2>1. \A k \in 0 .. n : scan[k] = IF k = 0 THEN 0
                              ELSE IF Cambia(k, scan[k - 1]) THEN k ELSE scan[k - 1]
      BY <1>1, <1>5, Zenon
    <2>2. QED
      BY <1>1, <2>1
  <1> DEFINE Bien(k, v) == /\ v \in 0 .. k
                           /\ c[v] # Vacio => \A j \in 0 .. k : c[j] # Vacio
                           /\ ord /\ c[v] # Vacio => \A j \in 0 .. k : w[v] <= w[j]
             S == {k \in 0 .. n : Bien(k, scan[k])}
  <1> HIDE DEF c, n
  <1>7. 0 \in S
    <2>1. 0 \in 0 .. n /\ 0 \in CuboSlots /\ 0 .. 0 = {0} /\ w[0] <= w[0]
      BY <1>1
    <2>2. Bien(0, 0)
      BY <2>1
    <2> HIDE DEF Bien
    <2>3. QED
      BY <1>6, <2>1, <2>2
  <1>8. ASSUME NEW m \in 0 .. n - 1, m \in S
        PROVE  m + 1 \in S
    <2> DEFINE v == scan[m]
               u == scan[m + 1]
               k == m + 1
    <2>1. /\ k \in 1 .. n /\ k \in 0 .. n /\ k - 1 = m /\ m \in 0 .. n /\ m \in Nat
          /\ k \in CuboSlots /\ 0 .. k = (0 .. m) \cup {k} /\ 0 .. m \subseteq CuboSlots
      BY <1>1
    <2>2. u = IF Cambia(k, v) THEN k ELSE v
      <3> HIDE DEF Cambia
      <3>1. QED
        BY <1>6, <2>1
    <2>3. Bien(m, v)
      BY <1>8
    <2> HIDE DEF v, u, k
    <2>4. v \in CuboSlots /\ \A j \in CuboSlots : w[j] \in Int
      BY <2>1, <2>3
    <2>5. CASE c[v] = Vacio
      <3>1. u = v /\ u \in 0 .. k
        BY <2>1, <2>2, <2>3, <2>5
      <3>2. Bien(k, u)
        BY <2>5, <3>1
      <3>3. QED
        BY <2>1, <3>2 DEF k, u
    <2>6. CASE c[v] # Vacio /\ c[k] = Vacio
      <3>1. u = k /\ u \in 0 .. k
        BY <2>1, <2>2, <2>6
      <3>2. Bien(k, u)
        BY <2>6, <3>1
      <3>3. QED
        BY <2>1, <3>2 DEF k, u
    <2>7. CASE c[v] # Vacio /\ c[k] # Vacio
      <3>1. ord => (Antes(c[k].usado, c[v].usado) <=> w[k] < w[v])
        BY <2>1, <2>4, <2>7 DEF c
      <3>2. u = IF Antes(c[k].usado, c[v].usado) THEN k ELSE v
        BY <2>2, <2>7
      <3>3. u \in 0 .. k
        BY <2>1, <2>3, <3>2
      <3>4. \A j \in 0 .. k : c[j] # Vacio
        BY <2>1, <2>3, <2>7
      <3>5. ASSUME ord
            PROVE  \A j \in 0 .. k : w[u] <= w[j]
        <4>1. \A j \in 0 .. m : w[v] <= w[j]
          BY <2>3, <2>7, <3>5
        <4>2. u = IF w[k] < w[v] THEN k ELSE v
          BY <3>1, <3>2, <3>5
        <4>3. w[k] \in Int /\ w[v] \in Int /\ \A j \in 0 .. m : w[j] \in Int
          BY <2>1, <2>4
        <4>4. CASE w[k] < w[v]
          BY <2>1, <4>1, <4>2, <4>3, <4>4
        <4>5. CASE ~(w[k] < w[v])
          BY <2>1, <4>1, <4>2, <4>3, <4>5
        <4>6. QED
          BY <4>4, <4>5
      <3>6. Bien(k, u)
        BY <3>3, <3>4, <3>5
      <3>7. QED
        BY <2>1, <3>6 DEF k, u
    <2>8. QED
      BY <2>5, <2>6, <2>7
  <1>9. 0 .. n \subseteq S
    <2> HIDE DEF S
    <2>1. QED
      BY <1>1, <1>7, <1>8, Induccion
  <1>10. Bien(n, scan[n])
    <2> HIDE DEF Bien
    <2>1. QED
      BY <1>1, <1>9
  <1>11. QED
    BY <1>1, <1>2, <1>10 DEF c

-----------------------------------------------------------------------------
(***************************************************************************)
(* The registry of clients                                                 *)
(***************************************************************************)
Tabla == [EntSlots -> Ent \cup {Nadie}]

LEMMA Primera ==
  ASSUME NEW S \in SUBSET Nat, S # {}
  PROVE  \E i \in S : EsPrimera(S, i)
  BY Minimo DEF EsPrimera

LEMMA CuentaTipos ==
  ASSUME NEW e \in Ent \cup {Nadie}
  PROVE  /\ Cuenta1(e).total \in Nat /\ Cuenta1(e).bloqueadas \in Nat
         /\ e # Nadie => Cuenta1(e).total = e.total /\ Cuenta1(e).bloqueadas = e.blocked
         /\ e = Nadie => Cuenta1(e).total = 0 /\ Cuenta1(e).bloqueadas = 0
  BY DEF Cuenta1, Ent

LEMMA SumasCambian ==
  ASSUME NEW a \in Tabla, NEW b \in Tabla, NEW i \in EntSlots, \A j \in EntSlots : j # i => b[j] = a[j]
  PROVE  /\ TotalDe(b) = TotalDe(a) + (Cuenta1(b[i]).total - Cuenta1(a[i]).total)
         /\ BlockedDe(b) = BlockedDe(a) + (Cuenta1(b[i]).bloqueadas - Cuenta1(a[i]).bloqueadas)
         /\ TotalDe(a) \in Int /\ BlockedDe(a) \in Int
  <1> DEFINE n == CLIENTS_TABLE
             fa == [j \in EntSlots |-> Cuenta1(a[j]).total]
             fb == [j \in EntSlots |-> Cuenta1(b[j]).total]
             ga == [j \in EntSlots |-> Cuenta1(a[j]).bloqueadas]
             gb == [j \in EntSlots |-> Cuenta1(b[j]).bloqueadas]
  <1>1. n \in Nat /\ EntSlots = 0 .. n - 1
    BY ClientsAssumption DEF EntSlots
  <1>2. ASSUME NEW j \in EntSlots
        PROVE  /\ Cuenta1(a[j]).total \in Nat /\ Cuenta1(a[j]).bloqueadas \in Nat
               /\ Cuenta1(b[j]).total \in Nat /\ Cuenta1(b[j]).bloqueadas \in Nat
    <2>1. a[j] \in Ent \cup {Nadie} /\ b[j] \in Ent \cup {Nadie}
      BY DEF Tabla
    <2>2. QED
      BY <2>1, CuentaTipos
  <1>3. /\ fa \in [0 .. n - 1 -> Int] /\ fb \in [0 .. n - 1 -> Int]
        /\ ga \in [0 .. n - 1 -> Int] /\ gb \in [0 .. n - 1 -> Int]
    BY <1>1, <1>2
  <1>4. /\ \A j \in 0 .. n - 1 : j # i => fb[j] = fa[j]
        /\ \A j \in 0 .. n - 1 : j # i => gb[j] = ga[j]
        /\ i \in 0 .. n - 1
    BY <1>1
  <1>5. /\ TotalDe(a) = Sumatorio(fa, n) /\ TotalDe(b) = Sumatorio(fb, n)
        /\ BlockedDe(a) = Sumatorio(ga, n) /\ BlockedDe(b) = Sumatorio(gb, n)
    BY DEF TotalDe, BlockedDe
  <1>6. /\ fa[i] = Cuenta1(a[i]).total /\ fb[i] = Cuenta1(b[i]).total
        /\ ga[i] = Cuenta1(a[i]).bloqueadas /\ gb[i] = Cuenta1(b[i]).bloqueadas
    OBVIOUS
  <1> HIDE DEF fa, fb, ga, gb, n
  <1>7. Sumatorio(fb, n) = Sumatorio(fa, n) + (fb[i] - fa[i]) /\ Sumatorio(fa, n) \in Int
    BY <1>1, <1>3, <1>4, SumaCambia
  <1>8. Sumatorio(gb, n) = Sumatorio(ga, n) + (gb[i] - ga[i]) /\ Sumatorio(ga, n) \in Int
    BY <1>1, <1>3, <1>4, SumaCambia
  <1>9. QED
    BY <1>5, <1>6, <1>7, <1>8

LEMMA RegistroVacio ==
  /\ clients_init \in Tabla /\ Vistos(clients_init) = {}
  /\ TotalDe(clients_init) = 0 /\ BlockedDe(clients_init) = 0
  <1> DEFINE n == CLIENTS_TABLE
             f == [j \in EntSlots |-> Cuenta1(clients_init[j]).total]
             g == [j \in EntSlots |-> Cuenta1(clients_init[j]).bloqueadas]
  <1>1. n \in Nat /\ EntSlots = 0 .. n - 1
    BY ClientsAssumption DEF EntSlots
  <1>2. clients_init \in Tabla /\ Vistos(clients_init) = {}
    BY DEF clients_init, Tabla, Vistos
  <1>3. \A j \in EntSlots : f[j] = 0 /\ g[j] = 0
    BY DEF clients_init, Cuenta1
  <1>4. f \in [0 .. n - 1 -> Int] /\ g \in [0 .. n - 1 -> Int]
    BY <1>1, <1>3
  <1>5. TotalDe(clients_init) = Sumatorio(f, n) /\ BlockedDe(clients_init) = Sumatorio(g, n)
    BY DEF TotalDe, BlockedDe
  <1> HIDE DEF f, g, n
  <1>6. Sumatorio(f, n) = 0
    BY <1>1, <1>3, <1>4, SumaCero
  <1>7. Sumatorio(g, n) = 0
    BY <1>1, <1>3, <1>4, SumaCero
  <1>8. QED
    BY <1>2, <1>5, <1>6, <1>7

\* Where a client is written, whether it was in the registry or not.
LEMMA EntParaHay ==
  ASSUME NEW a \in Tabla
  PROVE  \E i \in EntSlots : EntPara(a, i)
  <1>1. EntSlots \in SUBSET Nat /\ EntSlots # {}
    BY ClientsAssumption DEF EntSlots
  <1>2. CASE EntSlots \ Vistos(a) # {}
    <2>1. PICK i \in EntSlots \ Vistos(a) : EsPrimera(EntSlots \ Vistos(a), i)
      BY <1>1, <1>2, Primera
    <2>2. QED
      BY <2>1 DEF EntPara
  <1>3. CASE EntSlots \ Vistos(a) = {}
    <2>1. Vistos(a) = EntSlots
      BY <1>3 DEF Vistos
    <2> DEFINE E == {a[i].visto : i \in EntSlots}
               V == {j \in Vistos(a) : \A k \in Vistos(a) : a[j].visto <= a[k].visto}
    <2>2. \A i \in EntSlots : a[i] \in Ent
      BY <2>1 DEF Tabla, Vistos
    <2>3. E \in SUBSET Nat /\ E # {}
      BY <1>1, <2>2 DEF Ent
    <2>4. PICK x \in E : \A y \in E : x <= y
      BY <2>3, Minimo
    <2>5. PICK i \in EntSlots : a[i].visto = x
      BY <2>4
    <2>6. i \in V
      BY <2>1, <2>4, <2>5
    <2>7. V \in SUBSET Nat /\ V # {} /\ V \subseteq EntSlots
      BY <1>1, <2>1, <2>6
    <2>8. PICK j \in V : EsPrimera(V, j)
      <3> HIDE DEF V
      <3>1. QED
        BY <2>7, Primera
    <2>9. j \in EntSlots /\ VistaHaceMas(a, j)
      BY <2>7, <2>8 DEF VistaHaceMas
    <2>10. QED
      BY <2>1, <2>9 DEF EntPara
  <1>4. QED
    BY <1>2, <1>3

\* What a query leaves in the registry, and what it takes from it.
LEMMA RegistraPasa ==
  ASSUME TypeOK, Cuadra, NEW c \in Locales, NEW b \in {0, 1}, NEW hora \in Nat,
         s_clients' = clients_record(s_clients, c, b, hora),
         met' = Suma2(met, 1, b),
         olvidadas' = Suma2(olvidadas, Desalojo(c).total, Desalojo(c).bloqueadas)
  PROVE  /\ s_clients' \in [EntSlots -> Ent \cup {Nadie}]
         /\ met' \in Cuenta /\ olvidadas' \in Cuenta
         /\ Cuadra'
  <1>1. /\ s_clients \in Tabla /\ met \in Cuenta /\ olvidadas \in Cuenta
        /\ c \in Clientes /\ Nadie \notin Ent
    BY PolicyAssumption, NadieAssumption DEF TypeOK, Tabla
  <1>2. \E i \in EntSlots, r \in Ent :
          /\ s_clients' = [s_clients EXCEPT ![i] = r]
          /\ r.ip = c /\ r.blocked <= r.total
          /\ \A j \in Vistos(s_clients) : s_clients[j].ip = c => j = i
          /\ r.total = Cuenta1(s_clients[i]).total - Desalojo(c).total + 1
          /\ r.blocked = Cuenta1(s_clients[i]).bloqueadas - Desalojo(c).bloqueadas + b
          /\ Desalojo(c).total \in Nat /\ Desalojo(c).bloqueadas \in Nat
    <2>1. CASE EntDe(s_clients, c) # {}
      <3> DEFINE i == CHOOSE j \in EntSlots : EsPrimera(EntDe(s_clients, c), j)
                 e == s_clients[i]
                 r == [ip |-> c, total |-> e.total + 1, blocked |-> e.blocked + b, visto |-> hora]
      <3>1. EntDe(s_clients, c) \in SUBSET Nat /\ EntDe(s_clients, c) \subseteq EntSlots
        BY ClientsAssumption DEF EntDe, Vistos, EntSlots
      <3>2. \E j \in EntSlots : EsPrimera(EntDe(s_clients, c), j)
        BY <2>1, <3>1, Primera
      <3>3. i \in EntSlots /\ i \in EntDe(s_clients, c)
        BY <3>2 DEF EsPrimera
      <3>4. s_clients' = [s_clients EXCEPT ![i].total = @ + 1, ![i].blocked = @ + b, ![i].visto = hora]
        BY <2>1 DEF clients_record
      <3> HIDE DEF i
      <3>5. e \in Ent /\ e # Nadie /\ e.ip = c /\ i \in Vistos(s_clients)
        BY <1>1, <3>3 DEF EntDe, Vistos, Tabla
      <3>6. /\ e = [ip |-> c, total |-> e.total, blocked |-> e.blocked, visto |-> e.visto]
            /\ e.total \in Nat \ {0} /\ e.blocked \in Nat
        BY <3>5 DEF Ent
      <3>7. s_clients' = [s_clients EXCEPT ![i] = r]
        <4> DEFINE x == [e EXCEPT !.total = @ + 1]
                   y == [x EXCEPT !.blocked = @ + b]
                   z == [y EXCEPT !.visto = hora]
        <4> DEFINE f == [s_clients EXCEPT ![i].total = @ + 1]
                   g == [f EXCEPT ![i].blocked = @ + b]
                   h == [g EXCEPT ![i].visto = hora]
        <4>1. DOMAIN s_clients = EntSlots
          BY <1>1 DEF Tabla
        <4>2. f = [s_clients EXCEPT ![i] = x]
          BY <3>3, <4>1
        <4>3. DOMAIN f = EntSlots /\ f[i] = x
          BY <3>3, <4>1
        <4>4. s_clients' = h
          BY <3>4
        <4> HIDE DEF f
        <4>5. g = [f EXCEPT ![i] = y] /\ DOMAIN g = EntSlots /\ g[i] = y
          BY <3>3, <4>3
        <4> HIDE DEF g
        <4>6. h = [g EXCEPT ![i] = z]
          BY <3>3, <4>5
        <4> HIDE DEF h, x, y, z
        <4>7. s_clients' = [s_clients EXCEPT ![i] = z]
          BY <3>3, <4>1, <4>2, <4>4, <4>5, <4>6
        <4> USE DEF x, y, z
        <4> HIDE DEF e
        <4>8. x = [ip |-> c, total |-> e.total + 1, blocked |-> e.blocked, visto |-> e.visto]
          BY <3>6
        <4> HIDE DEF x
        <4>9. y = [ip |-> c, total |-> e.total + 1, blocked |-> e.blocked + b, visto |-> e.visto]
          BY <4>8
        <4> HIDE DEF y
        <4>10. z = r
          BY <4>9
        <4>11. QED
          BY <4>7, <4>10
      <3>8. r \in Ent
        BY <1>1, <3>6 DEF Ent
      <3>9. \A j \in Vistos(s_clients) : s_clients[j].ip = c => j = i
        BY <3>5 DEF Cuadra
      <3>10. Cuenta1(e).total = e.total /\ Cuenta1(e).bloqueadas = e.blocked
        BY <3>5 DEF Cuenta1
      <3>11. Desalojo(c).total = 0 /\ Desalojo(c).bloqueadas = 0
        BY <2>1 DEF Desalojo, Cuenta1
      <3>12. e.blocked <= e.total
        BY <3>5 DEF Cuadra
      <3> DEFINE et == e.total
                 eb == e.blocked
      <3>13. /\ r.ip = c /\ r.total = et + 1 /\ r.blocked = eb + b
             /\ et \in Nat /\ eb \in Nat /\ eb <= et
             /\ Cuenta1(s_clients[i]).total = et /\ Cuenta1(s_clients[i]).bloqueadas = eb
        BY <3>6, <3>10, <3>12
      <3> HIDE DEF r, et, eb, e
      <3>14. /\ r.blocked <= r.total
             /\ r.total = Cuenta1(s_clients[i]).total - Desalojo(c).total + 1
             /\ r.blocked = Cuenta1(s_clients[i]).bloqueadas - Desalojo(c).bloqueadas + b
        BY <3>11, <3>13
      <3>15. Desalojo(c).total \in Nat /\ Desalojo(c).bloqueadas \in Nat
        BY <3>11
      <3>16. QED
        BY <3>3, <3>7, <3>8, <3>9, <3>13, <3>14, <3>15
    <2>2. CASE EntDe(s_clients, c) = {}
      <3> DEFINE i == CHOOSE j \in EntSlots : EntPara(s_clients, j)
                 r == [ip |-> c, total |-> 1, blocked |-> b, visto |-> hora]
      <3>1. i \in EntSlots
        BY <1>1, EntParaHay
      <3>2. s_clients' = [s_clients EXCEPT ![i] = r]
        BY <2>2 DEF clients_record
      <3>3. Desalojo(c) = Cuenta1(s_clients[i])
        BY <2>2 DEF Desalojo
      <3> HIDE DEF i
      <3>4. r \in Ent /\ r.ip = c /\ r.total = 1 /\ r.blocked = b /\ r.blocked <= r.total
        BY <1>1 DEF Ent
      <3>5. \A j \in Vistos(s_clients) : s_clients[j].ip # c
        BY <2>2 DEF EntDe
      <3>6. Desalojo(c).total \in Nat /\ Desalojo(c).bloqueadas \in Nat
        <4>1. s_clients[i] \in Ent \cup {Nadie}
          BY <1>1, <3>1 DEF Tabla
        <4>2. QED
          BY <3>3, <4>1, CuentaTipos
      <3> HIDE DEF r
      <3>7. /\ r.total = Cuenta1(s_clients[i]).total - Desalojo(c).total + 1
            /\ r.blocked = Cuenta1(s_clients[i]).bloqueadas - Desalojo(c).bloqueadas + b
        BY <3>3, <3>4, <3>6
      <3>8. QED
        BY <3>1, <3>2, <3>4, <3>5, <3>6, <3>7
    <2>3. QED
      BY <2>1, <2>2
  <1>3. PICK i \in EntSlots, r \in Ent :
          /\ s_clients' = [s_clients EXCEPT ![i] = r]
          /\ r.ip = c /\ r.blocked <= r.total
          /\ \A j \in Vistos(s_clients) : s_clients[j].ip = c => j = i
          /\ r.total = Cuenta1(s_clients[i]).total - Desalojo(c).total + 1
          /\ r.blocked = Cuenta1(s_clients[i]).bloqueadas - Desalojo(c).bloqueadas + b
          /\ Desalojo(c).total \in Nat /\ Desalojo(c).bloqueadas \in Nat
    BY <1>2
  <1>4. /\ s_clients' \in Tabla /\ s_clients'[i] = r /\ r # Nadie
        /\ \A j \in EntSlots : j # i => s_clients'[j] = s_clients[j]
    BY <1>1, <1>3 DEF Tabla
  <1> DEFINE dt == Desalojo(c).total
             db == Desalojo(c).bloqueadas
  <1>5. /\ met'.total = met.total + 1 /\ met'.bloqueadas = met.bloqueadas + b
        /\ olvidadas'.total = olvidadas.total + dt /\ olvidadas'.bloqueadas = olvidadas.bloqueadas + db
        /\ met' \in Cuenta /\ olvidadas' \in Cuenta
        /\ met.total \in Nat /\ met.bloqueadas \in Nat
        /\ olvidadas.total \in Nat /\ olvidadas.bloqueadas \in Nat
    BY <1>1, <1>3 DEF Suma2, Cuenta
  <1>6. /\ TotalDe(s_clients')
             = TotalDe(s_clients) + (Cuenta1(s_clients'[i]).total - Cuenta1(s_clients[i]).total)
        /\ BlockedDe(s_clients')
             = BlockedDe(s_clients) + (Cuenta1(s_clients'[i]).bloqueadas - Cuenta1(s_clients[i]).bloqueadas)
        /\ TotalDe(s_clients) \in Int /\ BlockedDe(s_clients) \in Int
    BY <1>1, <1>4, SumasCambian
  <1>7. Cuenta1(s_clients'[i]).total = r.total /\ Cuenta1(s_clients'[i]).bloqueadas = r.blocked
    BY <1>4 DEF Cuenta1
  <1>8. /\ Cuenta1(s_clients[i]).total \in Nat /\ Cuenta1(s_clients[i]).bloqueadas \in Nat
    <2>1. s_clients[i] \in Ent \cup {Nadie}
      BY <1>1 DEF Tabla
    <2>2. QED
      BY <2>1, CuentaTipos
  <1>9. met'.total = olvidadas'.total + TotalDe(s_clients')
    <2> DEFINE x == Cuenta1(s_clients[i]).total
               m == met.total
               o == olvidadas.total
               T == TotalDe(s_clients)
    <2>1. /\ x \in Nat /\ m \in Nat /\ o \in Nat /\ T \in Int /\ dt \in Nat
          /\ m = o + T /\ TotalDe(s_clients') = T + ((x - dt + 1) - x)
          /\ met'.total = m + 1 /\ olvidadas'.total = o + dt
      BY <1>3, <1>5, <1>6, <1>7, <1>8 DEF Cuadra
    <2> HIDE DEF x, m, o, T, dt
    <2>2. QED
      BY <2>1
  <1>10. met'.bloqueadas = olvidadas'.bloqueadas + BlockedDe(s_clients')
    <2> DEFINE x == Cuenta1(s_clients[i]).bloqueadas
               m == met.bloqueadas
               o == olvidadas.bloqueadas
               T == BlockedDe(s_clients)
    <2>1. /\ x \in Nat /\ m \in Nat /\ o \in Nat /\ T \in Int /\ db \in Nat
          /\ m = o + T /\ BlockedDe(s_clients') = T + ((x - db + b) - x)
          /\ met'.bloqueadas = m + b /\ olvidadas'.bloqueadas = o + db
      BY <1>3, <1>5, <1>6, <1>7, <1>8 DEF Cuadra
    <2> HIDE DEF x, m, o, T, db
    <2>2. QED
      BY <2>1
  <1>11. \A j \in Vistos(s_clients') : j # i => j \in Vistos(s_clients) /\ s_clients'[j] = s_clients[j]
    BY <1>4 DEF Vistos
  <1>12. ASSUME NEW j \in Vistos(s_clients'), NEW l \in Vistos(s_clients'),
                s_clients'[j].ip = s_clients'[l].ip
         PROVE  j = l
    <2>1. CASE j = i
      BY <1>3, <1>4, <1>11, <1>12, <2>1
    <2>2. CASE l = i
      BY <1>3, <1>4, <1>11, <1>12, <2>2
    <2>3. CASE j # i /\ l # i
      BY <1>11, <1>12, <2>3 DEF Cuadra
    <2>4. QED
      BY <2>1, <2>2, <2>3
  <1>13. \A j \in Vistos(s_clients') :
           s_clients'[j].blocked <= s_clients'[j].total /\ s_clients'[j].ip \in Locales
    BY <1>3, <1>4, <1>11 DEF Cuadra
  <1>14. QED
    BY <1>4, <1>5, <1>9, <1>10, <1>12, <1>13 DEF Cuadra, Tabla

-----------------------------------------------------------------------------
(***************************************************************************)
(* The limiter                                                             *)
(***************************************************************************)

\* What the constants are, for the lemmas on tokens.
LEMMA Tipos ==
  /\ ip_rate \in Nat /\ ip_burst \in Nat /\ Tope(ip_burst) \in Nat
  /\ glob_rate \in Nat /\ glob_burst \in Nat /\ Tope(glob_burst) \in Nat
  /\ MIL \in Nat /\ MIL > 0 /\ Tope(glob_burst) >= MIL
  <1>1. /\ ip_rate \in Nat /\ ip_burst \in Nat /\ glob_rate \in Nat /\ glob_burst \in Nat
        /\ glob_burst > 0 /\ MIL \in Nat /\ MIL > 0
    BY RateLimitAssumption
  <1>2. Tope(ip_burst) \in Nat
    BY <1>1 DEF Tope
  <1>3. Tope(glob_burst) \in Nat /\ Tope(glob_burst) >= MIL
    <2>1. glob_burst - 1 \in Nat /\ (glob_burst - 1) * MIL \in Nat
      BY <1>1
    <2>2. glob_burst * MIL = (glob_burst - 1) * MIL + MIL
      BY <1>1
    <2>3. QED
      BY <1>1, <2>1, <2>2 DEF Tope
  <1>4. QED
    BY <1>1, <1>2, <1>3

LEMMA MitadMenor == ClockMod \div 2 < ClockMod /\ ClockMod \div 2 \in Nat /\ ClockMod \in Nat
  BY ClockModAssumption

\* What is found in a bucket is what there would be with a refill at each tick.
LEMMA CuboBien ==
  ASSUME TypeOK, Cubos, NEW i \in EnUsoRl
  PROVE  LET b == s_rl.cubos[i]
         IN  /\ b \in Cubo /\ EnCubo(b, ms_now) \in 0 .. Tope(ip_burst)
             /\ EnCubo(b, ms_now) <= ideal[b.ip]
             /\ ordenado => EnCubo(b, ms_now) = ideal[b.ip]
  <1> DEFINE b == s_rl.cubos[i]
             u == ultima[b.ip]
             d == t - u
             x == recarga(b.tokens, u % ClockMod, ip_rate, ip_burst, t % ClockMod)
             y == Relleno(b.tokens, ip_rate, ip_burst, d)
  <1>1. i \in CuboSlots /\ b \in Cubo
    BY DEF EnUsoRl, TypeOK, LimiteTipo
  <1>2. t \in Nat /\ u \in 0 .. t /\ b.usado = u % ClockMod
    BY NetDnsAssumption DEF Cubos, TypeOK
  <1>3. /\ y <= ideal[b.ip]
        /\ ordenado => y = ideal[b.ip] /\ d < ClockMod \div 2
    BY DEF Cubos
  <1>4. b.tokens \in Nat /\ b.tokens <= Tope(ip_burst) /\ b.ip \in Clientes
    BY <1>1, Tipos DEF Cubo
  <1>5. ideal[b.ip] \in Nat
    BY <1>4, Tipos DEF TypeOK
  <1>6. EnCubo(b, ms_now) = x
    BY <1>2 DEF EnCubo, ms_now
  <1> DEFINE k == b.tokens
  <1>7. k \in Nat /\ k <= Tope(ip_burst)
    BY <1>4
  <1> HIDE DEF k, u, b
  <1>8. /\ x \in 0 .. Tope(ip_burst) /\ x <= y
        /\ d < ClockMod => x = y
    <2>1. k \in Nat /\ k <= Tope(ip_burst) /\ t \in Nat /\ u \in 0 .. t
      BY <1>2, <1>7
    <2>2. ip_rate \in Nat /\ ip_burst \in Nat /\ Tope(ip_burst) \in Nat
      BY Tipos
    <2>3. recarga(k, u % ClockMod, ip_rate, ip_burst, t % ClockMod) \in 0 .. Tope(ip_burst)
      BY <2>1, <2>2, RecargaBien
    <2>4. recarga(k, u % ClockMod, ip_rate, ip_burst, t % ClockMod) <= Relleno(k, ip_rate, ip_burst, t - u)
      BY <2>1, <2>2, RecargaBien
    <2>5. t - u < ClockMod => recarga(k, u % ClockMod, ip_rate, ip_burst, t % ClockMod)
                                = Relleno(k, ip_rate, ip_burst, t - u)
      BY <2>1, <2>2, RecargaBien
    <2>6. QED
      BY <2>3, <2>4, <2>5 DEF k
  <1>9. y \in Nat
    <2>1. d \in Nat
      BY <1>2
    <2> HIDE DEF d
    <2>2. Relleno(k, ip_rate, ip_burst, d) \in 0 .. Tope(ip_burst)
      BY <1>7, <2>1, Tipos, RellenoBien
    <2>3. QED
      BY <2>2, Tipos DEF k
  <1>10. ordenado => d < ClockMod
    BY <1>2, <1>3, MitadMenor
  <1> HIDE DEF x, y, d
  <1>11. /\ b \in Cubo /\ EnCubo(b, ms_now) \in 0 .. Tope(ip_burst)
         /\ EnCubo(b, ms_now) <= ideal[b.ip]
         /\ ordenado => EnCubo(b, ms_now) = ideal[b.ip]
    BY <1>1, <1>3, <1>5, <1>6, <1>8, <1>9, <1>10, Tipos
  <1>12. QED
    BY <1>11 DEF b

LEMMA TechoBien ==
  ASSUME TypeOK, Cubos, Techo
  PROVE  /\ EnTecho(s_rl, ms_now) \in 0 .. Tope(glob_burst)
         /\ EnTecho(s_rl, ms_now) <= techo
         /\ ordenado => EnTecho(s_rl, ms_now) = techo
  <1>1. PICK u \in 0 .. t : TechoDesde(u)
    BY DEF Techo
  <1> DEFINE k == s_rl.glob
             d == t - u
             x == recarga(k, u % ClockMod, glob_rate, glob_burst, t % ClockMod)
             y == Relleno(k, glob_rate, glob_burst, d)
  <1>2. t \in Nat /\ d \in Nat /\ k \in Nat /\ k <= Tope(glob_burst) /\ techo \in Nat
    BY NetDnsAssumption, Tipos DEF TypeOK, LimiteTipo
  <1>3. y <= techo /\ (ordenado => y = techo)
    BY <1>1 DEF TechoDesde
  <1>4. EnTecho(s_rl, ms_now) = x
    BY <1>1 DEF EnTecho, ms_now, TechoDesde
  <1> HIDE DEF k
  <1>5. /\ x \in 0 .. Tope(glob_burst) /\ x <= y
        /\ d < ClockMod => x = y
        /\ k = Tope(glob_burst) => x = k
    <2>1. k \in Nat /\ k <= Tope(glob_burst) /\ t \in Nat /\ u \in 0 .. t
      BY <1>2
    <2>2. glob_rate \in Nat /\ glob_burst \in Nat /\ Tope(glob_burst) \in Nat
      BY Tipos
    <2>3. recarga(k, u % ClockMod, glob_rate, glob_burst, t % ClockMod) \in 0 .. Tope(glob_burst)
      BY <2>1, <2>2, RecargaBien
    <2>4. recarga(k, u % ClockMod, glob_rate, glob_burst, t % ClockMod) <= Relleno(k, glob_rate, glob_burst, t - u)
      BY <2>1, <2>2, RecargaBien
    <2>5. t - u < ClockMod => recarga(k, u % ClockMod, glob_rate, glob_burst, t % ClockMod)
                                = Relleno(k, glob_rate, glob_burst, t - u)
      BY <2>1, <2>2, RecargaBien
    <2>6. k = Tope(glob_burst) => recarga(k, u % ClockMod, glob_rate, glob_burst, t % ClockMod) = k
      BY <2>1, <2>2, RecargaBien
    <2>7. QED
      BY <2>3, <2>4, <2>5, <2>6
  <1> HIDE DEF d
  <1>6. y \in Nat /\ (k = Tope(glob_burst) => y = k)
    <2>1. k \in Nat /\ d \in Nat /\ k <= Tope(glob_burst)
      BY <1>2
    <2>2. glob_rate \in Nat /\ glob_burst \in Nat /\ Tope(glob_burst) \in Nat
      BY Tipos
    <2>3. Relleno(k, glob_rate, glob_burst, d) \in 0 .. Tope(glob_burst)
      BY <2>1, <2>2, RellenoBien
    <2>4. k = Tope(glob_burst) => Relleno(k, glob_rate, glob_burst, d) = k
      BY <2>1, <2>2, RellenoBien
    <2>5. QED
      BY <2>2, <2>3, <2>4
  <1>7. ordenado => x = y
    <2>1. CASE EnUsoRl = {}
      <3>1. k = Tope(glob_burst)
        BY <1>1, <2>1 DEF TechoDesde, k
      <3> HIDE DEF x, y
      <3>2. QED
        BY <1>5, <1>6, <3>1
    <2>2. CASE EnUsoRl # {}
      <3>1. PICK i \in EnUsoRl : TRUE
        BY <2>2
      <3> DEFINE v == ultima[s_rl.cubos[i].ip]
      <3>2. s_rl.cubos[i].ip \in Clientes /\ v \in 0 .. t /\ (ordenado => t - v < ClockMod \div 2)
        BY PolicyAssumption DEF Cubos
      <3>3. v <= u
        BY <1>1, <3>2 DEF TechoDesde
      <3> HIDE DEF v
      <3>4. ordenado => t - u < ClockMod
        BY <1>2, <3>2, <3>3, MitadMenor
      <3> HIDE DEF x, y
      <3>5. QED
        BY <1>5, <3>4 DEF d
    <2>3. QED
      BY <2>1, <2>2
  <1> HIDE DEF x, y
  <1>8. QED
    BY <1>2, <1>3, <1>4, <1>5, <1>6, <1>7, Tipos

\* The bucket a client is served from: its own, or a free one, or the oldest.
LEMMA CuboDeBien ==
  ASSUME TypeOK, Cubos, NEW c \in Locales
  PROVE  LET v == CuboDe(s_rl, c)
         IN  /\ v \in CuboSlots
             /\ DelCliente(s_rl, c) # {} =>
                  /\ v \in EnUsoRl /\ s_rl.cubos[v].ip = c
                  /\ \A j \in EnUsoRl : s_rl.cubos[j].ip = c => j = v
             /\ DelCliente(s_rl, c) = {} => \A j \in EnUsoRl : s_rl.cubos[j].ip # c
             /\ DelCliente(s_rl, c) = {} /\ s_rl.cubos[v] # Vacio => EnUsoRl = CuboSlots
             /\ ordenado /\ DelCliente(s_rl, c) = {} /\ s_rl.cubos[v] # Vacio =>
                  \A j \in CuboSlots : ultima[s_rl.cubos[v].ip] <= ultima[s_rl.cubos[j].ip]
  <1> DEFINE v == CuboDe(s_rl, c)
             D == DelCliente(s_rl, c)
  <1>1. /\ CuboSlots \in SUBSET Nat /\ EnUsoRl \subseteq CuboSlots
        /\ \A j \in CuboSlots : j \in D <=> j \in EnUsoRl /\ s_rl.cubos[j].ip = c
        /\ D \subseteq CuboSlots
    BY RateLimitAssumption DEF CuboSlots, EnUsoRl, DelCliente
  <1>2. CASE D # {}
    <2>1. D \in SUBSET Nat
      BY <1>1
    <2>2. PICK i \in D : EsPrimera(D, i)
      <3> HIDE DEF D
      <3>1. QED
        BY <1>2, <2>1, Primera
    <2>3. EsPrimera(D, v) /\ v \in CuboSlots
      <3>1. v = CHOOSE j \in CuboSlots : EsPrimera(D, j)
        BY <1>2 DEF CuboDe
      <3>2. \E j \in CuboSlots : EsPrimera(D, j)
        BY <1>1, <2>2
      <3> HIDE DEF v, D
      <3>3. QED
        BY <3>1, <3>2
    <2>4. v \in EnUsoRl /\ s_rl.cubos[v].ip = c
      BY <1>1, <2>3 DEF EsPrimera
    <2>5. \A j \in EnUsoRl : s_rl.cubos[j].ip = c => j = v
      BY <2>4 DEF Cubos
    <2> HIDE DEF D, v
    <2>6. QED
      BY <1>2, <2>3, <2>4, <2>5 DEF D, v
  <1>3. CASE D = {}
    <2>1. v = Victima(s_rl)
      BY <1>3 DEF CuboDe
    <2> DEFINE w == [i \in CuboSlots |-> IF i \in EnUsoRl THEN ultima[s_rl.cubos[i].ip] ELSE 0]
               ord == (ordenado = TRUE)
    <2>2. \A i \in EnUsoRl : /\ ultima[s_rl.cubos[i].ip] \in 0 .. t
                             /\ s_rl.cubos[i].usado = ultima[s_rl.cubos[i].ip] % ClockMod
                             /\ ordenado => t - ultima[s_rl.cubos[i].ip] < ClockMod \div 2
      BY DEF Cubos
    <2>3. t \in Nat
      BY NetDnsAssumption DEF TypeOK
    <2>4. w \in [CuboSlots -> Int] /\ ord \in BOOLEAN
      BY <2>2, <2>3
    <2>5. ASSUME ord, NEW i \in CuboSlots, NEW j \in CuboSlots,
                 s_rl.cubos[i] # Vacio, s_rl.cubos[j] # Vacio
          PROVE  Antes(s_rl.cubos[i].usado, s_rl.cubos[j].usado) <=> w[i] < w[j]
      <3> DEFINE x == ultima[s_rl.cubos[i].ip]
                 y == ultima[s_rl.cubos[j].ip]
      <3>1. i \in EnUsoRl /\ j \in EnUsoRl
        BY <2>5 DEF EnUsoRl
      <3>2. /\ x \in Nat /\ x <= t /\ t - x < ClockMod \div 2
            /\ y \in Nat /\ y <= t /\ t - y < ClockMod \div 2
            /\ s_rl.cubos[i].usado = x % ClockMod /\ s_rl.cubos[j].usado = y % ClockMod
            /\ w[i] = x /\ w[j] = y
        BY <2>2, <2>3, <2>5, <3>1
      <3> HIDE DEF x, y, w
      <3>3. Antes(x % ClockMod, y % ClockMod) <=> x < y
        BY <2>3, <3>2, AntesBien
      <3>4. QED
        BY <3>2, <3>3
    <2> HIDE DEF w, ord
    <2>6. ord => \A i, j \in CuboSlots : s_rl.cubos[i] # Vacio /\ s_rl.cubos[j] # Vacio =>
                   (Antes(s_rl.cubos[i].usado, s_rl.cubos[j].usado) <=> w[i] < w[j])
      BY <2>5
    <2>7. /\ Victima(s_rl) \in CuboSlots
          /\ s_rl.cubos[Victima(s_rl)] # Vacio => \A j \in CuboSlots : s_rl.cubos[j] # Vacio
          /\ ord /\ s_rl.cubos[Victima(s_rl)] # Vacio => \A j \in CuboSlots : w[Victima(s_rl)] <= w[j]
      BY <2>4, <2>6, VictimaBien, Zenon
    <2> HIDE DEF v, D
    <2>8. v \in CuboSlots /\ (s_rl.cubos[v] # Vacio => EnUsoRl = CuboSlots)
      BY <2>1, <2>7 DEF EnUsoRl
    <2>9. ASSUME ordenado, s_rl.cubos[v] # Vacio, NEW j \in CuboSlots
          PROVE  ultima[s_rl.cubos[v].ip] <= ultima[s_rl.cubos[j].ip]
      <3>1. v \in EnUsoRl /\ j \in EnUsoRl
        BY <2>8, <2>9
      <3>2. w[v] <= w[j]
        <4>1. ord
          BY <2>9 DEF ord
        <4>2. QED
          BY <2>1, <2>7, <2>9, <4>1
      <3>3. QED
        BY <2>8, <3>1, <3>2 DEF w
    <2>10. \A j \in EnUsoRl : s_rl.cubos[j].ip # c
      BY <1>1, <1>3
    <2>11. QED
      BY <1>3, <2>8, <2>9, <2>10 DEF v, D
  <1>4. QED
    BY <1>2, <1>3

\* What a client finds, and what it would with a refill at each tick.
LEMMA TokensBien ==
  ASSUME TypeOK, Cubos, NEW c \in Locales
  PROVE  LET x == TokensDe(s_rl, c, ms_now)
             y == IF DelCliente(s_rl, c) = {} THEN Tope(ip_burst) ELSE ideal[c]
         IN  /\ x \in 0 .. Tope(ip_burst) /\ x <= y
             /\ ordenado => x = y
  <1> DEFINE v == CuboDe(s_rl, c)
  <1>1. CASE DelCliente(s_rl, c) = {}
    <2>1. TokensDe(s_rl, c, ms_now) = Tope(ip_burst)
      BY <1>1 DEF TokensDe
    <2>2. QED
      BY <1>1, <2>1, Tipos
  <1>2. CASE DelCliente(s_rl, c) # {}
    <2>1. v \in EnUsoRl /\ s_rl.cubos[v].ip = c
      BY <1>2, CuboDeBien
    <2>2. TokensDe(s_rl, c, ms_now) = EnCubo(s_rl.cubos[v], ms_now)
      BY <1>2 DEF TokensDe
    <2> HIDE DEF v
    <2>3. /\ EnCubo(s_rl.cubos[v], ms_now) \in 0 .. Tope(ip_burst)
          /\ EnCubo(s_rl.cubos[v], ms_now) <= ideal[c]
          /\ ordenado => EnCubo(s_rl.cubos[v], ms_now) = ideal[c]
      BY <2>1, CuboBien
    <2>4. QED
      BY <1>2, <2>2, <2>3
  <1>3. QED
    BY <1>1, <1>2

\* One that is gone was the oldest of a full table, so the table holds others
\* that have come since.
LEMMA SirvePasa ==
  ASSUME TypeOK, Cubos, Techo, Idos, NEW c \in Locales, NEW gasta \in {0, MIL},
         HayTecho(s_rl, ms_now), gasta = MIL => HayTokens(s_rl, c, ms_now),
         s_rl' = Sirve(s_rl, c, ms_now, gasta), Anota(c, gasta), t' = t
  PROVE  /\ s_rl' \in LimiteTipo
         /\ ideal' \in [Clientes -> 0 .. Tope(ip_burst)]
         /\ techo' \in 0 .. Tope(glob_burst)
         /\ ultima' \in [Clientes -> 0 .. MaxT \cup {Nunca}]
         /\ ordenado' \in BOOLEAN
         /\ Cubos' /\ Techo' /\ Idos'
  <1> DEFINE v == CuboDe(s_rl, c)
             x == TokensDe(s_rl, c, ms_now)
             y == IF DelCliente(s_rl, c) = {} THEN Tope(ip_burst) ELSE ideal[c]
             e == EnTecho(s_rl, ms_now)
             r == [ip |-> c, tokens |-> x - gasta, usado |-> t % ClockMod]
  <1>1. /\ c \in Clientes /\ t \in Nat /\ t \in 0 .. MaxT
        /\ MIL \in Nat /\ MIL > 0 /\ Tope(ip_burst) \in Nat /\ Tope(glob_burst) \in Nat
        /\ gasta \in Nat /\ gasta <= MIL /\ (gasta = 0 \/ gasta = MIL)
    BY PolicyAssumption, NetDnsAssumption, Tipos DEF TypeOK
  <1>2. /\ s_rl.cubos \in [CuboSlots -> Cubo \cup {Vacio}]
        /\ ideal \in [Clientes -> 0 .. Tope(ip_burst)] /\ techo \in Nat /\ techo <= Tope(glob_burst)
        /\ ultima \in [Clientes -> 0 .. MaxT \cup {Nunca}] /\ ordenado \in BOOLEAN
    BY Tipos DEF TypeOK, LimiteTipo
  <1>3. v \in CuboSlots
    BY CuboDeBien
  <1>4. x \in 0 .. Tope(ip_burst) /\ x <= y /\ (ordenado => x = y) /\ y \in 0 .. Tope(ip_burst)
    <2>1. x \in 0 .. Tope(ip_burst) /\ x <= y /\ (ordenado => x = y)
      BY TokensBien
    <2>2. y \in 0 .. Tope(ip_burst)
      BY <1>1, <1>2
    <2>3. QED
      BY <2>1, <2>2
  <1>5. gasta <= x
    <2>1. CASE gasta = MIL
      BY <2>1, <1>1, <1>4 DEF HayTokens
    <2>2. CASE gasta = 0
      BY <2>2, <1>4, <1>1
    <2>3. QED
      BY <1>1, <2>1, <2>2
  <1>6. /\ e \in 0 .. Tope(glob_burst) /\ e <= techo /\ (ordenado => e = techo) /\ gasta <= e
    <2>1. /\ e \in 0 .. Tope(glob_burst) /\ e <= techo /\ (ordenado => e = techo)
      BY TechoBien
    <2>2. e >= MIL
      BY DEF HayTecho
    <2>3. QED
      BY <1>1, <2>1, <2>2
  <1>7. /\ s_rl'.cubos = [s_rl.cubos EXCEPT ![v] = r]
        /\ s_rl'.glob = e - gasta /\ s_rl'.glob_ultimo = t % ClockMod
        /\ s_rl' = [cubos |-> s_rl'.cubos, glob |-> e - gasta, glob_ultimo |-> t % ClockMod]
    BY DEF Sirve, ms_now
  <1>8. /\ ultima' = [ultima EXCEPT ![c] = t]
        /\ ideal' = [ideal EXCEPT ![c] = y - gasta]
        /\ techo' = techo - gasta /\ ordenado' = ordenado
    BY <1>1, <1>2 DEF Anota
  <1>9. t % ClockMod \in Clock
    BY <1>1, RestoBien
  <1> HIDE DEF x, y, e, v
  <1>10. r \in Cubo /\ r # Vacio /\ r.ip = c /\ r.tokens = x - gasta /\ r.usado = t % ClockMod
    <2>1. r \in Cubo
      BY <1>1, <1>4, <1>5, <1>9 DEF Cubo
    <2>2. QED
      BY <2>1, VacioAssumption
  <1> HIDE DEF r
  <1>11. /\ s_rl'.cubos \in [CuboSlots -> Cubo \cup {Vacio}]
         /\ s_rl'.cubos[v] = r
         /\ \A j \in CuboSlots : j # v => s_rl'.cubos[j] = s_rl.cubos[j]
    BY <1>2, <1>3, <1>7, <1>10
  <1>12. s_rl' \in LimiteTipo
    BY <1>1, <1>6, <1>7, <1>9, <1>11 DEF LimiteTipo
  <1>13. /\ ideal' \in [Clientes -> 0 .. Tope(ip_burst)]
         /\ techo' \in 0 .. Tope(glob_burst)
         /\ ultima' \in [Clientes -> 0 .. MaxT \cup {Nunca}]
         /\ ordenado' \in BOOLEAN
    BY <1>1, <1>2, <1>4, <1>5, <1>6, <1>8
  <1>14. /\ ultima'[c] = t /\ ideal'[c] = y - gasta
         /\ \A d \in Clientes : d # c => ultima'[d] = ultima[d] /\ ideal'[d] = ideal[d]
         /\ \A d \in Clientes : ultima[d] <= ultima'[d]
    <2>1. \A d \in Clientes : ultima[d] <= t
      <3>1. PICK u \in 0 .. t : TechoDesde(u)
        BY DEF Techo
      <3>2. \A d \in Clientes : ultima[d] <= u /\ ultima[d] \in Int
        BY <1>1, <1>2, <3>1, NetDnsAssumption DEF TechoDesde, Nunca
      <3>3. QED
        BY <1>1, <3>2
    <2>2. \A d \in Clientes : ultima[d] \in Int
      BY <1>2, NetDnsAssumption DEF Nunca
    <2>3. QED
      BY <1>1, <1>2, <1>8, <2>1, <2>2
  <1>15. /\ v \in EnUsoRl'
         /\ \A j \in CuboSlots : j # v => (j \in EnUsoRl' <=> j \in EnUsoRl)
         /\ EnUsoRl' \subseteq CuboSlots
    BY <1>3, <1>10, <1>11 DEF EnUsoRl
  <1>16. \A j \in EnUsoRl' : j # v => /\ j \in EnUsoRl /\ s_rl'.cubos[j] = s_rl.cubos[j]
                                      /\ s_rl.cubos[j].ip # c /\ s_rl.cubos[j].ip \in Clientes
    <2>1. \A j \in EnUsoRl : j # v => s_rl.cubos[j].ip # c
      BY CuboDeBien DEF v
    <2>2. \A j \in EnUsoRl : s_rl.cubos[j].ip \in Clientes
      BY PolicyAssumption DEF Cubos
    <2>3. QED
      BY <1>11, <1>15, <2>1, <2>2
  <1>17. Cubos'
    <2>1. ASSUME NEW i \in EnUsoRl'
          PROVE  /\ s_rl'.cubos[i].ip \in Locales /\ ultima'[s_rl'.cubos[i].ip] \in 0 .. t'
                 /\ s_rl'.cubos[i].usado = ultima'[s_rl'.cubos[i].ip] % ClockMod
                 /\ Relleno(s_rl'.cubos[i].tokens, ip_rate, ip_burst, t' - ultima'[s_rl'.cubos[i].ip])
                      <= ideal'[s_rl'.cubos[i].ip]
                 /\ ordenado' =>
                      /\ Relleno(s_rl'.cubos[i].tokens, ip_rate, ip_burst, t' - ultima'[s_rl'.cubos[i].ip])
                           = ideal'[s_rl'.cubos[i].ip]
                      /\ t' - ultima'[s_rl'.cubos[i].ip] < ClockMod \div 2
      <3>1. CASE i = v
        <4> DEFINE k == x - gasta
        <4>1. k \in Nat /\ k <= Tope(ip_burst)
          BY <1>1, <1>4, <1>5
        <4>2. t' - t = 0 /\ t \in 0 .. t
          BY <1>1
        <4>3. Relleno(k, ip_rate, ip_burst, 0) = k
          <5> HIDE DEF k
          <5>1. ip_rate \in Nat /\ ip_burst \in Nat /\ Tope(ip_burst) \in Nat /\ 0 \in Nat
            BY Tipos
          <5>2. QED
            BY <4>1, <5>1, RellenoBien
        <4>4. /\ k <= y - gasta /\ (ordenado => k = y - gasta)
              /\ 0 < ClockMod \div 2
          BY <1>1, <1>4, <1>5, ClockModAssumption
        <4>5. s_rl'.cubos[i].ip = c /\ s_rl'.cubos[i].tokens = k /\ s_rl'.cubos[i].usado = t % ClockMod
          BY <1>10, <1>11, <3>1
        <4> HIDE DEF k
        <4>6. QED
          BY <1>8, <1>14, <4>2, <4>3, <4>4, <4>5
      <3>2. CASE i # v
        <4>1. /\ i \in EnUsoRl /\ s_rl'.cubos[i] = s_rl.cubos[i]
              /\ ultima'[s_rl.cubos[i].ip] = ultima[s_rl.cubos[i].ip]
              /\ ideal'[s_rl.cubos[i].ip] = ideal[s_rl.cubos[i].ip]
          BY <1>14, <1>16, <3>2
        <4>2. QED
          BY <1>8, <4>1 DEF Cubos
      <3>3. QED
        BY <3>1, <3>2
    <2>2. ASSUME NEW i \in EnUsoRl', NEW j \in EnUsoRl', s_rl'.cubos[i].ip = s_rl'.cubos[j].ip
          PROVE  i = j
      <3>1. CASE i = v
        BY <1>10, <1>11, <1>16, <2>2, <3>1
      <3>2. CASE j = v
        BY <1>10, <1>11, <1>16, <2>2, <3>2
      <3>3. CASE i # v /\ j # v
        BY <1>16, <2>2, <3>3 DEF Cubos
      <3>4. QED
        BY <3>1, <3>2, <3>3
    <2>3. QED
      BY <2>1, <2>2 DEF Cubos
  <1>18. Techo'
    <2> DEFINE k == e - gasta
    <2>1. k \in Nat /\ k <= Tope(glob_burst) /\ t - t = 0 /\ t \in 0 .. t /\ k <= techo'
          /\ (ordenado' => k = techo')
      BY <1>1, <1>2, <1>6, <1>8
    <2>2. Relleno(k, glob_rate, glob_burst, 0) = k
      <3> HIDE DEF k
      <3>1. glob_rate \in Nat /\ glob_burst \in Nat /\ Tope(glob_burst) \in Nat /\ 0 \in Nat
        BY Tipos
      <3>2. QED
        BY <2>1, <3>1, RellenoBien
    <2>3. s_rl'.glob = k /\ s_rl'.glob_ultimo = t % ClockMod
      BY <1>7
    <2> HIDE DEF k
    <2>4. \A d \in Clientes : ultima'[d] <= t
      <3>1. PICK u \in 0 .. t : TechoDesde(u)
        BY DEF Techo
      <3>2. \A d \in Clientes : ultima[d] <= u /\ ultima[d] \in Int
        BY <1>1, <1>2, <3>1, NetDnsAssumption DEF TechoDesde, Nunca
      <3>3. QED
        BY <1>1, <1>14, <3>2
    <2>5. EnUsoRl' # {}
      BY <1>15
    <2>6. /\ s_rl'.glob_ultimo = t % ClockMod
          /\ Relleno(s_rl'.glob, glob_rate, glob_burst, t' - t) <= techo'
          /\ ordenado' => Relleno(s_rl'.glob, glob_rate, glob_burst, t' - t) = techo'
      BY <2>1, <2>2, <2>3
    <2>7. QED
      BY <2>1, <2>4, <2>5, <2>6 DEF Techo, TechoDesde
  <1>19. Idos'
    <2> SUFFICES ASSUME NEW d \in Locales, ordenado', ultima'[d] # Nunca, DelCliente(s_rl', d) = {}
                 PROVE  Cardinality(Detras(d)') >= RATELIMIT_TABLE
      BY DEF Idos
    <2>1. d # c /\ d \in Clientes /\ ultima'[d] = ultima[d] /\ ordenado
      <3>1. v \in DelCliente(s_rl', c)
        BY <1>3, <1>10, <1>11 DEF DelCliente
      <3>2. QED
        BY <1>8, <1>14, <3>1, PolicyAssumption
    <2>2. IsFiniteSet(Detras(d)') /\ Detras(d) \subseteq Detras(d)'
      <3>1. Detras(d)' \subseteq Clientes
        BY PolicyAssumption DEF Detras
      <3>2. \A z \in Clientes : ultima[z] \in Int /\ ultima'[z] \in Int
        BY <1>2, <1>13, NetDnsAssumption DEF Nunca
      <3>3. QED
        BY <1>14, <2>1, <3>1, <3>2, NetDnsAssumption, PolicyAssumption, FS_Subset DEF Detras
    <2>3. CASE DelCliente(s_rl, d) = {}
      <3>1. Cardinality(Detras(d)) >= RATELIMIT_TABLE
        BY <2>1, <2>3 DEF Idos
      <3>2. Cardinality(Detras(d)) <= Cardinality(Detras(d)')
        BY <2>2, FS_Subset
      <3>3. Cardinality(Detras(d)') \in Nat /\ Cardinality(Detras(d)) \in Nat /\ RATELIMIT_TABLE \in Nat
        BY <2>2, FS_Subset, FS_CardinalityType, RateLimitAssumption
      <3>4. QED
        BY <3>1, <3>2, <3>3
    <2>4. CASE DelCliente(s_rl, d) # {}
      <3>1. PICK i \in CuboSlots : i \in EnUsoRl /\ s_rl.cubos[i].ip = d
        BY <2>4 DEF DelCliente, EnUsoRl
      <3>2. i = v
        <4>1. s_rl'.cubos[i] = Vacio \/ s_rl'.cubos[i].ip # d
          BY DEF DelCliente
        <4>2. QED
          BY <1>11, <3>1, <4>1 DEF EnUsoRl
      <3>3. DelCliente(s_rl, c) = {} /\ s_rl.cubos[v] # Vacio
        <4>1. DelCliente(s_rl, c) # {} => s_rl.cubos[v].ip = c
          BY CuboDeBien DEF v
        <4>2. QED
          BY <2>1, <3>1, <3>2, <4>1 DEF EnUsoRl
      <3>4. EnUsoRl = CuboSlots /\ \A j \in CuboSlots : ultima[d] <= ultima[s_rl.cubos[j].ip]
        BY <2>1, <3>1, <3>2, <3>3, CuboDeBien DEF v
      <3> DEFINE f == [j \in CuboSlots |-> s_rl'.cubos[j].ip]
      <3>5. ASSUME NEW j \in CuboSlots
            PROVE  f[j] \in Detras(d)'
        <4>1. j \in EnUsoRl'
          BY <1>15, <3>4
        <4>2. s_rl'.cubos[j].ip \in Locales
          BY <1>17, <4>1 DEF Cubos
        <4>3. s_rl'.cubos[j].ip # d
          BY <4>1 DEF DelCliente, EnUsoRl
        <4>4. ultima'[s_rl'.cubos[j].ip] >= ultima'[d]
          <5>1. CASE j = v
            <6>1. ultima[d] \in 0 .. t
              BY <3>1 DEF Cubos
            <6>2. QED
              BY <1>1, <1>10, <1>11, <1>14, <2>1, <5>1, <6>1
          <5>2. CASE j # v
            <6>1. s_rl'.cubos[j] = s_rl.cubos[j] /\ s_rl.cubos[j].ip # c /\ s_rl.cubos[j].ip \in Clientes
              BY <1>16, <4>1, <5>2
            <6>2. QED
              BY <1>14, <2>1, <3>4, <6>1
          <5>3. QED
            BY <5>1, <5>2
        <4>5. QED
          BY <4>2, <4>3, <4>4 DEF Detras
      <3>6. \A j, l \in CuboSlots : f[j] = f[l] => j = l
        BY <1>15, <1>17, <3>4 DEF Cubos
      <3>7. RATELIMIT_TABLE \in Nat /\ CuboSlots = 0 .. RATELIMIT_TABLE - 1
        BY RateLimitAssumption DEF CuboSlots
      <3>8. f \in [CuboSlots -> Detras(d)']
        BY <3>5
      <3> DEFINE S == Detras(d)'
                 n == RATELIMIT_TABLE
      <3>9. n \in Nat /\ IsFiniteSet(S) /\ f \in [0 .. n - 1 -> S]
            /\ \A j, l \in 0 .. n - 1 : f[j] = f[l] => j = l
        BY <2>2, <3>6, <3>7, <3>8
      <3> HIDE DEF f, S, n
      <3>10. Cardinality(S) >= n
        BY <3>9, SinRepetir
      <3>11. QED
        BY <3>10 DEF S, n
    <2>5. QED
      BY <2>3, <2>4
  <1>20. QED
    BY <1>12, <1>13, <1>17, <1>18, <1>19

-----------------------------------------------------------------------------
(***************************************************************************)
(* The steps                                                               *)
(***************************************************************************)
LEMMA Inicio == Init => Invariante
  <1> SUFFICES ASSUME Init
               PROVE  Invariante
    OBVIOUS
  <1>1. /\ t = 0 /\ s_rl = ratelimit_init /\ s_clients = clients_init
        /\ met = [total |-> 0, bloqueadas |-> 0] /\ olvidadas = met
        /\ ideal = [c \in Clientes |-> Tope(ip_burst)] /\ techo = Tope(glob_burst)
        /\ ultima = [c \in Clientes |-> Nunca] /\ ordenado = TRUE
    BY DEF Init
  <1>2. 0 \in Clock /\ 0 % ClockMod = 0
    <2>1. 0 = ClockMod * 0 + 0 /\ 0 \in Clock /\ 0 \in Nat
      BY ClockModAssumption DEF Clock
    <2>2. QED
      BY <2>1, ClockModAssumption
  <1>3. EnUsoRl = {} /\ \A i \in CuboSlots : s_rl.cubos[i] = Vacio
    BY <1>1 DEF EnUsoRl, ratelimit_init
  <1>4. TypeOK
    <2>1. s_rl \in LimiteTipo
      BY <1>1, <1>2, Tipos DEF LimiteTipo, ratelimit_init
    <2>2. s_clients \in [EntSlots -> Ent \cup {Nadie}]
      BY <1>1, RegistroVacio DEF Tabla
    <2>3. /\ ideal \in [Clientes -> 0 .. Tope(ip_burst)] /\ techo \in 0 .. Tope(glob_burst)
          /\ ultima \in [Clientes -> 0 .. MaxT \cup {Nunca}] /\ ordenado \in BOOLEAN
          /\ t \in 0 .. MaxT /\ met \in Cuenta /\ olvidadas \in Cuenta
      BY <1>1, Tipos, NetDnsAssumption DEF Cuenta
    <2>4. QED
      BY <2>1, <2>2, <2>3 DEF TypeOK
  <1>5. Cubos
    BY <1>3 DEF Cubos
  <1>6. Techo
    <2>1. s_rl.glob = Tope(glob_burst) /\ s_rl.glob_ultimo = 0 /\ 0 \in 0 .. t /\ t - 0 = 0
      BY <1>1 DEF ratelimit_init
    <2>2. Relleno(Tope(glob_burst), glob_rate, glob_burst, 0) = Tope(glob_burst)
      <3> DEFINE k == Tope(glob_burst)
      <3>1. glob_rate \in Nat /\ glob_burst \in Nat /\ Tope(glob_burst) \in Nat /\ 0 \in Nat
            /\ k \in Nat /\ k <= Tope(glob_burst)
        BY Tipos
      <3> HIDE DEF k
      <3>2. Relleno(k, glob_rate, glob_burst, 0) = k
        BY <3>1, RellenoBien
      <3>3. QED
        BY <3>2 DEF k
    <2>3. \A c \in Clientes : ultima[c] <= 0
      BY <1>1 DEF Nunca
    <2>4. TechoDesde(0)
      BY <1>1, <1>2, <2>1, <2>2, <2>3, Tipos DEF TechoDesde
    <2>5. QED
      BY <2>1, <2>4 DEF Techo
  <1>7. Idos
    BY <1>1, PolicyAssumption DEF Idos
  <1>8. Cuadra
    BY <1>1, RegistroVacio DEF Cuadra
  <1>9. QED
    BY <1>4, <1>5, <1>6, <1>7, <1>8 DEF Invariante

\* What the limiter's part of the invariant reads.
limitador == <<t, s_rl, ideal, techo, ultima, ordenado>>

LEMMA LimitadorIgual ==
  ASSUME Cubos, Techo, Idos, UNCHANGED limitador
  PROVE  Cubos' /\ Techo' /\ Idos'
  <1>1. /\ t' = t /\ s_rl' = s_rl /\ ideal' = ideal /\ techo' = techo
        /\ ultima' = ultima /\ ordenado' = ordenado
    BY DEF limitador
  <1>2. EnUsoRl' = EnUsoRl
    BY <1>1 DEF EnUsoRl
  <1>3. Cubos'
    BY <1>1, <1>2 DEF Cubos
  <1>4. Techo'
    BY <1>1, <1>2 DEF Techo, TechoDesde
  <1>5. Idos'
    BY <1>1 DEF Idos, Detras
  <1>6. QED
    BY <1>3, <1>4, <1>5

LEMMA RegistroIgual ==
  ASSUME Cuadra, UNCHANGED <<s_clients, met, olvidadas>>
  PROVE  Cuadra'
  BY DEF Cuadra

\* The ceiling is never found empty while it is full.
LEMMA PasoSinPresupuesto ==
  ASSUME Invariante, NEW c \in Clientes, NEW q \in Consultas, SinPresupuesto(c, q)
  PROVE  Invariante'
  <1>1. /\ ~HayTecho(s_rl, ms_now) /\ s_rl' = RecargaGlobal(s_rl, ms_now)
        /\ t' = t /\ s_clients' = s_clients /\ met' = met /\ olvidadas' = olvidadas
        /\ ideal' = ideal /\ techo' = techo /\ ultima' = ultima /\ ordenado' = ordenado
    BY DEF SinPresupuesto, historia
  <1> DEFINE e == EnTecho(s_rl, ms_now)
  <1>2. /\ e \in 0 .. Tope(glob_burst) /\ e <= techo /\ (ordenado => e = techo)
    BY TechoBien DEF Invariante
  <1>3. /\ t \in Nat /\ t % ClockMod \in Clock /\ techo \in Nat /\ ~(e >= MIL)
        /\ s_rl.cubos \in [CuboSlots -> Cubo \cup {Vacio}] /\ s_rl \in LimiteTipo
    BY <1>1, NetDnsAssumption, RestoBien, Tipos DEF Invariante, TypeOK, LimiteTipo, HayTecho
  <1>4. /\ s_rl'.cubos = s_rl.cubos /\ s_rl'.glob = e /\ s_rl'.glob_ultimo = t % ClockMod
        /\ s_rl' \in LimiteTipo
    <2>1. s_rl' = [s_rl EXCEPT !.glob = e, !.glob_ultimo = t % ClockMod]
      BY <1>1 DEF RecargaGlobal, ms_now
    <2> HIDE DEF e
    <2>2. QED
      BY <1>2, <1>3, <2>1 DEF LimiteTipo
  <1>5. TypeOK'
    BY <1>1, <1>4 DEF Invariante, TypeOK
  <1>6. EnUsoRl' = EnUsoRl /\ \A d \in Locales : DelCliente(s_rl', d) = DelCliente(s_rl, d)
    BY <1>4 DEF EnUsoRl, DelCliente
  <1>7. Cubos'
    BY <1>1, <1>4, <1>6 DEF Cubos, Invariante
  <1>8. Idos'
    BY <1>1, <1>6 DEF Idos, Detras, Invariante
  <1>9. EnUsoRl # {}
    <2>1. SUFFICES ASSUME EnUsoRl = {}
                   PROVE  FALSE
      OBVIOUS
    <2>2. PICK u \in 0 .. t : TechoDesde(u)
      BY DEF Techo, Invariante
    <2> DEFINE k == s_rl.glob
    <2>3. k = Tope(glob_burst) /\ s_rl.glob_ultimo = u % ClockMod
      BY <2>1, <2>2 DEF TechoDesde
    <2>4. e = recarga(k, u % ClockMod, glob_rate, glob_burst, t % ClockMod)
      BY <2>3 DEF EnTecho, ms_now
    <2> HIDE DEF k, e
    <2>5. k \in Nat /\ k <= Tope(glob_burst) /\ t \in Nat /\ u \in 0 .. t
      BY <1>3, <2>3, Tipos
    <2>6. glob_rate \in Nat /\ glob_burst \in Nat /\ Tope(glob_burst) \in Nat
      BY Tipos
    <2>7. k = Tope(glob_burst) => recarga(k, u % ClockMod, glob_rate, glob_burst, t % ClockMod) = k
      BY <2>5, <2>6, RecargaBien
    <2>8. QED
      BY <1>2, <1>3, <2>3, <2>4, <2>7, Tipos
  <1>10. Techo'
    <2> HIDE DEF e
    <2>1. e \in Nat /\ e <= Tope(glob_burst) /\ t - t = 0 /\ t \in 0 .. t
      BY <1>2, <1>3, Tipos
    <2>2. Relleno(e, glob_rate, glob_burst, 0) = e
      <3>1. glob_rate \in Nat /\ glob_burst \in Nat /\ Tope(glob_burst) \in Nat /\ 0 \in Nat
        BY Tipos
      <3>2. QED
        BY <2>1, <3>1, RellenoBien
    <2>3. \A d \in Clientes : ultima'[d] <= t
      <3>1. PICK u \in 0 .. t : TechoDesde(u)
        BY DEF Techo, Invariante
      <3>2. \A d \in Clientes : ultima[d] <= u /\ ultima[d] \in Int
        BY <3>1, NetDnsAssumption DEF TechoDesde, Nunca, Invariante, TypeOK
      <3>3. QED
        BY <1>1, <1>3, <3>2
    <2>4. /\ s_rl'.glob_ultimo = t % ClockMod
          /\ Relleno(s_rl'.glob, glob_rate, glob_burst, t' - t) <= techo'
          /\ ordenado' => Relleno(s_rl'.glob, glob_rate, glob_burst, t' - t) = techo'
      BY <1>1, <1>2, <1>4, <2>1, <2>2
    <2>5. QED
      BY <1>1, <1>6, <1>9, <2>1, <2>3, <2>4 DEF Techo, TechoDesde
  <1>11. Cuadra'
    BY <1>1, RegistroIgual DEF Invariante
  <1>12. QED
    BY <1>5, <1>7, <1>8, <1>10, <1>11 DEF Invariante

LEMMA ReponeBien ==
  ASSUME NEW r \in Nat, NEW b \in Nat, Tope(b) \in Nat, NEW x \in 0 .. Tope(b), NEW y \in 0 .. Tope(b)
  PROVE  /\ Repone(x, r, b) \in 0 .. Tope(b)
         /\ x <= y => Repone(x, r, b) <= Repone(y, r, b)
  <1> DEFINE T == Tope(b)
  <1>1. T \in Nat /\ x \in 0 .. T /\ y \in 0 .. T
    OBVIOUS
  <1>2. /\ Repone(x, r, b) = IF x + r > T THEN T ELSE x + r
        /\ Repone(y, r, b) = IF y + r > T THEN T ELSE y + r
    BY DEF Repone
  <1> HIDE DEF T
  <1>3. Repone(x, r, b) \in 0 .. T /\ (x <= y => Repone(x, r, b) <= Repone(y, r, b))
    BY <1>1, <1>2
  <1>4. QED
    BY <1>3 DEF T

\* One more tick, for a bucket and for what it should have.
LEMMA UnTick ==
  ASSUME NEW k \in Nat, NEW r \in Nat, NEW b \in Nat, k <= Tope(b), Tope(b) \in Nat,
         NEW d \in Nat, NEW z \in 0 .. Tope(b), Relleno(k, r, b, d) <= z
  PROVE  Relleno(k, r, b, d + 1) <= Repone(z, r, b)
  <1> DEFINE x == Relleno(k, r, b, d)
  <1>1. x \in 0 .. Tope(b)
    BY RellenoBien
  <1>2. Relleno(k, r, b, d + 1) = Repone(x, r, b)
    BY RellenoBien
  <1>3. x <= z
    OBVIOUS
  <1> HIDE DEF x
  <1>4. Repone(x, r, b) <= Repone(z, r, b)
    BY <1>1, <1>3, ReponeBien
  <1>5. QED
    BY <1>2, <1>4

LEMMA PasoTick ==
  ASSUME Invariante, Tick
  PROVE  Invariante'
  <1>1. /\ t \in Nat /\ t < MaxT /\ t' = t + 1 /\ MaxT \in Nat
        /\ ideal' = [c \in Clientes |-> Repone(ideal[c], ip_rate, ip_burst)]
        /\ techo' = Repone(techo, glob_rate, glob_burst)
        /\ s_rl' = s_rl /\ s_clients' = s_clients /\ met' = met
        /\ ultima' = ultima /\ olvidadas' = olvidadas
    BY NetDnsAssumption DEF Tick, Invariante, TypeOK
  <1>2. /\ ordenado' \in BOOLEAN /\ ordenado \in BOOLEAN
        /\ ordenado' => ordenado /\ \A i \in EnUsoRl : (t + 1) - ultima[s_rl.cubos[i].ip] < ClockMod \div 2
    BY <1>1 DEF Tick, Invariante, TypeOK
  <1>3. /\ ideal \in [Clientes -> 0 .. Tope(ip_burst)] /\ techo \in 0 .. Tope(glob_burst)
        /\ ip_rate \in Nat /\ ip_burst \in Nat /\ Tope(ip_burst) \in Nat
        /\ glob_rate \in Nat /\ glob_burst \in Nat /\ Tope(glob_burst) \in Nat
    BY Tipos DEF Invariante, TypeOK
  <1>4. techo' \in 0 .. Tope(glob_burst)
    BY <1>1, <1>3, ReponeBien
  <1>5. ideal' \in [Clientes -> 0 .. Tope(ip_burst)]
    <2>1. ASSUME NEW c \in Clientes
          PROVE  Repone(ideal[c], ip_rate, ip_burst) \in 0 .. Tope(ip_burst)
      <3> DEFINE x == ideal[c]
      <3>1. x \in 0 .. Tope(ip_burst)
        BY <1>3
      <3> HIDE DEF x
      <3>2. Repone(x, ip_rate, ip_burst) \in 0 .. Tope(ip_burst)
        BY <1>3, <3>1, ReponeBien
      <3>3. QED
        BY <3>2 DEF x
    <2>2. QED
      BY <1>1, <2>1
  <1>6. TypeOK'
    BY <1>1, <1>2, <1>4, <1>5 DEF Invariante, TypeOK
  <1>7. EnUsoRl' = EnUsoRl
    BY <1>1 DEF EnUsoRl
  <1>8. Cubos'
    <2>1. ASSUME NEW i \in EnUsoRl
          PROVE  /\ s_rl.cubos[i].ip \in Locales /\ ultima[s_rl.cubos[i].ip] \in 0 .. t + 1
                 /\ s_rl.cubos[i].usado = ultima[s_rl.cubos[i].ip] % ClockMod
                 /\ Relleno(s_rl.cubos[i].tokens, ip_rate, ip_burst, (t + 1) - ultima[s_rl.cubos[i].ip])
                      <= ideal'[s_rl.cubos[i].ip]
                 /\ ordenado' =>
                      Relleno(s_rl.cubos[i].tokens, ip_rate, ip_burst, (t + 1) - ultima[s_rl.cubos[i].ip])
                        = ideal'[s_rl.cubos[i].ip]
      <3> DEFINE k == s_rl.cubos[i].tokens
                 c == s_rl.cubos[i].ip
                 u == ultima[c]
                 z == ideal[c]
      <3>1. /\ c \in Locales /\ u \in 0 .. t /\ s_rl.cubos[i].usado = u % ClockMod
            /\ Relleno(k, ip_rate, ip_burst, t - u) <= z
            /\ ordenado => Relleno(k, ip_rate, ip_burst, t - u) = z
        BY DEF Invariante, Cubos
      <3>2. s_rl.cubos[i] \in Cubo
        BY DEF Invariante, TypeOK, LimiteTipo, EnUsoRl
      <3>3. k \in Nat /\ k <= Tope(ip_burst) /\ c \in Clientes
        BY <1>3, <3>2 DEF Cubo
      <3>4. z \in 0 .. Tope(ip_burst) /\ ideal'[c] = Repone(z, ip_rate, ip_burst)
        BY <1>1, <1>3, <3>3
      <3> HIDE DEF k, u, z, c
      <3> DEFINE d == t - u
      <3>5. /\ k \in Nat /\ k <= Tope(ip_burst) /\ z \in 0 .. Tope(ip_burst) /\ d \in Nat
            /\ ip_rate \in Nat /\ ip_burst \in Nat /\ Tope(ip_burst) \in Nat
            /\ (t + 1) - u = d + 1 /\ Relleno(k, ip_rate, ip_burst, d) <= z
            /\ ordenado => Relleno(k, ip_rate, ip_burst, d) = z
        BY <1>1, <1>3, <3>1, <3>3, <3>4
      <3> HIDE DEF d
      <3>6. Relleno(k, ip_rate, ip_burst, d + 1) <= Repone(z, ip_rate, ip_burst)
        BY <3>5, UnTick
      <3>7. Relleno(k, ip_rate, ip_burst, d + 1) = Repone(Relleno(k, ip_rate, ip_burst, d), ip_rate, ip_burst)
        BY <3>5, RellenoBien
      <3>8. u \in 0 .. t + 1
        BY <1>1, <3>1
      <3>9. /\ c \in Locales /\ u \in 0 .. t + 1 /\ s_rl.cubos[i].usado = u % ClockMod
            /\ Relleno(k, ip_rate, ip_burst, (t + 1) - u) <= ideal'[c]
            /\ ordenado' => Relleno(k, ip_rate, ip_burst, (t + 1) - u) = ideal'[c]
        BY <1>2, <3>1, <3>4, <3>5, <3>6, <3>7, <3>8
      <3>10. QED
        BY <3>9 DEF k, u, c
    <2>2. \A i, j \in EnUsoRl : s_rl.cubos[i].ip = s_rl.cubos[j].ip => i = j
      BY DEF Invariante, Cubos
    <2>3. QED
      BY <1>1, <1>2, <1>7, <2>1, <2>2 DEF Cubos
  <1>9. Techo'
    <2>1. PICK u \in 0 .. t : TechoDesde(u)
      BY DEF Techo, Invariante
    <2> DEFINE k == s_rl.glob
               z == techo
    <2>2. /\ k \in Nat /\ k <= Tope(glob_burst) /\ z \in 0 .. Tope(glob_burst)
          /\ Relleno(k, glob_rate, glob_burst, t - u) <= z
          /\ ordenado => Relleno(k, glob_rate, glob_burst, t - u) = z
      BY <1>3, <2>1 DEF Invariante, TypeOK, LimiteTipo, TechoDesde
    <2>3. techo' = Repone(z, glob_rate, glob_burst)
      BY <1>1
    <2> HIDE DEF k, z
    <2> DEFINE d == t - u
    <2>4. /\ k \in Nat /\ k <= Tope(glob_burst) /\ z \in 0 .. Tope(glob_burst) /\ d \in Nat
          /\ glob_rate \in Nat /\ glob_burst \in Nat /\ Tope(glob_burst) \in Nat
          /\ (t + 1) - u = d + 1 /\ Relleno(k, glob_rate, glob_burst, d) <= z
          /\ ordenado => Relleno(k, glob_rate, glob_burst, d) = z
      BY <1>1, <1>3, <2>2
    <2> HIDE DEF d
    <2>5. Relleno(k, glob_rate, glob_burst, d + 1) <= Repone(z, glob_rate, glob_burst)
      BY <2>4, UnTick
    <2>6. Relleno(k, glob_rate, glob_burst, d + 1) = Repone(Relleno(k, glob_rate, glob_burst, d), glob_rate, glob_burst)
      BY <2>4, RellenoBien
    <2>7. /\ Relleno(k, glob_rate, glob_burst, (t + 1) - u) <= techo'
          /\ ordenado' => Relleno(k, glob_rate, glob_burst, (t + 1) - u) = techo'
      BY <1>2, <2>2, <2>3, <2>4, <2>5, <2>6
    <2>8. u \in 0 .. t'
      BY <1>1
    <2>9. QED
      BY <1>1, <1>7, <2>1, <2>7, <2>8 DEF Techo, TechoDesde, k
  <1>10. Idos'
    BY <1>1, <1>2 DEF Idos, Detras, Invariante
  <1>11. Cuadra'
    BY <1>1, RegistroIgual DEF Invariante
  <1>12. QED
    BY <1>6, <1>8, <1>9, <1>10, <1>11 DEF Invariante

LEMMA PasoReset ==
  ASSUME Invariante, net_dns_clients_reset
  PROVE  Invariante'
  <1>1. /\ s_clients' = clients_init /\ olvidadas' = met /\ met' = met /\ UNCHANGED limitador
    BY DEF net_dns_clients_reset, historia, limitador
  <1>2. TypeOK'
    BY <1>1, RegistroVacio DEF Invariante, TypeOK, limitador, Tabla
  <1>3. Cubos' /\ Techo' /\ Idos'
    BY <1>1, LimitadorIgual DEF Invariante
  <1>4. Cuadra'
    <2>1. met.total \in Nat /\ met.bloqueadas \in Nat
      BY DEF Invariante, TypeOK, Cuenta
    <2>2. QED
      BY <1>1, <2>1, RegistroVacio DEF Cuadra
  <1>5. QED
    BY <1>2, <1>3, <1>4 DEF Invariante

LEMMA PasoAgotado ==
  ASSUME Invariante, NEW c \in Clientes, NEW q \in Consultas, Agotado(c, q)
  PROVE  Invariante'
  <1>1. /\ c \in Locales /\ HayTecho(s_rl, ms_now) /\ s_rl' = Sirve(s_rl, c, ms_now, 0)
        /\ Anota(c, 0) /\ t' = t /\ UNCHANGED <<s_clients, met, olvidadas>>
    BY DEF Agotado, Llegan, policy_is_local
  <1>2. /\ s_rl' \in LimiteTipo
        /\ ideal' \in [Clientes -> 0 .. Tope(ip_burst)]
        /\ techo' \in 0 .. Tope(glob_burst)
        /\ ultima' \in [Clientes -> 0 .. MaxT \cup {Nunca}]
        /\ ordenado' \in BOOLEAN
        /\ Cubos' /\ Techo' /\ Idos'
    <2> DEFINE z == 0
    <2>1. /\ z \in {0, MIL} /\ (z = MIL => HayTokens(s_rl, c, ms_now))
          /\ s_rl' = Sirve(s_rl, c, ms_now, z) /\ Anota(c, z)
      BY <1>1, Tipos
    <2> HIDE DEF z
    <2>2. QED
      BY <1>1, <2>1, SirvePasa DEF Invariante
  <1>3. TypeOK'
    BY <1>1, <1>2 DEF Invariante, TypeOK
  <1>4. Cuadra'
    BY <1>1, RegistroIgual DEF Invariante
  <1>5. QED
    BY <1>2, <1>3, <1>4 DEF Invariante

LEMMA PasoAtiende ==
  ASSUME Invariante, NEW c \in Clientes, NEW q \in Consultas, Atiende(c, q)
  PROVE  Invariante'
  <1>1. /\ c \in Locales /\ HayTecho(s_rl, ms_now) /\ HayTokens(s_rl, c, ms_now)
        /\ s_rl' = Sirve(s_rl, c, ms_now, MIL) /\ Anota(c, MIL) /\ t' = t
        /\ met' = Suma2(met, 1, PorBloqueo(q))
        /\ s_clients' = clients_record(s_clients, c, PorBloqueo(q), s_now)
        /\ olvidadas' = Suma2(olvidadas, Desalojo(c).total, Desalojo(c).bloqueadas)
    BY DEF Atiende, Llegan, policy_is_local
  <1>2. /\ s_rl' \in LimiteTipo
        /\ ideal' \in [Clientes -> 0 .. Tope(ip_burst)]
        /\ techo' \in 0 .. Tope(glob_burst)
        /\ ultima' \in [Clientes -> 0 .. MaxT \cup {Nunca}]
        /\ ordenado' \in BOOLEAN
        /\ Cubos' /\ Techo' /\ Idos'
    BY <1>1, SirvePasa DEF Invariante
  <1>3. /\ s_clients' \in [EntSlots -> Ent \cup {Nadie}]
        /\ met' \in Cuenta /\ olvidadas' \in Cuenta
        /\ Cuadra'
    <2>1. PorBloqueo(q) \in {0, 1}
      BY DEF PorBloqueo
    <2>2. s_now \in Nat
      BY NetDnsAssumption DEF s_now, Invariante, TypeOK
    <2>3. QED
      BY <1>1, <2>1, <2>2, RegistraPasa DEF Invariante
  <1>4. TypeOK'
    BY <1>1, <1>2, <1>3 DEF Invariante, TypeOK
  <1>5. QED
    BY <1>2, <1>3, <1>4 DEF Invariante

LEMMA SinCambios ==
  ASSUME Invariante, UNCHANGED vars
  PROVE  Invariante'
  <1>1. UNCHANGED limitador /\ UNCHANGED <<s_clients, met, olvidadas>>
    BY DEF vars, limitador
  <1>2. TypeOK'
    BY DEF Invariante, TypeOK, vars
  <1>3. Cubos' /\ Techo' /\ Idos'
    BY <1>1, LimitadorIgual DEF Invariante
  <1>4. Cuadra'
    BY <1>1, RegistroIgual DEF Invariante
  <1>5. QED
    BY <1>2, <1>3, <1>4 DEF Invariante

LEMMA Inductivo == Invariante /\ [Next]_vars => Invariante'
  <1> SUFFICES ASSUME Invariante, [Next]_vars
               PROVE  Invariante'
    OBVIOUS
  <1>1. ASSUME NEW c \in Clientes, NEW q \in Consultas, Descartada(c, q)
        PROVE  Invariante'
    BY <1>1, SinCambios DEF Descartada
  <1>2. CASE UNCHANGED vars
    BY <1>2, SinCambios
  <1>3. QED
    BY <1>1, <1>2, PasoSinPresupuesto, PasoAgotado, PasoAtiende, PasoReset, PasoTick, Zenon DEF Next

LEMMA Siempre == Spec => []Invariante
  <1>1. QED
    BY Inicio, Inductivo, PTL DEF Spec

-----------------------------------------------------------------------------
(***************************************************************************)
(* The theorems                                                            *)
(***************************************************************************)

\* A bucket holds what one refilled at every tick would, never more; and as much,
\* while no bucket has been idle for half a turn of the clock (recarga).
THEOREM RecargaExacta == Spec => []Exacto
  <1>1. Invariante => Exacto
    <2> SUFFICES ASSUME Invariante
                 PROVE  Exacto
      OBVIOUS
    <2>1. \A i \in EnUsoRl : /\ EnCubo(s_rl.cubos[i], ms_now) <= ideal[s_rl.cubos[i].ip]
                             /\ ordenado => EnCubo(s_rl.cubos[i], ms_now) = ideal[s_rl.cubos[i].ip]
      BY CuboBien DEF Invariante
    <2>2. EnTecho(s_rl, ms_now) <= techo /\ (ordenado => EnTecho(s_rl, ms_now) = techo)
      BY TechoBien DEF Invariante
    <2>3. QED
      BY <2>1, <2>2 DEF Invariante, Exacto
  <1>2. QED
    BY <1>1, Siempre, PTL

\* A client loses its bucket, and with it the memory of what it has spent, only to
\* as many others as the table holds, and is never in two (ratelimit_check).
THEOREM CuboConservado == Spec => []Conserva
  <1>1. Invariante => Conserva
    <2> SUFFICES ASSUME Invariante
                 PROVE  Conserva
      OBVIOUS
    <2>1. ASSUME NEW c \in Locales, ordenado, ultima[c] # Nunca,
                 Cardinality({d \in Locales \ {c} : ultima[d] >= ultima[c]}) < RATELIMIT_TABLE
          PROVE  DelCliente(s_rl, c) # {}
      <3>1. Detras(c) \subseteq Clientes /\ IsFiniteSet(Clientes)
        BY PolicyAssumption, NetDnsAssumption DEF Detras
      <3>2. Cardinality(Detras(c)) \in Nat /\ RATELIMIT_TABLE \in Nat
        BY <3>1, FS_Subset, FS_CardinalityType, RateLimitAssumption
      <3>3. Cardinality(Detras(c)) < RATELIMIT_TABLE
        BY <2>1 DEF Detras
      <3>4. QED
        BY <2>1, <3>2, <3>3 DEF Invariante, Idos
    <2>2. ASSUME NEW c \in Locales
          PROVE  Cardinality(DelCliente(s_rl, c)) <= 1
      <3>1. CASE DelCliente(s_rl, c) = {}
        BY <3>1, FS_EmptySet
      <3>2. CASE DelCliente(s_rl, c) # {}
        <4>1. PICK i \in CuboSlots : DelCliente(s_rl, c) = {i}
          BY <3>2 DEF Invariante, Cubos, DelCliente, EnUsoRl
        <4>2. Cardinality(DelCliente(s_rl, c)) = 1
          BY <4>1, FS_Singleton, Zenon
        <4>3. QED
          BY <4>2
      <3>3. QED
        BY <3>1, <3>2
    <2>3. QED
      BY <2>1, <2>2 DEF Conserva
  <1>2. QED
    BY <1>1, Siempre, PTL

\* Every query that is answered is counted once, for its own client, in the entry
\* it has or in one already dropped (clients_record, clients_reset_en_tcpip).
THEOREM RegistroCuadra == Spec => []Cuadra
  <1>1. Invariante => Cuadra
    BY DEF Invariante
  <1>2. QED
    BY <1>1, Siempre, PTL

-----------------------------------------------------------------------------
(***************************************************************************)
(* The cache.  Its four lists are sequences of slots without repetition,   *)
(* which each step changes by one slot; what is kept in the list of use is *)
(* the abstract map of Lru.                                                *)
(***************************************************************************)
LEMMA MinEs ==
  ASSUME NEW S \in SUBSET Int, NEW x \in S, \A y \in S : x <= y
  PROVE  Min(S) = x
  <1> DEFINE Es(z) == z \in S /\ \A y \in S : z <= y
             c == CHOOSE z \in S : \A y \in S : z <= y
  <1>1. c \in S /\ \A y \in S : c <= y
    BY Zenon
  <1>2. Min(S) = c
    BY Zenon DEF Min
  <1> HIDE DEF c
  <1>3. c <= x /\ x <= c /\ c \in Int /\ x \in Int
    BY <1>1
  <1>4. QED
    BY <1>2, <1>3

-----------------------------------------------------------------------------
(***************************************************************************)
(* Lists of slots                                                          *)
(***************************************************************************)

\* The links sig from i on go over the slots of s, each of them once.
EsLista(sig, i, s) ==
  /\ s \in Seq(Slots)
  /\ i = IF Len(s) = 0 THEN SLOT_NONE ELSE s[1]
  /\ \A n \in 1 .. Len(s) : sig[s[n]] = IF n = Len(s) THEN SLOT_NONE ELSE s[n + 1]
  /\ \A m, n \in 1 .. Len(s) : s[m] = s[n] => m = n

LEMMA Numeros ==
  /\ CAPACITY \in Nat \ {0} /\ Slots = 0 .. CAPACITY - 1 /\ SLOT_NONE \notin Slots
  /\ SLOT_NONE \in Enlace /\ Slots \subseteq Enlace
  BY CacheAssumption DEF Slots, SLOT_NONE, Enlace

\* No list is longer than the cache.
LEMMA ListaCorta ==
  ASSUME NEW s \in Seq(Slots), \A m, n \in 1 .. Len(s) : s[m] = s[n] => m = n
  PROVE  Len(s) \in Nat /\ Len(s) <= CAPACITY
  <1> DEFINE f == [k \in 0 .. Len(s) - 1 |-> s[k + 1]]
  <1>1. Len(s) \in Nat /\ DOMAIN s = 1 .. Len(s)
    OBVIOUS
  <1>2. f \in [0 .. Len(s) - 1 -> Slots]
    BY <1>1
  <1>3. \A i, j \in 0 .. Len(s) - 1 : f[i] = f[j] => i = j
    BY <1>1
  <1>4. IsFiniteSet(Slots) /\ Cardinality(Slots) = CAPACITY
    <2>1. 0 \in Int /\ CAPACITY - 1 \in Int
      BY Numeros
    <2>2. IsFiniteSet(0 .. CAPACITY - 1)
          /\ Cardinality(0 .. CAPACITY - 1) = IF 0 > CAPACITY - 1 THEN 0 ELSE CAPACITY - 1 - 0 + 1
      BY <2>1, FS_Interval
    <2>3. QED
      BY <2>2, Numeros
  <1> HIDE DEF f
  <1>5. Cardinality(Slots) >= Len(s)
    BY ONLY <1>1, <1>2, <1>3, <1>4, SinRepetir, Zenon
  <1>6. QED
    BY <1>1, <1>4, <1>5, Numeros

\* The list found by following the links is the one they make.
LEMMA ListaBien ==
  ASSUME NEW sig, NEW i, NEW s, EsLista(sig, i, s)
  PROVE  Lista(sig, i) = s
  <1>1. /\ s \in Seq(Slots) /\ Len(s) \in 0 .. CAPACITY /\ DOMAIN s = 1 .. Len(s)
        /\ \A n \in 1 .. Len(s) : s[n] \in Slots /\ s[n] # SLOT_NONE
    <2>1. s \in Seq(Slots) /\ \A m, n \in 1 .. Len(s) : s[m] = s[n] => m = n
      BY DEF EsLista
    <2>2. Len(s) \in Nat /\ Len(s) <= CAPACITY
      BY ONLY <2>1, ListaCorta, Zenon
    <2>3. QED
      BY <2>1, <2>2, Numeros
  <1>2. /\ i = IF Len(s) = 0 THEN SLOT_NONE ELSE s[1]
        /\ \A n \in 1 .. Len(s) : sig[s[n]] = IF n = Len(s) THEN SLOT_NONE ELSE s[n + 1]
    BY Zenon DEF EsLista
  <1> DEFINE paso == [j \in Enlace |-> IF j = SLOT_NONE THEN SLOT_NONE ELSE sig[j]]
             donde(f, k) == IF k = 0 THEN i ELSE paso[f[k - 1]]
             Es(f) == f = [k \in 0 .. CAPACITY |-> donde(f, k)]
             g == [k \in 0 .. CAPACITY |-> IF k < Len(s) THEN s[k + 1] ELSE SLOT_NONE]
  <1>21. paso[SLOT_NONE] = SLOT_NONE /\ \A n \in 1 .. Len(s) : paso[s[n]] = sig[s[n]]
    <2>1. SLOT_NONE \in Enlace /\ \A n \in 1 .. Len(s) : s[n] \in Enlace /\ s[n] # SLOT_NONE
      BY <1>1, Numeros
    <2>2. QED
      BY <2>1, Zenon
  <1> HIDE DEF paso
  <1>3. \A k \in 0 .. CAPACITY : g[k] = donde(g, k)
    <2>1. ASSUME NEW k \in 0 .. CAPACITY, k # 0
          PROVE  g[k] = donde(g, k)
      <3>1. k \in Int /\ k - 1 \in 0 .. CAPACITY /\ Len(s) \in Int
        BY <1>1, <2>1, Numeros
      <3>2. CASE k < Len(s)
        <4>1. k \in 1 .. Len(s) /\ k - 1 < Len(s) /\ (k - 1) + 1 = k /\ k # Len(s)
          BY <3>1, <3>2, <2>1
        <4>2. g[k - 1] = s[k] /\ g[k] = s[k + 1]
          BY <3>1, <3>2, <4>1
        <4>3. QED
          BY <1>1, <1>2, <1>21, <4>1, <4>2, <2>1
      <3>3. CASE k = Len(s)
        <4>1. k \in 1 .. Len(s) /\ k - 1 < Len(s) /\ (k - 1) + 1 = k
          BY <3>1, <3>3, <2>1
        <4>2. g[k - 1] = s[k] /\ g[k] = SLOT_NONE
          BY <3>1, <3>3, <4>1
        <4>3. QED
          BY <1>1, <1>2, <1>21, <4>1, <4>2, <2>1, <3>3
      <3>4. CASE k > Len(s)
        <4>1. ~(k - 1 < Len(s)) /\ ~(k < Len(s))
          BY <3>1, <3>4
        <4>2. g[k - 1] = SLOT_NONE /\ g[k] = SLOT_NONE
          BY <3>1, <4>1
        <4>3. QED
          BY <1>21, <4>2, <2>1
      <3>5. QED
        BY <3>1, <3>2, <3>3, <3>4
    <2>2. 0 \in 0 .. CAPACITY /\ g[0] = donde(g, 0)
      <3>1. 0 \in 0 .. CAPACITY /\ (0 < Len(s) <=> Len(s) # 0) /\ 0 + 1 = 1
        BY <1>1, Numeros
      <3>2. g[0] = IF 0 < Len(s) THEN s[0 + 1] ELSE SLOT_NONE
        BY <3>1, Zenon
      <3> HIDE DEF g
      <3>3. QED
        BY <1>2, <3>1, <3>2, Zenon
    <2> HIDE DEF g, donde
    <2>3. QED
      BY <2>1, <2>2, Zenon
  <1>4. Es(g)
    <2>1. g = [k \in 0 .. CAPACITY |-> g[k]]
      OBVIOUS
    <2> HIDE DEF g, donde
    <2>2. QED
      BY <2>1, <1>3, Zenon
  <1> DEFINE h == CHOOSE f : Es(f)
  <1>5. Es(h)
    <2> HIDE DEF Es
    <2>1. QED
      BY <1>4, Zenon
  <1>6. Lista(sig, i) = LET n == Cardinality({k \in 0 .. CAPACITY - 1 : h[k] # SLOT_NONE})
                        IN  [k \in 1 .. n |-> h[k - 1]]
    BY Zenon DEF Lista, paso
  <1>7. h = g
    <2>1. /\ DOMAIN h = 0 .. CAPACITY
          /\ \A k \in 0 .. CAPACITY : h[k] = donde(h, k)
      <3> HIDE DEF h, donde
      <3>1. QED
        BY <1>5, Zenon
    <2> DEFINE S == {k \in 0 .. CAPACITY : h[k] = g[k]}
    <2>2. 0 \in S
      <3> HIDE DEF h, g
      <3>1. QED
        BY <2>1, <1>3, Numeros
    <2>3. ASSUME NEW m \in 0 .. CAPACITY - 1, m \in S
          PROVE  m + 1 \in S
      <3>1. m + 1 \in 0 .. CAPACITY /\ m + 1 # 0 /\ (m + 1) - 1 = m
        BY Numeros
      <3>2. h[m] = g[m] /\ h[m + 1] = donde(h, m + 1) /\ g[m + 1] = donde(g, m + 1)
        <4> HIDE DEF h, g, donde
        <4>1. QED
          BY <2>1, <2>3, <1>3, <3>1
      <3> HIDE DEF h, g
      <3>3. QED
        BY <3>1, <3>2, Zenon
    <2>4. 0 .. CAPACITY \subseteq S
      <3> HIDE DEF S
      <3>1. CAPACITY \in Nat
        BY Numeros
      <3>2. QED
        BY <2>2, <2>3, <3>1, Induccion
    <2>5. DOMAIN g = 0 .. CAPACITY /\ g = [k \in 0 .. CAPACITY |-> g[k]]
      OBVIOUS
    <2>6. h = [k \in 0 .. CAPACITY |-> h[k]]
      <3> HIDE DEF h, donde
      <3>1. QED
        BY <1>5, <2>1, Zenon
    <2>7. \A k \in 0 .. CAPACITY : h[k] = g[k]
      BY <2>4
    <2> HIDE DEF h, g
    <2>8. QED
      BY <2>5, <2>6, <2>7, Zenon
  <1> HIDE DEF h
  <1> DEFINE llenos == {k \in 0 .. CAPACITY - 1 : g[k] # SLOT_NONE}
  <1>8. Cardinality(llenos) = Len(s)
    <2>1. llenos = 0 .. Len(s) - 1
      <3>1. ASSUME NEW k \in 0 .. CAPACITY - 1
            PROVE  k \in llenos <=> k \in 0 .. Len(s) - 1
        BY <1>1, Numeros
      <3>2. 0 .. Len(s) - 1 \subseteq 0 .. CAPACITY - 1
        BY <1>1, Numeros
      <3>3. QED
        BY <3>1, <3>2
    <2>2. 0 \in Int /\ Len(s) - 1 \in Int /\ Len(s) \in Nat
      BY <1>1
    <2>3. Cardinality(0 .. Len(s) - 1) = IF 0 > Len(s) - 1 THEN 0 ELSE Len(s) - 1 - 0 + 1
      BY <2>2, FS_Interval
    <2> HIDE DEF llenos
    <2>4. QED
      BY <2>1, <2>2, <2>3
  <1>9. \A k \in 1 .. Len(s) : g[k - 1] = s[k]
    BY <1>1, Numeros
  <1>10. Lista(sig, i) = [k \in 1 .. Len(s) |-> g[k - 1]]
    <2> HIDE DEF g
    <2>1. QED
      BY <1>6, <1>7, <1>8, Zenon
  <1>11. s = [k \in 1 .. Len(s) |-> s[k]]
    BY <1>1
  <1>12. QED
    <2> HIDE DEF g
    <2>1. QED
      BY <1>9, <1>10, <1>11, Zenon

\* What becomes of a list when its p-th slot leaves, or slot x comes in at either
\* end; and the list from its other end.
Saca(s, p) == [n \in 1 .. Len(s) - 1 |-> IF n < p THEN s[n] ELSE s[n + 1]]
Pon(x, s) == [n \in 1 .. Len(s) + 1 |-> IF n = 1 THEN x ELSE s[n - 1]]
Tras(s, x) == [n \in 1 .. Len(s) + 1 |-> IF n = Len(s) + 1 THEN x ELSE s[n]]
Reves(s) == [n \in 1 .. Len(s) |-> s[Len(s) + 1 - n]]

LEMMA SacaTipo ==
  ASSUME NEW S, NEW s \in Seq(S), NEW p \in 1 .. Len(s)
  PROVE  /\ Saca(s, p) \in Seq(S)
         /\ Len(Saca(s, p)) = Len(s) - 1
         /\ \A n \in 1 .. Len(s) - 1 : Saca(s, p)[n] = IF n < p THEN s[n] ELSE s[n + 1]
  <1>1. Len(s) \in Nat /\ Len(s) - 1 \in Nat /\ \A n \in 1 .. Len(s) : s[n] \in S
    OBVIOUS
  <1>2. \A n \in 1 .. Len(s) - 1 : (IF n < p THEN s[n] ELSE s[n + 1]) \in S
    BY <1>1
  <1>3. QED
    BY <1>1, <1>2 DEF Saca

LEMMA PonTipo ==
  ASSUME NEW S, NEW s \in Seq(S), NEW x \in S
  PROVE  /\ Pon(x, s) \in Seq(S)
         /\ Len(Pon(x, s)) = Len(s) + 1
         /\ \A n \in 1 .. Len(s) + 1 : Pon(x, s)[n] = IF n = 1 THEN x ELSE s[n - 1]
  <1>1. Len(s) \in Nat /\ Len(s) + 1 \in Nat /\ \A n \in 1 .. Len(s) : s[n] \in S
    OBVIOUS
  <1>2. \A n \in 1 .. Len(s) + 1 : (IF n = 1 THEN x ELSE s[n - 1]) \in S
    BY <1>1
  <1>3. QED
    BY <1>1, <1>2 DEF Pon

LEMMA TrasTipo ==
  ASSUME NEW S, NEW s \in Seq(S), NEW x \in S
  PROVE  /\ Tras(s, x) \in Seq(S)
         /\ Len(Tras(s, x)) = Len(s) + 1
         /\ \A n \in 1 .. Len(s) + 1 : Tras(s, x)[n] = IF n = Len(s) + 1 THEN x ELSE s[n]
  <1>1. Len(s) \in Nat /\ Len(s) + 1 \in Nat /\ \A n \in 1 .. Len(s) : s[n] \in S
    OBVIOUS
  <1>2. \A n \in 1 .. Len(s) + 1 : (IF n = Len(s) + 1 THEN x ELSE s[n]) \in S
    BY <1>1
  <1>3. QED
    BY <1>1, <1>2 DEF Tras

LEMMA RevesTipo ==
  ASSUME NEW S, NEW s \in Seq(S)
  PROVE  /\ Reves(s) \in Seq(S)
         /\ Len(Reves(s)) = Len(s)
         /\ \A n \in 1 .. Len(s) : Reves(s)[n] = s[Len(s) + 1 - n]
  <1>1. Len(s) \in Nat /\ \A n \in 1 .. Len(s) : s[n] \in S
    OBVIOUS
  <1>2. \A n \in 1 .. Len(s) : s[Len(s) + 1 - n] \in S
    BY <1>1
  <1>3. QED
    BY <1>1, <1>2 DEF Reves

\* Two sequences with the same length and elements.
LEMMA MismaLista ==
  ASSUME NEW S, NEW s \in Seq(S), NEW r \in Seq(S), Len(s) = Len(r),
         \A n \in 1 .. Len(s) : s[n] = r[n]
  PROVE  s = r
  <1>1. s = [n \in 1 .. Len(s) |-> s[n]] /\ r = [n \in 1 .. Len(r) |-> r[n]]
    OBVIOUS
  <1>2. QED
    BY <1>1

LEMMA RevesSaca ==
  ASSUME NEW S, NEW s \in Seq(S), NEW p \in 1 .. Len(s)
  PROVE  Reves(Saca(s, p)) = Saca(Reves(s), Len(s) + 1 - p)
  <1> DEFINE a == Reves(Saca(s, p))
             b == Saca(Reves(s), Len(s) + 1 - p)
  <1>1. Len(s) \in Nat /\ p \in Int /\ Len(s) + 1 - p \in 1 .. Len(s)
    OBVIOUS
  <1>2. /\ Saca(s, p) \in Seq(S) /\ Len(Saca(s, p)) = Len(s) - 1
        /\ \A n \in 1 .. Len(s) - 1 : Saca(s, p)[n] = IF n < p THEN s[n] ELSE s[n + 1]
    BY SacaTipo, Zenon
  <1>3. /\ Reves(s) \in Seq(S) /\ Len(Reves(s)) = Len(s)
        /\ \A n \in 1 .. Len(s) : Reves(s)[n] = s[Len(s) + 1 - n]
    BY RevesTipo, Zenon
  <1>4. /\ a \in Seq(S) /\ Len(a) = Len(s) - 1
        /\ \A n \in 1 .. Len(s) - 1 : a[n] = Saca(s, p)[(Len(s) - 1) + 1 - n]
    <2> DEFINE r == Saca(s, p)
    <2>1. r \in Seq(S) /\ Len(r) = Len(s) - 1
      BY <1>2
    <2> HIDE DEF r
    <2>2. /\ Reves(r) \in Seq(S) /\ Len(Reves(r)) = Len(r)
          /\ \A n \in 1 .. Len(r) : Reves(r)[n] = r[Len(r) + 1 - n]
      BY ONLY <2>1, RevesTipo, Zenon
    <2>3. a = Reves(r) /\ r = Saca(s, p)
      BY DEF r
    <2>4. QED
      BY ONLY <2>1, <2>2, <2>3, Zenon
  <1>5. /\ b \in Seq(S) /\ Len(b) = Len(s) - 1
        /\ \A n \in 1 .. Len(s) - 1 :
             b[n] = IF n < Len(s) + 1 - p THEN Reves(s)[n] ELSE Reves(s)[n + 1]
    <2> DEFINE r == Reves(s)
               q == Len(s) + 1 - p
    <2>1. r \in Seq(S) /\ Len(r) = Len(s) /\ q \in 1 .. Len(r)
      BY <1>1, <1>3, Zenon
    <2> HIDE DEF r, q
    <2>2. /\ Saca(r, q) \in Seq(S) /\ Len(Saca(r, q)) = Len(r) - 1
          /\ \A n \in 1 .. Len(r) - 1 : Saca(r, q)[n] = IF n < q THEN r[n] ELSE r[n + 1]
      BY ONLY <2>1, SacaTipo, Zenon
    <2>3. b = Saca(r, q) /\ r = Reves(s) /\ q = Len(s) + 1 - p
      BY DEF r, q
    <2>4. QED
      BY ONLY <2>1, <2>2, <2>3, Zenon
  <1> HIDE DEF a, b
  <1>6. ASSUME NEW n \in 1 .. Len(s) - 1
        PROVE  a[n] = b[n]
    <2>1. n \in Int /\ (Len(s) - 1) + 1 - n \in 1 .. Len(s) - 1 /\ n \in 1 .. Len(s) /\ n + 1 \in 1 .. Len(s)
      BY <1>1
    <2>2. /\ (Len(s) - 1) + 1 - n = Len(s) - n
          /\ (Len(s) - n) + 1 = Len(s) + 1 - n
          /\ Len(s) + 1 - (n + 1) = Len(s) - n
          /\ Len(s) - n < p <=> ~(n < Len(s) + 1 - p)
      BY <1>1, <2>1
    <2>3. a[n] = IF Len(s) - n < p THEN s[Len(s) - n] ELSE s[Len(s) + 1 - n]
      BY <1>2, <1>4, <2>1, <2>2, Zenon
    <2>4. b[n] = IF n < Len(s) + 1 - p THEN s[Len(s) + 1 - n] ELSE s[Len(s) - n]
      BY <1>3, <1>5, <2>1, <2>2, Zenon
    <2>5. CASE Len(s) - n < p
      BY <2>2, <2>3, <2>4, <2>5, Zenon
    <2>6. CASE ~(Len(s) - n < p)
      BY <2>2, <2>3, <2>4, <2>6, Zenon
    <2>7. QED
      BY <2>5, <2>6, Zenon
  <1>7. a = b
    BY <1>4, <1>5, <1>6, MismaLista, Zenon
  <1>8. QED
    BY <1>7 DEF a, b

LEMMA RevesPon ==
  ASSUME NEW S, NEW s \in Seq(S), NEW x \in S
  PROVE  Reves(Pon(x, s)) = Tras(Reves(s), x)
  <1> DEFINE a == Reves(Pon(x, s))
             b == Tras(Reves(s), x)
  <1>1. Len(s) \in Nat
    OBVIOUS
  <1>2. /\ Pon(x, s) \in Seq(S) /\ Len(Pon(x, s)) = Len(s) + 1
        /\ \A n \in 1 .. Len(s) + 1 : Pon(x, s)[n] = IF n = 1 THEN x ELSE s[n - 1]
    BY PonTipo, ZenonT(60)
  <1>3. /\ Reves(s) \in Seq(S) /\ Len(Reves(s)) = Len(s)
        /\ \A n \in 1 .. Len(s) : Reves(s)[n] = s[Len(s) + 1 - n]
    BY RevesTipo, Zenon
  <1>4. /\ a \in Seq(S) /\ Len(a) = Len(s) + 1
        /\ \A n \in 1 .. Len(s) + 1 : a[n] = Pon(x, s)[(Len(s) + 1) + 1 - n]
    <2> DEFINE r == Pon(x, s)
    <2>1. r \in Seq(S) /\ Len(r) = Len(s) + 1
      BY <1>2
    <2> HIDE DEF r
    <2>2. /\ Reves(r) \in Seq(S) /\ Len(Reves(r)) = Len(r)
          /\ \A n \in 1 .. Len(r) : Reves(r)[n] = r[Len(r) + 1 - n]
      BY ONLY <2>1, RevesTipo, Zenon
    <2>3. a = Reves(r) /\ r = Pon(x, s)
      BY DEF r
    <2>4. QED
      BY ONLY <2>1, <2>2, <2>3, Zenon
  <1>5. /\ b \in Seq(S) /\ Len(b) = Len(s) + 1
        /\ \A n \in 1 .. Len(s) + 1 : b[n] = IF n = Len(s) + 1 THEN x ELSE Reves(s)[n]
    <2> DEFINE r == Reves(s)
    <2>1. r \in Seq(S) /\ Len(r) = Len(s)
      BY <1>3, Zenon
    <2> HIDE DEF r
    <2>2. /\ Tras(r, x) \in Seq(S) /\ Len(Tras(r, x)) = Len(r) + 1
          /\ \A n \in 1 .. Len(r) + 1 : Tras(r, x)[n] = IF n = Len(r) + 1 THEN x ELSE r[n]
      BY ONLY <2>1, x \in S, TrasTipo, ZenonT(60)
    <2>3. b = Tras(r, x) /\ r = Reves(s)
      BY DEF r
    <2>4. QED
      BY ONLY <2>1, <2>2, <2>3, Zenon
  <1> HIDE DEF a, b
  <1>6. ASSUME NEW n \in 1 .. Len(s) + 1
        PROVE  a[n] = b[n]
    <2>1. /\ n \in Int /\ (Len(s) + 1) + 1 - n \in 1 .. Len(s) + 1
          /\ n # Len(s) + 1 => n \in 1 .. Len(s)
          /\ (Len(s) + 1) + 1 - n = 1 <=> n = Len(s) + 1
          /\ ((Len(s) + 1) + 1 - n) - 1 = Len(s) + 1 - n
      BY <1>1
    <2>2. a[n] = IF n = Len(s) + 1 THEN x ELSE s[Len(s) + 1 - n]
      BY <1>2, <1>4, <2>1, Zenon
    <2>3. QED
      BY <1>3, <1>5, <2>1, <2>2, Zenon
  <1>7. a = b
    BY <1>4, <1>5, <1>6, MismaLista, Zenon
  <1>8. QED
    BY <1>7 DEF a, b

LEMMA ListaDatos ==
  ASSUME NEW sig, NEW i, NEW s, EsLista(sig, i, s)
  PROVE  /\ s \in Seq(Slots)
         /\ Len(s) \in 0 .. CAPACITY
         /\ DOMAIN s = 1 .. Len(s)
         /\ \A n \in 1 .. Len(s) : s[n] \in Slots /\ s[n] # SLOT_NONE
         /\ i = SLOT_NONE <=> Len(s) = 0
         /\ i # SLOT_NONE => i = s[1] /\ 1 \in 1 .. Len(s)
  <1>1. /\ s \in Seq(Slots) /\ \A m, n \in 1 .. Len(s) : s[m] = s[n] => m = n
        /\ i = IF Len(s) = 0 THEN SLOT_NONE ELSE s[1]
    BY Zenon DEF EsLista
  <1>2. Len(s) \in Nat /\ Len(s) <= CAPACITY
    BY ONLY <1>1, ListaCorta, Zenon
  <1>3. DOMAIN s = 1 .. Len(s) /\ \A n \in 1 .. Len(s) : s[n] \in Slots
    BY <1>1
  <1>4. \A n \in 1 .. Len(s) : s[n] # SLOT_NONE
    BY <1>3, Numeros, Zenon
  <1>5. Len(s) # 0 => 1 \in 1 .. Len(s)
    BY <1>2
  <1>6. Len(s) \in 0 .. CAPACITY
    BY <1>2, Numeros
  <1>7. QED
    BY ONLY <1>1, <1>3, <1>4, <1>5, <1>6, Zenon

\* The same links over the slots of a list make the same list.
LEMMA EsIgual ==
  ASSUME NEW sig, NEW i, NEW s, EsLista(sig, i, s),
         NEW sig2, \A n \in 1 .. Len(s) : sig2[s[n]] = sig[s[n]]
  PROVE  EsLista(sig2, i, s)
  BY Zenon DEF EsLista

LEMMA EsSaca ==
  ASSUME NEW sig, NEW i, NEW s, EsLista(sig, i, s),
         NEW p \in 1 .. Len(s), NEW sig2, NEW i2,
         \A n \in 1 .. Len(s) : n # p => sig2[s[n]] = IF n = p - 1 THEN sig[s[p]] ELSE sig[s[n]],
         i2 = IF p = 1 THEN sig[s[p]] ELSE i
  PROVE  EsLista(sig2, i2, Saca(s, p))
  <1> DEFINE r == Saca(s, p)
  <1>1. /\ s \in Seq(Slots) /\ Len(s) \in Nat /\ p \in Int /\ 1 <= p /\ p <= Len(s)
        /\ i = IF Len(s) = 0 THEN SLOT_NONE ELSE s[1]
        /\ \A n \in 1 .. Len(s) : sig[s[n]] = IF n = Len(s) THEN SLOT_NONE ELSE s[n + 1]
        /\ \A m, n \in 1 .. Len(s) : s[m] = s[n] => m = n
    <2>1. s \in Seq(Slots)
      BY Zenon DEF EsLista
    <2>2. Len(s) \in Nat /\ p \in Int /\ 1 <= p /\ p <= Len(s)
      BY <2>1
    <2>3. QED
      BY <2>1, <2>2, Zenon DEF EsLista
  <1>2. /\ r \in Seq(Slots) /\ Len(r) = Len(s) - 1
        /\ \A n \in 1 .. Len(s) - 1 : r[n] = IF n < p THEN s[n] ELSE s[n + 1]
    BY <1>1, SacaTipo, ZenonT(60)
  <1> HIDE DEF r
  <1>3. i2 = IF Len(r) = 0 THEN SLOT_NONE ELSE r[1]
    <2>1. CASE p = 1
      <3>1. i2 = IF 1 = Len(s) THEN SLOT_NONE ELSE s[1 + 1]
        BY <1>1, <2>1
      <3>2. Len(s) # 1 => 1 \in 1 .. Len(s) - 1 /\ Len(r) # 0
        BY <1>1, <1>2
      <3>3. Len(s) = 1 => Len(r) = 0
        BY <1>2
      <3>4. Len(s) # 1 => r[1] = s[1 + 1]
        BY <1>2, <2>1, <3>2
      <3>5. QED
        BY <3>1, <3>2, <3>3, <3>4
    <2>2. CASE p # 1
      <3>1. /\ 1 \in 1 .. Len(s) - 1 /\ 1 < p /\ Len(r) # 0 /\ Len(s) # 0
        BY <1>1, <1>2, <2>2
      <3>2. i2 = s[1] /\ r[1] = s[1]
        BY <1>1, <1>2, <2>2, <3>1, Zenon
      <3>3. QED
        BY <3>1, <3>2
    <2>3. QED
      BY <2>1, <2>2
  <1>4. ASSUME NEW n \in 1 .. Len(r)
        PROVE  sig2[r[n]] = IF n = Len(r) THEN SLOT_NONE ELSE r[n + 1]
    <2>1. /\ n \in 1 .. Len(s) - 1 /\ n \in 1 .. Len(s) /\ n + 1 \in 1 .. Len(s) /\ n \in Int
          /\ (n = Len(r) <=> n + 1 = Len(s)) /\ n # Len(s)
          /\ n # Len(r) => n + 1 \in 1 .. Len(s) - 1
      BY <1>1, <1>2
    <2>2. CASE n < p - 1
      <3>1. n < p /\ n + 1 < p /\ n # p /\ n # p - 1 /\ n + 1 # Len(s)
        BY <1>1, <2>1, <2>2
      <3>2. r[n] = s[n] /\ r[n + 1] = s[n + 1] /\ n # Len(r)
        BY <1>2, <2>1, <3>1, Zenon
      <3>3. sig2[s[n]] = sig[s[n]] /\ sig[s[n]] = s[n + 1]
        BY <1>1, <2>1, <3>1, Zenon
      <3>4. QED
        BY <3>2, <3>3, Zenon
    <2>3. CASE n = p - 1
      <3>1. n < p /\ ~(n + 1 < p) /\ n # p /\ n + 1 = p /\ (p = Len(s) <=> n = Len(r))
        BY <1>1, <2>1, <2>3
      <3>2. r[n] = s[n] /\ (n # Len(r) => r[n + 1] = s[p + 1])
        <4>1. r[n] = s[n]
          BY <1>2, <2>1, <3>1, Zenon
        <4>2. n # Len(r) => r[n + 1] = s[(n + 1) + 1]
          BY <1>2, <2>1, <3>1, Zenon
        <4>3. QED
          BY <4>1, <4>2, <3>1, Zenon
      <3>3. sig2[s[n]] = sig[s[p]] /\ sig[s[p]] = IF p = Len(s) THEN SLOT_NONE ELSE s[p + 1]
        BY <1>1, <2>1, <2>3, <3>1, Zenon
      <3>4. QED
        BY <3>1, <3>2, <3>3, Zenon
    <2>4. CASE n > p - 1
      <3>1. ~(n < p) /\ ~(n + 1 < p) /\ n + 1 # p /\ n + 1 # p - 1
        BY <1>1, <2>1, <2>4
      <3>2. r[n] = s[n + 1] /\ (n # Len(r) => r[n + 1] = s[(n + 1) + 1])
        BY <1>2, <2>1, <3>1, Zenon
      <3>3. /\ sig2[s[n + 1]] = sig[s[n + 1]]
            /\ sig[s[n + 1]] = IF n + 1 = Len(s) THEN SLOT_NONE ELSE s[(n + 1) + 1]
        BY <1>1, <2>1, <3>1, Zenon
      <3>4. QED
        BY <2>1, <3>2, <3>3, Zenon
    <2>5. QED
      BY <1>1, <2>1, <2>2, <2>3, <2>4
  <1>5. ASSUME NEW m \in 1 .. Len(r), NEW n \in 1 .. Len(r), r[m] = r[n]
        PROVE  m = n
    <2> DEFINE a == IF m < p THEN m ELSE m + 1
               b == IF n < p THEN n ELSE n + 1
    <2>1. /\ m \in 1 .. Len(s) - 1 /\ n \in 1 .. Len(s) - 1
          /\ a \in 1 .. Len(s) /\ b \in 1 .. Len(s) /\ (a = b => m = n)
      BY <1>1, <1>2
    <2>2. r[m] = s[a] /\ r[n] = s[b]
      BY <1>2, <2>1, Zenon
    <2> HIDE DEF a, b
    <2>3. QED
      BY <1>1, <1>5, <2>1, <2>2, Zenon
  <1>6. EsLista(sig2, i2, r)
    BY <1>2, <1>3, <1>4, <1>5, Zenon DEF EsLista
  <1>7. QED
    BY <1>6 DEF r

LEMMA EsPon ==
  ASSUME NEW sig, NEW i, NEW s, EsLista(sig, i, s),
         NEW x \in Slots, \A n \in 1 .. Len(s) : s[n] # x,
         NEW sig2, sig2[x] = i, \A n \in 1 .. Len(s) : sig2[s[n]] = sig[s[n]]
  PROVE  EsLista(sig2, x, Pon(x, s))
  <1> DEFINE r == Pon(x, s)
  <1>1. /\ s \in Seq(Slots)
        /\ i = IF Len(s) = 0 THEN SLOT_NONE ELSE s[1]
        /\ \A n \in 1 .. Len(s) : sig[s[n]] = IF n = Len(s) THEN SLOT_NONE ELSE s[n + 1]
        /\ \A m, n \in 1 .. Len(s) : s[m] = s[n] => m = n
    BY Zenon DEF EsLista
  <1>2. /\ r \in Seq(Slots) /\ Len(r) = Len(s) + 1
        /\ \A n \in 1 .. Len(s) + 1 : r[n] = IF n = 1 THEN x ELSE s[n - 1]
    <2>1. s \in Seq(Slots) /\ x \in Slots
      BY <1>1
    <2>2. /\ Pon(x, s) \in Seq(Slots) /\ Len(Pon(x, s)) = Len(s) + 1
          /\ \A n \in 1 .. Len(s) + 1 : Pon(x, s)[n] = IF n = 1 THEN x ELSE s[n - 1]
      BY ONLY <2>1, PonTipo, ZenonT(60)
    <2>3. QED
      BY <2>2 DEF r
  <1>3. Len(s) \in Nat
    BY <1>1
  <1> HIDE DEF r
  <1>4. Len(r) # 0 /\ 1 \in 1 .. Len(s) + 1 /\ r[1] = x
    <2>1. Len(r) # 0 /\ 1 \in 1 .. Len(s) + 1
      BY <1>2, <1>3
    <2>2. QED
      BY <1>2, <2>1, Zenon
  <1>5. ASSUME NEW n \in 1 .. Len(r)
        PROVE  sig2[r[n]] = IF n = Len(r) THEN SLOT_NONE ELSE r[n + 1]
    <2>1. /\ n \in Int /\ n \in 1 .. Len(s) + 1
          /\ n # Len(r) => n + 1 \in 1 .. Len(s) + 1 /\ n + 1 # 1 /\ (n + 1) - 1 = n
          /\ n # 1 => n - 1 \in 1 .. Len(s) /\ (n - 1) + 1 = n
      BY <1>2, <1>3
    <2>2. n # Len(r) => r[n + 1] = s[n]
      BY <1>2, <2>1, Zenon
    <2>3. CASE n = 1
      <3>1. sig2[r[n]] = i
        BY <1>4, <2>3, Zenon
      <3>2. n = Len(r) <=> Len(s) = 0
        BY <1>2, <1>3, <2>3
      <3>3. QED
        BY <1>1, <2>2, <2>3, <3>1, <3>2, Zenon
    <2>4. CASE n # 1
      <3>1. r[n] = s[n - 1]
        BY <1>2, <2>1, <2>4, Zenon
      <3>2. sig2[r[n]] = IF n - 1 = Len(s) THEN SLOT_NONE ELSE s[n]
        BY <1>1, <2>1, <2>4, <3>1, ZenonT(60)
      <3>3. n - 1 = Len(s) <=> n = Len(r)
        BY <1>2, <1>3, <2>1
      <3>4. QED
        BY <2>2, <3>2, <3>3, Zenon
    <2>5. QED
      BY <2>3, <2>4
  <1>6. ASSUME NEW m \in 1 .. Len(r), NEW n \in 1 .. Len(r), r[m] = r[n]
        PROVE  m = n
    <2>1. /\ m \in 1 .. Len(s) + 1 /\ n \in 1 .. Len(s) + 1
          /\ m # 1 => m - 1 \in 1 .. Len(s)
          /\ n # 1 => n - 1 \in 1 .. Len(s)
          /\ m - 1 = n - 1 => m = n
      BY <1>2, <1>3
    <2>2. /\ r[m] = IF m = 1 THEN x ELSE s[m - 1]
          /\ r[n] = IF n = 1 THEN x ELSE s[n - 1]
      BY <1>2, <2>1, Zenon
    <2>3. QED
      BY <1>1, <1>6, <2>1, <2>2, ZenonT(60)
  <1>7. EsLista(sig2, x, r)
    BY <1>2, <1>4, <1>5, <1>6, Zenon DEF EsLista
  <1>8. QED
    BY <1>7 DEF r

LEMMA EsTras ==
  ASSUME NEW sig, NEW i, NEW s, EsLista(sig, i, s),
         NEW x \in Slots, \A n \in 1 .. Len(s) : s[n] # x,
         NEW sig2, NEW i2, sig2[x] = SLOT_NONE,
         \A n \in 1 .. Len(s) : sig2[s[n]] = IF n = Len(s) THEN x ELSE sig[s[n]],
         i2 = IF Len(s) = 0 THEN x ELSE i
  PROVE  EsLista(sig2, i2, Tras(s, x))
  <1> DEFINE r == Tras(s, x)
  <1>1. /\ s \in Seq(Slots)
        /\ i = IF Len(s) = 0 THEN SLOT_NONE ELSE s[1]
        /\ \A n \in 1 .. Len(s) : sig[s[n]] = IF n = Len(s) THEN SLOT_NONE ELSE s[n + 1]
        /\ \A m, n \in 1 .. Len(s) : s[m] = s[n] => m = n
    BY Zenon DEF EsLista
  <1>2. /\ r \in Seq(Slots) /\ Len(r) = Len(s) + 1
        /\ \A n \in 1 .. Len(s) + 1 : r[n] = IF n = Len(s) + 1 THEN x ELSE s[n]
    <2>1. s \in Seq(Slots) /\ x \in Slots
      BY <1>1
    <2>2. /\ Tras(s, x) \in Seq(Slots) /\ Len(Tras(s, x)) = Len(s) + 1
          /\ \A n \in 1 .. Len(s) + 1 : Tras(s, x)[n] = IF n = Len(s) + 1 THEN x ELSE s[n]
      BY ONLY <2>1, TrasTipo, ZenonT(60)
    <2>3. QED
      BY <2>2 DEF r
  <1>3. Len(s) \in Nat
    BY <1>1
  <1> HIDE DEF r
  <1>4. i2 = IF Len(r) = 0 THEN SLOT_NONE ELSE r[1]
    <2>1. Len(r) # 0 /\ 1 \in 1 .. Len(s) + 1 /\ (1 = Len(s) + 1 <=> Len(s) = 0)
      BY <1>2, <1>3
    <2>2. QED
      BY <1>1, <1>2, <2>1, Zenon
  <1>5. ASSUME NEW n \in 1 .. Len(r)
        PROVE  sig2[r[n]] = IF n = Len(r) THEN SLOT_NONE ELSE r[n + 1]
    <2>1. /\ n \in Int /\ n \in 1 .. Len(s) + 1
          /\ n # Len(s) + 1 => n + 1 \in 1 .. Len(s) + 1 /\ n \in 1 .. Len(s)
          /\ n = Len(s) => n # Len(s) + 1
          /\ n + 1 = Len(s) + 1 <=> n = Len(s)
      BY <1>2, <1>3
    <2>2. CASE n = Len(s) + 1
      BY <1>2, <2>1, <2>2, Zenon
    <2>3. CASE n # Len(s) + 1
      <3>1. r[n] = s[n] /\ r[n + 1] = IF n = Len(s) THEN x ELSE s[n + 1]
        BY <1>2, <2>1, <2>3, Zenon
      <3>2. sig2[s[n]] = IF n = Len(s) THEN x ELSE s[n + 1]
        BY <1>1, <2>1, <2>3, Zenon
      <3>3. QED
        BY <1>2, <2>3, <3>1, <3>2, Zenon
    <2>4. QED
      BY <2>2, <2>3
  <1>6. ASSUME NEW m \in 1 .. Len(r), NEW n \in 1 .. Len(r), r[m] = r[n]
        PROVE  m = n
    <2>1. /\ m \in 1 .. Len(s) + 1 /\ n \in 1 .. Len(s) + 1
          /\ m # Len(s) + 1 => m \in 1 .. Len(s)
          /\ n # Len(s) + 1 => n \in 1 .. Len(s)
      BY <1>2, <1>3
    <2>2. /\ r[m] = IF m = Len(s) + 1 THEN x ELSE s[m]
          /\ r[n] = IF n = Len(s) + 1 THEN x ELSE s[n]
      BY <1>2, <2>1, Zenon
    <2>3. QED
      BY <1>1, <1>6, <2>1, <2>2, Zenon
  <1>7. EsLista(sig2, i2, r)
    BY <1>2, <1>4, <1>5, <1>6, Zenon DEF EsLista
  <1>8. QED
    BY <1>7 DEF r

-----------------------------------------------------------------------------
(***************************************************************************)
(* What each operation leaves in the fields                                *)
(***************************************************************************)

\* What a slot holds besides its links.
MismosDatos(d, e) ==
  \A j \in Slots :
    /\ e.slots[j].clave = d.slots[j].clave
    /\ e.slots[j].resp = d.slots[j].resp
    /\ e.slots[j].inserted = d.slots[j].inserted
    /\ e.slots[j].expiry = d.slots[j].expiry

MismaSalida(d, e) == e.buckets = d.buckets /\ e.free_head = d.free_head

LEMMA EnlacesTipo ==
  ASSUME NEW d \in Estado
  PROVE  /\ \A j \in Slots :
              /\ SigHash(d)[j] = d.slots[j].hash_next
              /\ SigUso(d)[j] = d.slots[j].lru_next
              /\ AntUso(d)[j] = d.slots[j].lru_prev
              /\ SigHash(d)[j] \in Enlace /\ SigUso(d)[j] \in Enlace /\ AntUso(d)[j] \in Enlace
              /\ d.slots[j] \in Slot
         /\ d.lru_head \in Enlace /\ d.lru_tail \in Enlace /\ d.free_head \in Enlace
         /\ d.buckets \in [Slots -> Enlace] /\ d.slots \in [Slots -> Slot]
  <1>1. d.slots \in [Slots -> Slot] /\ d.buckets \in [Slots -> Enlace]
    BY DEF Estado
  <1>2. d.lru_head \in Enlace /\ d.lru_tail \in Enlace /\ d.free_head \in Enlace
    BY DEF Estado
  <1>3. ASSUME NEW j \in Slots
        PROVE  d.slots[j].hash_next \in Enlace /\ d.slots[j].lru_next \in Enlace
               /\ d.slots[j].lru_prev \in Enlace /\ d.slots[j] \in Slot
    <2>1. d.slots[j] \in Slot
      BY <1>1
    <2>2. QED
      BY <2>1 DEF Slot
  <1>4. QED
    BY <1>1, <1>2, <1>3 DEF SigHash, SigUso, AntUso

TrasUnlink(d, e, i) ==
  /\ e \in Estado
  /\ MismosDatos(d, e)
  /\ MismaSalida(d, e)
  /\ e.lru_head = IF AntUso(d)[i] = SLOT_NONE THEN SigUso(d)[i] ELSE d.lru_head
  /\ e.lru_tail = IF SigUso(d)[i] = SLOT_NONE THEN AntUso(d)[i] ELSE d.lru_tail
  /\ \A j \in Slots :
       /\ SigHash(e)[j] = SigHash(d)[j]
       /\ SigUso(e)[j] = IF j = AntUso(d)[i] THEN SigUso(d)[i] ELSE SigUso(d)[j]
       /\ AntUso(e)[j] = IF j = SigUso(d)[i] THEN AntUso(d)[i] ELSE AntUso(d)[j]

LEMMA CamposUnlink ==
  ASSUME NEW d \in Estado, NEW i \in Slots
  PROVE  TrasUnlink(d, LruUnlink(d, i), i)
  <1> DEFINE s == d.slots[i]
             nuevo(j) == [d.slots[j] EXCEPT
               !.lru_next = IF j = s.lru_prev THEN s.lru_next ELSE @,
               !.lru_prev = IF j = s.lru_next THEN s.lru_prev ELSE @]
             e == [slots |-> [j \in Slots |-> nuevo(j)],
                   buckets |-> d.buckets,
                   lru_head |-> IF s.lru_prev = SLOT_NONE THEN s.lru_next ELSE d.lru_head,
                   lru_tail |-> IF s.lru_next = SLOT_NONE THEN s.lru_prev ELSE d.lru_tail,
                   free_head |-> d.free_head]
  <1>1. LruUnlink(d, i) = e
    <2>1. d = [slots |-> d.slots, buckets |-> d.buckets, lru_head |-> d.lru_head,
               lru_tail |-> d.lru_tail, free_head |-> d.free_head]
      BY DEF Estado
    <2> HIDE DEF s
    <2>2. LruUnlink(d, i) = [d EXCEPT
            !.slots = [j \in Slots |-> nuevo(j)],
            !.lru_head = IF s.lru_prev = SLOT_NONE THEN s.lru_next ELSE d.lru_head,
            !.lru_tail = IF s.lru_next = SLOT_NONE THEN s.lru_prev ELSE d.lru_tail]
      BY DEF LruUnlink, s
    <2> HIDE DEF nuevo
    <2>3. QED
      BY <2>1, <2>2
  <1>2. /\ s.lru_next = SigUso(d)[i] /\ s.lru_prev = AntUso(d)[i]
        /\ s.lru_next \in Enlace /\ s.lru_prev \in Enlace
    BY EnlacesTipo
  <1>3. ASSUME NEW j \in Slots
        PROVE  /\ nuevo(j) \in Slot
               /\ nuevo(j).clave = d.slots[j].clave /\ nuevo(j).resp = d.slots[j].resp
               /\ nuevo(j).inserted = d.slots[j].inserted /\ nuevo(j).expiry = d.slots[j].expiry
               /\ nuevo(j).hash_next = d.slots[j].hash_next
               /\ nuevo(j).lru_next = IF j = s.lru_prev THEN s.lru_next ELSE d.slots[j].lru_next
               /\ nuevo(j).lru_prev = IF j = s.lru_next THEN s.lru_prev ELSE d.slots[j].lru_prev
    <2>1. d.slots[j] \in Slot
      BY EnlacesTipo
    <2> HIDE DEF s
    <2>2. QED
      BY <1>2, <2>1 DEF Slot
  <1>4. e \in Estado
    <2>1. \A j \in Slots : nuevo(j) \in Slot
      BY <1>3
    <2>2. /\ d.buckets \in [Slots -> Enlace] /\ d.lru_head \in Enlace /\ d.lru_tail \in Enlace
          /\ d.free_head \in Enlace
      BY EnlacesTipo
    <2> HIDE DEF s, nuevo
    <2>3. QED
      BY <1>2, <2>1, <2>2 DEF Estado
  <1>5. /\ \A j \in Slots : e.slots[j] = nuevo(j)
        /\ e.buckets = d.buckets /\ e.free_head = d.free_head
        /\ e.lru_head = IF s.lru_prev = SLOT_NONE THEN s.lru_next ELSE d.lru_head
        /\ e.lru_tail = IF s.lru_next = SLOT_NONE THEN s.lru_prev ELSE d.lru_tail
    OBVIOUS
  <1> HIDE DEF e, nuevo, s
  <1>6. \A j \in Slots :
          /\ SigHash(e)[j] = d.slots[j].hash_next
          /\ SigUso(e)[j] = IF j = s.lru_prev THEN s.lru_next ELSE d.slots[j].lru_next
          /\ AntUso(e)[j] = IF j = s.lru_next THEN s.lru_prev ELSE d.slots[j].lru_prev
    BY <1>3, <1>5 DEF SigHash, SigUso, AntUso
  <1>7. MismosDatos(d, e) /\ MismaSalida(d, e)
    BY <1>3, <1>5 DEF MismosDatos, MismaSalida
  <1>8. \A j \in Slots :
          /\ SigHash(e)[j] = SigHash(d)[j]
          /\ SigUso(e)[j] = IF j = AntUso(d)[i] THEN SigUso(d)[i] ELSE SigUso(d)[j]
          /\ AntUso(e)[j] = IF j = SigUso(d)[i] THEN AntUso(d)[i] ELSE AntUso(d)[j]
    BY <1>2, <1>6, EnlacesTipo
  <1>9. QED
    BY <1>1, <1>2, <1>4, <1>5, <1>7, <1>8, Zenon DEF TrasUnlink

LEMMA EstadoPartes ==
  ASSUME NEW d \in Estado
  PROVE  d = [slots |-> d.slots, buckets |-> d.buckets, lru_head |-> d.lru_head,
              lru_tail |-> d.lru_tail, free_head |-> d.free_head]
  BY DEF Estado

TrasFront(d, e, i) ==
  /\ e \in Estado
  /\ MismosDatos(d, e)
  /\ MismaSalida(d, e)
  /\ e.lru_head = i
  /\ e.lru_tail = IF d.lru_tail = SLOT_NONE THEN i ELSE d.lru_tail
  /\ \A j \in Slots :
       /\ SigHash(e)[j] = SigHash(d)[j]
       /\ SigUso(e)[j] = IF j = i THEN d.lru_head ELSE SigUso(d)[j]
       /\ AntUso(e)[j] =
            IF j = i THEN SLOT_NONE ELSE IF j = d.lru_head THEN i ELSE AntUso(d)[j]

LEMMA CamposFront ==
  ASSUME NEW d \in Estado, NEW i \in Slots, d.lru_head # i
  PROVE  TrasFront(d, LruPushFront(d, i), i)
  <1> DEFINE nuevo(j) ==
               IF j = i THEN [d.slots[j] EXCEPT !.lru_prev = SLOT_NONE, !.lru_next = d.lru_head]
               ELSE IF j = d.lru_head THEN [d.slots[j] EXCEPT !.lru_prev = i]
               ELSE d.slots[j]
             e == [slots |-> [j \in Slots |-> nuevo(j)],
                   buckets |-> d.buckets,
                   lru_head |-> i,
                   lru_tail |-> IF d.lru_tail = SLOT_NONE THEN i ELSE d.lru_tail,
                   free_head |-> d.free_head]
  <1>1. LruPushFront(d, i) = e
    <2>1. LruPushFront(d, i) = [d EXCEPT
            !.slots = [j \in Slots |-> nuevo(j)],
            !.lru_head = i,
            !.lru_tail = IF d.lru_tail = SLOT_NONE THEN i ELSE d.lru_tail]
      BY DEF LruPushFront
    <2> HIDE DEF nuevo
    <2>2. QED
      BY <2>1, EstadoPartes
  <1>2. i \in Enlace /\ SLOT_NONE \in Enlace /\ d.lru_head \in Enlace /\ d.lru_tail \in Enlace
        /\ d.free_head \in Enlace /\ d.buckets \in [Slots -> Enlace]
    BY Numeros, EnlacesTipo
  <1>3. ASSUME NEW j \in Slots
        PROVE  /\ nuevo(j) \in Slot
               /\ nuevo(j).clave = d.slots[j].clave /\ nuevo(j).resp = d.slots[j].resp
               /\ nuevo(j).inserted = d.slots[j].inserted /\ nuevo(j).expiry = d.slots[j].expiry
               /\ nuevo(j).hash_next = d.slots[j].hash_next
               /\ nuevo(j).lru_next = IF j = i THEN d.lru_head ELSE d.slots[j].lru_next
               /\ nuevo(j).lru_prev =
                    IF j = i THEN SLOT_NONE ELSE IF j = d.lru_head THEN i ELSE d.slots[j].lru_prev
    <2>1. d.slots[j] \in Slot
      BY EnlacesTipo
    <2>2. QED
      BY <1>2, <2>1 DEF Slot
  <1>4. e \in Estado
    <2>1. \A j \in Slots : nuevo(j) \in Slot
      BY <1>3
    <2> HIDE DEF nuevo
    <2>2. QED
      BY <1>2, <2>1 DEF Estado
  <1>5. /\ \A j \in Slots : e.slots[j] = nuevo(j)
        /\ e.buckets = d.buckets /\ e.free_head = d.free_head
        /\ e.lru_head = i
        /\ e.lru_tail = IF d.lru_tail = SLOT_NONE THEN i ELSE d.lru_tail
    OBVIOUS
  <1> HIDE DEF e, nuevo
  <1>6. \A j \in Slots :
          /\ SigHash(e)[j] = d.slots[j].hash_next
          /\ SigUso(e)[j] = IF j = i THEN d.lru_head ELSE d.slots[j].lru_next
          /\ AntUso(e)[j] =
               IF j = i THEN SLOT_NONE ELSE IF j = d.lru_head THEN i ELSE d.slots[j].lru_prev
    BY <1>3, <1>5 DEF SigHash, SigUso, AntUso
  <1>7. MismosDatos(d, e) /\ MismaSalida(d, e)
    BY <1>3, <1>5 DEF MismosDatos, MismaSalida
  <1>8. \A j \in Slots :
          /\ SigHash(e)[j] = SigHash(d)[j]
          /\ SigUso(e)[j] = IF j = i THEN d.lru_head ELSE SigUso(d)[j]
          /\ AntUso(e)[j] = IF j = i THEN SLOT_NONE ELSE IF j = d.lru_head THEN i ELSE AntUso(d)[j]
    BY <1>6, EnlacesTipo
  <1>9. QED
    BY <1>1, <1>4, <1>5, <1>7, <1>8, Zenon DEF TrasFront

\* What an operation on the hash links and the free list leaves alone.
MismoUso(d, e) ==
  /\ e.lru_head = d.lru_head /\ e.lru_tail = d.lru_tail
  /\ \A j \in Slots : SigUso(e)[j] = SigUso(d)[j] /\ AntUso(e)[j] = AntUso(d)[j]

TrasHash(d, e, i, b) ==
  /\ e \in Estado
  /\ MismosDatos(d, e)
  /\ MismoUso(d, e)
  /\ e.free_head = d.free_head
  /\ \A c \in Slots : e.buckets[c] =
       IF c = b /\ d.buckets[b] = i THEN SigHash(d)[i] ELSE d.buckets[c]
  /\ \A j \in Slots : SigHash(e)[j] =
       IF SigHash(d)[j] = i /\ Pertenece(Cadena(d, b), j) THEN SigHash(d)[i] ELSE SigHash(d)[j]

LEMMA CamposHash ==
  ASSUME NEW d \in Estado, NEW i \in Slots, NEW b \in Slots, b = Hash[d.slots[i].clave]
  PROVE  TrasHash(d, HashUnlink(d, i), i, b)
  <1> DEFINE h == d.slots[i].hash_next
             P(j) == d.slots[j].hash_next = i /\ Pertenece(Cadena(d, b), j)
             nuevo(j) == IF P(j) THEN [d.slots[j] EXCEPT !.hash_next = h] ELSE d.slots[j]
             cubos == [d.buckets EXCEPT ![b] = IF d.buckets[b] = i THEN h ELSE d.buckets[b]]
             e == [slots |-> [j \in Slots |-> nuevo(j)],
                   buckets |-> cubos,
                   lru_head |-> d.lru_head, lru_tail |-> d.lru_tail,
                   free_head |-> d.free_head]
  <1>1. HashUnlink(d, i) = e
    <2>1. HashUnlink(d, i) = [d EXCEPT
            !.buckets[b] = IF d.buckets[b] = i THEN h ELSE d.buckets[b],
            !.slots = [j \in Slots |-> nuevo(j)]]
      BY Zenon DEF HashUnlink
    <2> DEFINE v == IF d.buckets[b] = i THEN h ELSE d.buckets[b]
               f == [j \in Slots |-> nuevo(j)]
               w == [d.buckets EXCEPT ![b] = v]
    <2> HIDE DEF nuevo, v, f
    <2>2. [d EXCEPT !.buckets[b] = v, !.slots = f] = [d EXCEPT !.buckets = w, !.slots = f]
      BY EstadoPartes
    <2> HIDE DEF w
    <2>3. [d EXCEPT !.buckets = w, !.slots = f]
          = [slots |-> f, buckets |-> w,
             lru_head |-> d.lru_head, lru_tail |-> d.lru_tail, free_head |-> d.free_head]
      <3>1. d = [slots |-> d.slots, buckets |-> d.buckets, lru_head |-> d.lru_head,
                 lru_tail |-> d.lru_tail, free_head |-> d.free_head]
        BY EstadoPartes
      <3>2. [d EXCEPT !.buckets = w]
            = [slots |-> d.slots, buckets |-> w, lru_head |-> d.lru_head,
               lru_tail |-> d.lru_tail, free_head |-> d.free_head]
        BY <3>1
      <3> DEFINE q == [d EXCEPT !.buckets = w]
      <3>3. [q EXCEPT !.slots = f]
            = [slots |-> f, buckets |-> w, lru_head |-> d.lru_head,
               lru_tail |-> d.lru_tail, free_head |-> d.free_head]
        <4>1. q = [slots |-> d.slots, buckets |-> w, lru_head |-> d.lru_head,
                   lru_tail |-> d.lru_tail, free_head |-> d.free_head]
          BY <3>2
        <4> HIDE DEF q
        <4>2. QED
          BY <4>1
      <3>4. QED
        BY <3>3
    <2>4. QED
      BY <2>1, <2>2, <2>3, Zenon DEF v, f, w
  <1>2. h \in Enlace /\ d.lru_head \in Enlace /\ d.lru_tail \in Enlace
        /\ d.free_head \in Enlace /\ d.buckets \in [Slots -> Enlace] /\ h = SigHash(d)[i]
    BY EnlacesTipo
  <1>3. ASSUME NEW j \in Slots
        PROVE  /\ nuevo(j) \in Slot
               /\ nuevo(j).clave = d.slots[j].clave /\ nuevo(j).resp = d.slots[j].resp
               /\ nuevo(j).inserted = d.slots[j].inserted /\ nuevo(j).expiry = d.slots[j].expiry
               /\ nuevo(j).hash_next = IF P(j) THEN h ELSE d.slots[j].hash_next
               /\ nuevo(j).lru_next = d.slots[j].lru_next
               /\ nuevo(j).lru_prev = d.slots[j].lru_prev
    <2>1. d.slots[j] \in Slot
      BY EnlacesTipo
    <2> HIDE DEF h, P
    <2>2. QED
      BY <1>2, <2>1 DEF Slot
  <1>4. cubos \in [Slots -> Enlace]
        /\ \A c \in Slots : cubos[c] = IF c = b /\ d.buckets[b] = i THEN h ELSE d.buckets[c]
    <2> HIDE DEF h
    <2>1. QED
      BY <1>2
  <1>5. e \in Estado
    <2>1. \A j \in Slots : nuevo(j) \in Slot
      BY <1>3
    <2> HIDE DEF nuevo, cubos
    <2>2. QED
      BY <1>2, <1>4, <2>1 DEF Estado
  <1>6. /\ \A j \in Slots : e.slots[j] = nuevo(j)
        /\ e.buckets = cubos /\ e.free_head = d.free_head
        /\ e.lru_head = d.lru_head /\ e.lru_tail = d.lru_tail
    OBVIOUS
  <1> HIDE DEF e, nuevo, h, cubos, P
  <1>7. \A j \in Slots :
          /\ SigHash(e)[j] = IF P(j) THEN h ELSE d.slots[j].hash_next
          /\ SigUso(e)[j] = d.slots[j].lru_next
          /\ AntUso(e)[j] = d.slots[j].lru_prev
    BY <1>3, <1>6 DEF SigHash, SigUso, AntUso
  <1>8. MismosDatos(d, e)
    BY <1>3, <1>6 DEF MismosDatos
  <1>9. MismoUso(d, e)
    BY <1>6, <1>7, EnlacesTipo DEF MismoUso
  <1>10. \A j \in Slots : P(j) <=> SigHash(d)[j] = i /\ Pertenece(Cadena(d, b), j)
    <2>1. \A j \in Slots : SigHash(d)[j] = d.slots[j].hash_next
      BY EnlacesTipo
    <2>2. QED
      BY <2>1, Zenon DEF P
  <1>11. \A j \in Slots : SigHash(e)[j] =
              IF SigHash(d)[j] = i /\ Pertenece(Cadena(d, b), j) THEN SigHash(d)[i] ELSE SigHash(d)[j]
    <2>1. \A j \in Slots : SigHash(d)[j] = d.slots[j].hash_next
      BY EnlacesTipo
    <2>2. QED
      BY <1>2, <1>7, <1>10, <2>1, Zenon
  <1>12. QED
    BY <1>1, <1>2, <1>4, <1>5, <1>6, <1>8, <1>9, <1>11, Zenon DEF TrasHash

LEMMA CambiaSlots ==
  ASSUME NEW d \in Estado, NEW f \in [Slots -> Slot]
  PROVE  /\ [d EXCEPT !.slots = f] \in Estado
         /\ [d EXCEPT !.slots = f].slots = f
         /\ [d EXCEPT !.slots = f].buckets = d.buckets
         /\ [d EXCEPT !.slots = f].lru_head = d.lru_head
         /\ [d EXCEPT !.slots = f].lru_tail = d.lru_tail
         /\ [d EXCEPT !.slots = f].free_head = d.free_head
  BY DEF Estado

LEMMA CambiaCubos ==
  ASSUME NEW d \in Estado, NEW f \in [Slots -> Enlace]
  PROVE  /\ [d EXCEPT !.buckets = f] \in Estado
         /\ [d EXCEPT !.buckets = f].slots = d.slots
         /\ [d EXCEPT !.buckets = f].buckets = f
         /\ [d EXCEPT !.buckets = f].lru_head = d.lru_head
         /\ [d EXCEPT !.buckets = f].lru_tail = d.lru_tail
         /\ [d EXCEPT !.buckets = f].free_head = d.free_head
  BY DEF Estado

LEMMA CambiaLibres ==
  ASSUME NEW d \in Estado, NEW h \in Enlace
  PROVE  /\ [d EXCEPT !.free_head = h] \in Estado
         /\ [d EXCEPT !.free_head = h].slots = d.slots
         /\ [d EXCEPT !.free_head = h].buckets = d.buckets
         /\ [d EXCEPT !.free_head = h].lru_head = d.lru_head
         /\ [d EXCEPT !.free_head = h].lru_tail = d.lru_tail
         /\ [d EXCEPT !.free_head = h].free_head = h
  BY DEF Estado

\* A single slot that changes.
LEMMA CambiaSlot ==
  ASSUME NEW d \in Estado, NEW i \in Slots, NEW v \in Slot
  PROVE  /\ [d EXCEPT !.slots[i] = v] \in Estado
         /\ \A j \in Slots : [d EXCEPT !.slots[i] = v].slots[j] = IF j = i THEN v ELSE d.slots[j]
         /\ [d EXCEPT !.slots[i] = v].buckets = d.buckets
         /\ [d EXCEPT !.slots[i] = v].lru_head = d.lru_head
         /\ [d EXCEPT !.slots[i] = v].lru_tail = d.lru_tail
         /\ [d EXCEPT !.slots[i] = v].free_head = d.free_head
  <1> DEFINE f == [d.slots EXCEPT ![i] = v]
  <1>1. [d EXCEPT !.slots[i] = v] = [d EXCEPT !.slots = f]
    OBVIOUS
  <1>2. f \in [Slots -> Slot] /\ \A j \in Slots : f[j] = IF j = i THEN v ELSE d.slots[j]
    BY EnlacesTipo
  <1> HIDE DEF f
  <1>3. /\ [d EXCEPT !.slots = f] \in Estado
        /\ [d EXCEPT !.slots = f].slots = f
        /\ [d EXCEPT !.slots = f].buckets = d.buckets
        /\ [d EXCEPT !.slots = f].lru_head = d.lru_head
        /\ [d EXCEPT !.slots = f].lru_tail = d.lru_tail
        /\ [d EXCEPT !.slots = f].free_head = d.free_head
    BY <1>2, CambiaSlots, Zenon
  <1> DEFINE e == [d EXCEPT !.slots = f]
             e0 == [d EXCEPT !.slots[i] = v]
  <1>4. e0 = e
    BY <1>1
  <1>5. /\ e \in Estado /\ e.slots = f /\ e.buckets = d.buckets /\ e.lru_head = d.lru_head
        /\ e.lru_tail = d.lru_tail /\ e.free_head = d.free_head
    BY <1>3
  <1> HIDE DEF e, e0
  <1>6. /\ e0 \in Estado /\ \A j \in Slots : e0.slots[j] = IF j = i THEN v ELSE d.slots[j]
        /\ e0.buckets = d.buckets /\ e0.lru_head = d.lru_head
        /\ e0.lru_tail = d.lru_tail /\ e0.free_head = d.free_head
    BY <1>2, <1>4, <1>5, Zenon
  <1>7. QED
    BY <1>6 DEF e0

\* Slot i in the chain of question k, in use.
Mete(d, i, k) ==
  [d EXCEPT !.slots[i].clave = k, !.slots[i].hash_next = d.buckets[Hash[k]], !.buckets[Hash[k]] = i]

TrasMete(d, e, i, k) ==
  /\ e \in Estado
  /\ MismoUso(d, e)
  /\ e.free_head = d.free_head
  /\ \A j \in Slots :
       /\ e.slots[j].clave = IF j = i THEN k ELSE d.slots[j].clave
       /\ e.slots[j].resp = d.slots[j].resp
       /\ e.slots[j].inserted = d.slots[j].inserted
       /\ e.slots[j].expiry = d.slots[j].expiry
       /\ SigHash(e)[j] = IF j = i THEN d.buckets[Hash[k]] ELSE SigHash(d)[j]
       /\ e.buckets[j] = IF j = Hash[k] THEN i ELSE d.buckets[j]
  /\ Hash[k] \in Slots

LEMMA CamposMete ==
  ASSUME NEW d \in Estado, NEW i \in Slots, NEW k \in Claves
  PROVE  TrasMete(d, Mete(d, i, k), i, k)
  <1> DEFINE b == Hash[k]
             h == d.buckets[b]
             s == d.slots[i]
             v == [s EXCEPT !.clave = k, !.hash_next = h]
             e1 == [d EXCEPT !.slots[i] = v]
             e2 == [e1 EXCEPT !.buckets = [d.buckets EXCEPT ![b] = i]]
  <1>1. b \in Slots /\ i \in Enlace
    BY CacheAssumption DEF Slots, Enlace
  <1>2. h \in Enlace /\ s \in Slot
    BY <1>1, EnlacesTipo
  <1>3. /\ v \in Slot
        /\ v.clave = k /\ v.hash_next = h
        /\ v.resp = s.resp /\ v.inserted = s.inserted /\ v.expiry = s.expiry
        /\ v.lru_next = s.lru_next /\ v.lru_prev = s.lru_prev
    <2> HIDE DEF h, s
    <2>1. QED
      BY <1>2 DEF Slot
  <1>4. Mete(d, i, k) = e2
    <2>1. Mete(d, i, k) = [d EXCEPT !.slots[i].clave = k, !.slots[i].hash_next = h, !.buckets[b] = i]
      BY DEF Mete
    <2> HIDE DEF b, h
    <2>2. [d EXCEPT !.slots[i].clave = k, !.slots[i].hash_next = h] = e1
      BY EnlacesTipo
    <2>3. e1.buckets = d.buckets
      <3> HIDE DEF v
      <3>1. QED
        BY <1>3, CambiaSlot
    <2>4. [e1 EXCEPT !.buckets[b] = i] = e2
      <3> HIDE DEF e1
      <3>1. QED
        BY <2>3
    <2> HIDE DEF e2
    <2>5. QED
      BY <2>1, <2>2, <2>4, Zenon
  <1> HIDE DEF v, s, h, b
  <1>5. /\ e1 \in Estado
        /\ \A j \in Slots : e1.slots[j] = IF j = i THEN v ELSE d.slots[j]
        /\ e1.lru_head = d.lru_head /\ e1.lru_tail = d.lru_tail /\ e1.free_head = d.free_head
    BY <1>3, CambiaSlot
  <1> HIDE DEF e1
  <1> DEFINE f == [d.buckets EXCEPT ![b] = i]
  <1>6. f \in [Slots -> Enlace] /\ \A j \in Slots : f[j] = IF j = b THEN i ELSE d.buckets[j]
    BY <1>1, EnlacesTipo
  <1> HIDE DEF f
  <1>7. /\ [e1 EXCEPT !.buckets = f] \in Estado
        /\ [e1 EXCEPT !.buckets = f].slots = e1.slots
        /\ [e1 EXCEPT !.buckets = f].buckets = f
        /\ [e1 EXCEPT !.buckets = f].lru_head = e1.lru_head
        /\ [e1 EXCEPT !.buckets = f].lru_tail = e1.lru_tail
        /\ [e1 EXCEPT !.buckets = f].free_head = e1.free_head
    BY <1>5, <1>6, CambiaCubos
  <1>8. e2 = [e1 EXCEPT !.buckets = f]
    BY DEF f
  <1> HIDE DEF e2
  <1>9. /\ e2 \in Estado /\ e2.buckets = f /\ e2.slots = e1.slots
        /\ e2.lru_head = d.lru_head /\ e2.lru_tail = d.lru_tail /\ e2.free_head = d.free_head
    BY <1>5, <1>7, <1>8, Zenon
  <1>10. ASSUME NEW j \in Slots
         PROVE  /\ e2.slots[j].clave = IF j = i THEN k ELSE d.slots[j].clave
                /\ e2.slots[j].resp = d.slots[j].resp
                /\ e2.slots[j].inserted = d.slots[j].inserted
                /\ e2.slots[j].expiry = d.slots[j].expiry
                /\ e2.slots[j].hash_next = IF j = i THEN h ELSE d.slots[j].hash_next
                /\ e2.slots[j].lru_next = d.slots[j].lru_next
                /\ e2.slots[j].lru_prev = d.slots[j].lru_prev
    <2>1. e2.slots[j] = IF j = i THEN v ELSE d.slots[j]
      BY <1>5, <1>9, Zenon
    <2>2. CASE j = i
      BY <1>3, <2>1, <2>2, Zenon DEF s
    <2>3. CASE j # i
      BY <2>1, <2>3, Zenon
    <2>4. QED
      BY <2>2, <2>3, Zenon
  <1>11. \A j \in Slots : /\ SigHash(e2)[j] = e2.slots[j].hash_next
                          /\ SigUso(e2)[j] = e2.slots[j].lru_next
                          /\ AntUso(e2)[j] = e2.slots[j].lru_prev
                          /\ SigHash(d)[j] = d.slots[j].hash_next
                          /\ SigUso(d)[j] = d.slots[j].lru_next
                          /\ AntUso(d)[j] = d.slots[j].lru_prev
    BY <1>9, EnlacesTipo
  <1>12. MismoUso(d, e2)
    BY <1>9, <1>10, <1>11, Zenon DEF MismoUso
  <1>13. \A j \in Slots : SigHash(e2)[j] = IF j = i THEN h ELSE SigHash(d)[j]
    BY <1>10, <1>11, Zenon
  <1>14. \A j \in Slots : e2.buckets[j] = IF j = b THEN i ELSE d.buckets[j]
    BY <1>6, <1>9, Zenon
  <1>15. h = d.buckets[Hash[k]] /\ b = Hash[k]
    BY DEF h, b
  <1>16. QED
    BY <1>1, <1>4, <1>9, <1>10, <1>12, <1>13, <1>14, <1>15, Zenon DEF TrasMete

TrasSaca(d, e, i) ==
  /\ e \in Estado
  /\ MismosDatos(d, e)
  /\ MismoUso(d, e)
  /\ e.buckets = d.buckets
  /\ e.free_head = SigHash(d)[i]
  /\ \A j \in Slots : SigHash(e)[j] = SigHash(d)[j]

LEMMA CamposSaca ==
  ASSUME NEW d \in Estado, NEW i \in Slots, d.free_head = i
  PROVE  TrasSaca(d, SacaLibre(d), i)
  <1> DEFINE h == d.slots[i].hash_next
             e == [d EXCEPT !.free_head = h]
  <1>1. SacaLibre(d) = e
    BY DEF SacaLibre
  <1>2. h \in Enlace /\ h = SigHash(d)[i]
    BY EnlacesTipo
  <1> HIDE DEF h
  <1>3. /\ e \in Estado /\ e.slots = d.slots /\ e.buckets = d.buckets /\ e.free_head = h
        /\ e.lru_head = d.lru_head /\ e.lru_tail = d.lru_tail
    BY <1>2, CambiaLibres, Zenon
  <1> HIDE DEF e
  <1>4. MismosDatos(d, e)
    BY <1>3, Zenon DEF MismosDatos
  <1>5. \A j \in Slots : SigHash(e)[j] = SigHash(d)[j] /\ SigUso(e)[j] = SigUso(d)[j]
                         /\ AntUso(e)[j] = AntUso(d)[j]
    BY <1>3, Zenon DEF SigHash, SigUso, AntUso
  <1>6. MismoUso(d, e)
    BY <1>3, <1>5, Zenon DEF MismoUso
  <1>7. QED
    BY <1>1, <1>2, <1>3, <1>4, <1>5, <1>6, Zenon DEF TrasSaca

\* Slot i in the free list.
Suelta(d, i, h) == [d EXCEPT !.slots[i] = Libre(h), !.free_head = i]

LEMMA LibreTipo ==
  ASSUME NEW h \in Enlace
  PROVE  /\ Libre(h) \in Slot
         /\ Libre(h).clave = Nada
         /\ Libre(h).hash_next = h
  <1>1. 0 \in 0 .. MaxNow /\ 0 \in 0 .. MaxNow + TTL_CAP
    BY CacheAssumption
  <1>2. SLOT_NONE \in Enlace
    BY Numeros
  <1>3. QED
    BY <1>1, <1>2 DEF Libre, Slot

TrasSuelta(d, e, i, h) ==
  /\ e \in Estado
  /\ \A j \in Slots \ {i} :
       /\ e.slots[j] = d.slots[j]
       /\ SigUso(e)[j] = SigUso(d)[j]
       /\ AntUso(e)[j] = AntUso(d)[j]
       /\ SigHash(e)[j] = SigHash(d)[j]
  /\ e.slots[i] = Libre(h)
  /\ SigHash(e)[i] = h
  /\ e.buckets = d.buckets
  /\ e.free_head = i
  /\ e.lru_head = d.lru_head
  /\ e.lru_tail = d.lru_tail

LEMMA CamposSuelta ==
  ASSUME NEW d \in Estado, NEW i \in Slots, NEW h \in Enlace
  PROVE  TrasSuelta(d, Suelta(d, i, h), i, h)
  <1> DEFINE v == Libre(h)
             e1 == [d EXCEPT !.slots[i] = v]
             e == [e1 EXCEPT !.free_head = i]
  <1>1. v \in Slot /\ v.hash_next = h /\ i \in Enlace
    BY LibreTipo, Numeros
  <1>2. Suelta(d, i, h) = e
    BY DEF Suelta
  <1> HIDE DEF v
  <1>3. /\ e1 \in Estado /\ \A j \in Slots : e1.slots[j] = IF j = i THEN v ELSE d.slots[j]
        /\ e1.buckets = d.buckets /\ e1.lru_head = d.lru_head /\ e1.lru_tail = d.lru_tail
    BY <1>1, CambiaSlot, Zenon
  <1> HIDE DEF e1
  <1>4. /\ e \in Estado /\ e.slots = e1.slots /\ e.buckets = e1.buckets /\ e.free_head = i
        /\ e.lru_head = e1.lru_head /\ e.lru_tail = e1.lru_tail
    BY <1>1, <1>3, CambiaLibres, Zenon
  <1> HIDE DEF e
  <1>5. \A j \in Slots : e.slots[j] = IF j = i THEN v ELSE d.slots[j]
    BY <1>3, <1>4, Zenon
  <1>6. \A j \in Slots : /\ SigHash(e)[j] = e.slots[j].hash_next
                         /\ SigUso(e)[j] = e.slots[j].lru_next
                         /\ AntUso(e)[j] = e.slots[j].lru_prev
                         /\ SigHash(d)[j] = d.slots[j].hash_next
                         /\ SigUso(d)[j] = d.slots[j].lru_next
                         /\ AntUso(d)[j] = d.slots[j].lru_prev
    BY <1>4, EnlacesTipo
  <1>7. \A j \in Slots \ {i} :
          /\ e.slots[j] = d.slots[j] /\ SigUso(e)[j] = SigUso(d)[j]
          /\ AntUso(e)[j] = AntUso(d)[j] /\ SigHash(e)[j] = SigHash(d)[j]
    BY <1>5, <1>6, ZenonT(60)
  <1>8. e.slots[i] = v /\ SigHash(e)[i] = h
    BY <1>1, <1>5, <1>6, Zenon
  <1>9. e.slots[i] = Libre(h)
    BY <1>8 DEF v
  <1>10. QED
    BY <1>2, <1>3, <1>4, <1>7, <1>8, <1>9, Zenon DEF TrasSuelta

\* The least of a set of naturals is one of them.
LEMMA MinTipo ==
  ASSUME NEW S \in SUBSET Nat, S # {}
  PROVE  Min(S) \in S /\ \A y \in S : Min(S) <= y
  <1>1. PICK x \in S : \A y \in S : x <= y
    BY Minimo
  <1>2. S \in SUBSET Int
    OBVIOUS
  <1>3. Min(S) = x
    BY <1>1, <1>2, MinEs
  <1>4. QED
    BY <1>1, <1>3

LEMMA RrTipo ==
  ASSUME NEW m, EsMensaje(m)
  PROVE  /\ m.rr \in Seq(Registro) /\ Len(m.rr) \in Nat /\ DOMAIN m.rr = 1 .. Len(m.rr)
         /\ \A i \in DOMAIN m.rr : m.rr[i] \in Registro /\ m.rr[i].ttl \in Nat
         /\ m.an \in Nat /\ m.ns \in Nat /\ m.ar \in Nat
  <1>1. m.rr \in Seq(Registro) /\ m.an \in Nat /\ m.ns \in Nat /\ m.ar \in Nat
    BY Zenon DEF EsMensaje
  <1>2. \A i \in DOMAIN m.rr : m.rr[i] \in Registro
    BY <1>1
  <1>3. \A r \in Registro : r.ttl \in Nat
    BY DEF Registro
  <1>4. Len(m.rr) \in Nat /\ DOMAIN m.rr = 1 .. Len(m.rr)
    BY <1>1
  <1>5. QED
    BY <1>1, <1>2, <1>3, <1>4, Zenon

LEMMA MinTtlTipo ==
  ASSUME NEW m, EsMensaje(m)
  PROVE  dns_wire_min_ttl(m) \in Int
  <1> DEFINE soas == {i \in LosQueSon(m, SOA) : i <= m.ns}
             ttls == {m.rr[i].ttl : i \in 1 .. m.an}
  <1>1. SinTtl \in Int
    BY DEF SinTtl
  <1>2. TtlNegativo(m) \in Int
    <2>1. soas \in SUBSET DOMAIN m.rr /\ DOMAIN m.rr \in SUBSET Nat
      BY RrTipo DEF LosQueSon
    <2>2. TtlNegativo(m) = IF soas # {} /\ SeLlega(m, Min(soas)) THEN m.rr[Min(soas)].ttl ELSE SinTtl
      BY Zenon DEF TtlNegativo
    <2> HIDE DEF soas
    <2>3. soas # {} => Min(soas) \in DOMAIN m.rr
      BY <2>1, MinTipo
    <2>4. soas # {} => m.rr[Min(soas)].ttl \in Nat
      BY <2>3, RrTipo, Zenon
    <2>5. QED
      BY <1>1, <2>2, <2>4
  <1>3. m.an # 0 /\ SeLlega(m, m.an) => Min(ttls) \in Int
    <2> SUFFICES ASSUME m.an # 0, SeLlega(m, m.an)
                 PROVE  Min(ttls) \in Int
      OBVIOUS
    <2>1. \A i \in 1 .. m.an : i \in DOMAIN m.rr
      BY Zenon DEF SeLlega, walk_record
    <2>2. \A i \in 1 .. m.an : m.rr[i].ttl \in Nat
      BY <2>1, RrTipo, Zenon
    <2>3. 1 \in 1 .. m.an
      BY RrTipo
    <2>4. ttls \in SUBSET Nat /\ m.rr[1].ttl \in ttls
      BY <2>2, <2>3, Zenon
    <2> HIDE DEF ttls
    <2>5. Min(ttls) \in ttls
      BY <2>4, MinTipo
    <2>6. QED
      BY <2>4, <2>5
  <1>4. QED
    BY <1>1, <1>2, <1>3, Zenon DEF dns_wire_min_ttl

LEMMA Guardables ==
  ASSUME NEW m \in SeGuardan
  PROVE  /\ m \in Mensajes /\ MinTtl[m] \in Nat \ {0} /\ EsMensaje(Wire[m])
         /\ MinTtl[m] = dns_wire_min_ttl(Wire[m])
         /\ TtlEfectivo(MinTtl[m]) \in 0 .. TTL_CAP /\ TtlEfectivo(MinTtl[m]) <= MinTtl[m]
  <1>1. m \in Mensajes /\ MinTtl[m] > 0
    BY DEF SeGuardan
  <1>2. EsMensaje(Wire[m])
    BY <1>1, CacheAssumption
  <1>3. MinTtl[m] = dns_wire_min_ttl(Wire[m])
    BY <1>1 DEF MinTtl
  <1>4. MinTtl[m] \in Int
    BY <1>2, <1>3, MinTtlTipo
  <1>5. TTL_CAP \in Nat
    BY CacheAssumption
  <1> DEFINE x == MinTtl[m]
  <1> HIDE DEF x
  <1>6. x \in Int /\ x > 0
    BY <1>1, <1>4 DEF x
  <1>7. x \in Nat \ {0} /\ TtlEfectivo(x) \in 0 .. TTL_CAP /\ TtlEfectivo(x) <= x
    BY <1>5, <1>6 DEF TtlEfectivo
  <1>8. QED
    BY <1>1, <1>2, <1>3, <1>7 DEF x

TrasRellena(d, e, i, m) ==
  /\ e \in Estado
  /\ MismoUso(d, e)
  /\ MismaSalida(d, e)
  /\ \A j \in Slots :
       /\ SigHash(e)[j] = SigHash(d)[j]
       /\ e.slots[j].clave = d.slots[j].clave
       /\ j # i => e.slots[j] = d.slots[j]
  /\ e.slots[i].resp = m
  /\ e.slots[i].inserted = now
  /\ e.slots[i].expiry = now + TtlEfectivo(MinTtl[m])

LEMMA CamposRellena ==
  ASSUME NEW d \in Estado, NEW i \in Slots, NEW m \in SeGuardan, now \in 0 .. MaxNow
  PROVE  TrasRellena(d, Rellena(d, i, m), i, m)
  <1> DEFINE x == now + TtlEfectivo(MinTtl[m])
             s == d.slots[i]
             v == [s EXCEPT !.resp = m, !.inserted = now, !.expiry = x]
             e == [d EXCEPT !.slots[i] = v]
  <1>1. s \in Slot
    BY EnlacesTipo
  <1>2. Rellena(d, i, m) = e
    <2>1. Rellena(d, i, m) = [d EXCEPT !.slots[i].resp = m, !.slots[i].inserted = now, !.slots[i].expiry = x]
      BY DEF Rellena
    <2> HIDE DEF x
    <2>2. QED
      BY <2>1, EnlacesTipo, ZenonT(60)
  <1>3. x \in 0 .. MaxNow + TTL_CAP /\ m \in Mensajes
    <2> DEFINE y == TtlEfectivo(MinTtl[m])
    <2>1. y \in 0 .. TTL_CAP /\ m \in Mensajes
      BY Guardables
    <2> HIDE DEF y
    <2>2. now + y \in 0 .. MaxNow + TTL_CAP
      BY <2>1, CacheAssumption
    <2>3. QED
      BY <2>1, <2>2 DEF y
  <1> HIDE DEF x, s
  <1>4. /\ v \in Slot
        /\ v.resp = m /\ v.inserted = now /\ v.expiry = x
        /\ v.clave = s.clave /\ v.hash_next = s.hash_next
        /\ v.lru_next = s.lru_next /\ v.lru_prev = s.lru_prev
    BY <1>1, <1>3 DEF Slot
  <1> HIDE DEF v
  <1>5. /\ e \in Estado /\ \A j \in Slots : e.slots[j] = IF j = i THEN v ELSE d.slots[j]
        /\ e.buckets = d.buckets /\ e.lru_head = d.lru_head /\ e.lru_tail = d.lru_tail
        /\ e.free_head = d.free_head
    BY <1>4, CambiaSlot, Zenon
  <1> HIDE DEF e
  <1>6. \A j \in Slots : /\ SigHash(e)[j] = e.slots[j].hash_next
                         /\ SigUso(e)[j] = e.slots[j].lru_next
                         /\ AntUso(e)[j] = e.slots[j].lru_prev
                         /\ SigHash(d)[j] = d.slots[j].hash_next
                         /\ SigUso(d)[j] = d.slots[j].lru_next
                         /\ AntUso(d)[j] = d.slots[j].lru_prev
    BY <1>5, EnlacesTipo
  <1>7. ASSUME NEW j \in Slots
        PROVE  /\ SigHash(e)[j] = SigHash(d)[j] /\ SigUso(e)[j] = SigUso(d)[j]
               /\ AntUso(e)[j] = AntUso(d)[j]
               /\ e.slots[j].clave = d.slots[j].clave
               /\ j # i => e.slots[j] = d.slots[j]
    <2>1. CASE j = i
      <3>1. e.slots[j] = v /\ d.slots[j] = s
        BY <1>5, <2>1, Zenon DEF s
      <3>2. QED
        BY <1>4, <1>6, <2>1, <3>1, Zenon
    <2>2. CASE j # i
      BY <1>5, <1>6, <2>2, ZenonT(60)
    <2>3. QED
      BY <2>1, <2>2, Zenon
  <1>8. MismoUso(d, e) /\ MismaSalida(d, e)
    BY <1>5, <1>7, Zenon DEF MismoUso, MismaSalida
  <1>9. e.slots[i].resp = m /\ e.slots[i].inserted = now /\ e.slots[i].expiry = x
    BY <1>4, <1>5, Zenon
  <1>10. QED
    BY <1>2, <1>5, <1>7, <1>8, <1>9, Zenon DEF x, TrasRellena

-----------------------------------------------------------------------------
(***************************************************************************)
(* The list that is linked both ways                                       *)
(***************************************************************************)
EsDoble(sig, ant, h, c, s) == EsLista(sig, h, s) /\ EsLista(ant, c, Reves(s))

DatosDoble(sig, ant, h, c, s) ==
  /\ s \in Seq(Slots) /\ Len(s) \in 0 .. CAPACITY
  /\ \A m, n \in 1 .. Len(s) : s[m] = s[n] => m = n
  /\ \A n \in 1 .. Len(s) :
       /\ s[n] \in Slots /\ s[n] # SLOT_NONE
       /\ sig[s[n]] = IF n = Len(s) THEN SLOT_NONE ELSE s[n + 1]
       /\ ant[s[n]] = IF n = 1 THEN SLOT_NONE ELSE s[n - 1]
  /\ h = IF Len(s) = 0 THEN SLOT_NONE ELSE s[1]
  /\ c = IF Len(s) = 0 THEN SLOT_NONE ELSE s[Len(s)]
  /\ Reves(s) \in Seq(Slots) /\ Len(Reves(s)) = Len(s)
  /\ \A n \in 1 .. Len(s) : Reves(s)[n] = s[Len(s) + 1 - n]

LEMMA DobleDatos ==
  ASSUME NEW sig, NEW ant, NEW h, NEW c, NEW s, EsDoble(sig, ant, h, c, s)
  PROVE  DatosDoble(sig, ant, h, c, s)
  <1>1. EsLista(sig, h, s) /\ EsLista(ant, c, Reves(s))
    BY DEF EsDoble
  <1>2. /\ s \in Seq(Slots) /\ Len(s) \in 0 .. CAPACITY
        /\ \A n \in 1 .. Len(s) : s[n] \in Slots /\ s[n] # SLOT_NONE
    BY <1>1, ListaDatos, Zenon
  <1>3. /\ Reves(s) \in Seq(Slots) /\ Len(Reves(s)) = Len(s)
        /\ \A n \in 1 .. Len(s) : Reves(s)[n] = s[Len(s) + 1 - n]
    BY <1>2, RevesTipo, Zenon
  <1>4. /\ \A m, n \in 1 .. Len(s) : s[m] = s[n] => m = n
        /\ \A n \in 1 .. Len(s) : sig[s[n]] = IF n = Len(s) THEN SLOT_NONE ELSE s[n + 1]
        /\ h = IF Len(s) = 0 THEN SLOT_NONE ELSE s[1]
    BY <1>1, Zenon DEF EsLista
  <1> DEFINE r == Reves(s)
  <1>5. /\ c = IF Len(r) = 0 THEN SLOT_NONE ELSE r[1]
        /\ \A n \in 1 .. Len(r) : ant[r[n]] = IF n = Len(r) THEN SLOT_NONE ELSE r[n + 1]
    BY <1>1, Zenon DEF EsLista
  <1>6. c = IF Len(s) = 0 THEN SLOT_NONE ELSE s[Len(s)]
    <2>1. Len(s) # 0 => 1 \in 1 .. Len(s) /\ Len(s) + 1 - 1 = Len(s)
      BY <1>2
    <2>2. Len(s) # 0 => r[1] = s[Len(s)]
      BY <1>3, <2>1, Zenon
    <2>3. QED
      BY <1>3, <1>5, <2>2, Zenon
  <1>7. ASSUME NEW n \in 1 .. Len(s)
        PROVE  ant[s[n]] = IF n = 1 THEN SLOT_NONE ELSE s[n - 1]
    <2> DEFINE k == Len(s) + 1 - n
    <2>1. /\ k \in 1 .. Len(s) /\ Len(s) + 1 - k = n
          /\ k = Len(s) <=> n = 1
          /\ n # 1 => k + 1 \in 1 .. Len(s)
          /\ Len(s) + 1 - (k + 1) = n - 1
      BY <1>2
    <2> HIDE DEF k
    <2>2. r[k] = s[n] /\ (n # 1 => r[k + 1] = s[n - 1])
      BY <1>3, <2>1, Zenon
    <2>3. ant[r[k]] = IF k = Len(s) THEN SLOT_NONE ELSE r[k + 1]
      BY <1>3, <1>5, <2>1, Zenon
    <2>4. QED
      BY <2>1, <2>2, <2>3, Zenon
  <1>8. QED
    BY <1>2, <1>3, <1>4, <1>6, <1>7, Zenon DEF DatosDoble

\* The links when the slots next to i are joined to each other.
Desenlaza(sig, ant, h, c, i, sig2, ant2, h2, c2) ==
  /\ \A j \in Slots : sig2[j] = IF j = ant[i] THEN sig[i] ELSE sig[j]
  /\ \A j \in Slots : ant2[j] = IF j = sig[i] THEN ant[i] ELSE ant[j]
  /\ h2 = IF ant[i] = SLOT_NONE THEN sig[i] ELSE h
  /\ c2 = IF sig[i] = SLOT_NONE THEN ant[i] ELSE c

\* The links when i comes before the first.
Antepone(sig, ant, h, c, i, sig2, ant2, c2) ==
  /\ \A j \in Slots : sig2[j] = IF j = i THEN h ELSE sig[j]
  /\ \A j \in Slots : ant2[j] = IF j = i THEN SLOT_NONE ELSE IF j = h THEN i ELSE ant[j]
  /\ c2 = IF c = SLOT_NONE THEN i ELSE c

LEMMA DobleSaca ==
  ASSUME NEW sig, NEW ant, NEW h, NEW c, NEW s, EsDoble(sig, ant, h, c, s),
         NEW p \in 1 .. Len(s), NEW i, i = s[p],
         NEW sig2, NEW ant2, NEW h2, NEW c2,
         Desenlaza(sig, ant, h, c, i, sig2, ant2, h2, c2)
  PROVE  EsDoble(sig2, ant2, h2, c2, Saca(s, p))
  <1>12. /\ \A j \in Slots : sig2[j] = IF j = ant[i] THEN sig[i] ELSE sig[j]
         /\ \A j \in Slots : ant2[j] = IF j = sig[i] THEN ant[i] ELSE ant[j]
         /\ h2 = IF ant[i] = SLOT_NONE THEN sig[i] ELSE h
         /\ c2 = IF sig[i] = SLOT_NONE THEN ant[i] ELSE c
    BY DEF Desenlaza
  <1> DEFINE r == Reves(s)
             q == Len(s) + 1 - p
  <1>1. /\ s \in Seq(Slots) /\ Len(s) \in 0 .. CAPACITY
        /\ \A m, n \in 1 .. Len(s) : s[m] = s[n] => m = n
        /\ \A n \in 1 .. Len(s) :
             /\ s[n] \in Slots /\ s[n] # SLOT_NONE
             /\ sig[s[n]] = IF n = Len(s) THEN SLOT_NONE ELSE s[n + 1]
             /\ ant[s[n]] = IF n = 1 THEN SLOT_NONE ELSE s[n - 1]
        /\ h = IF Len(s) = 0 THEN SLOT_NONE ELSE s[1]
        /\ c = IF Len(s) = 0 THEN SLOT_NONE ELSE s[Len(s)]
        /\ r \in Seq(Slots) /\ Len(r) = Len(s)
        /\ \A n \in 1 .. Len(s) : r[n] = s[Len(s) + 1 - n]
    <2>1. EsDoble(sig, ant, h, c, s)
      OBVIOUS
    <2>2. DatosDoble(sig, ant, h, c, s)
      BY ONLY <2>1, DobleDatos, Zenon
    <2>3. QED
      BY ONLY <2>2, Zenon DEF DatosDoble, r
  <1>2. /\ p \in Int /\ 1 <= p /\ p <= Len(s) /\ Len(s) \in Int
        /\ p # 1 => p - 1 \in 1 .. Len(s)
        /\ p # Len(s) => p + 1 \in 1 .. Len(s)
        /\ q \in 1 .. Len(s) /\ Len(s) + 1 - q = p
        /\ p = Len(s) <=> q = 1
        /\ p = 1 <=> q = Len(s)
    BY <1>1
  <1>3. sig[i] = IF p = Len(s) THEN SLOT_NONE ELSE s[p + 1]
    BY <1>1, Zenon
  <1>4. ant[i] = IF p = 1 THEN SLOT_NONE ELSE s[p - 1]
    BY <1>1, Zenon
  <1>10. /\ p = Len(s) => sig[i] = SLOT_NONE
         /\ p # Len(s) => /\ sig[i] = s[p + 1] /\ sig[i] # SLOT_NONE
                          /\ \A n \in 1 .. Len(s) : s[n] = sig[i] <=> n = p + 1
    BY <1>1, <1>2, <1>3
  <1>11. /\ p = 1 => ant[i] = SLOT_NONE
         /\ p # 1 => /\ ant[i] = s[p - 1] /\ ant[i] # SLOT_NONE
                     /\ \A n \in 1 .. Len(s) : s[n] = ant[i] <=> n = p - 1
    <2>1. CASE p = 1
      BY <1>4, <2>1
    <2>2. CASE p # 1
      <3>1. ant[i] = s[p - 1] /\ p - 1 \in 1 .. Len(s)
        BY <1>2, <1>4, <2>2, Zenon
      <3>2. ant[i] # SLOT_NONE /\ \A n \in 1 .. Len(s) : s[n] = ant[i] <=> n = p - 1
        <4> DEFINE w == p - 1
        <4>1. ant[i] = s[w] /\ w \in 1 .. Len(s)
          BY <3>1
        <4> HIDE DEF w
        <4>2. ant[i] # SLOT_NONE
          BY <1>1, <4>1, Zenon
        <4>3. \A n \in 1 .. Len(s) : s[n] = ant[i] <=> n = w
          BY ONLY <1>1, <4>1
        <4>4. QED
          BY <4>2, <4>3 DEF w
      <3>3. QED
        BY <2>2, <3>1, <3>2, Zenon
    <2>3. QED
      BY <2>1, <2>2
  <1>5. EsLista(sig, h, s) /\ EsLista(ant, c, r)
    BY DEF EsDoble
  <1>6. EsLista(sig2, h2, Saca(s, p))
    <2>1. ASSUME NEW n \in 1 .. Len(s), n # p
          PROVE  sig2[s[n]] = IF n = p - 1 THEN sig[s[p]] ELSE sig[s[n]]
      <3>1. s[n] = ant[i] <=> n = p - 1
        <4>1. CASE p = 1
          <5>1. n # p - 1
            BY <4>1
          <5>2. QED
            BY <1>1, <1>4, <4>1, <5>1, Zenon
        <4>2. CASE p # 1
          BY <1>11, <4>2, Zenon
        <4>3. QED
          BY <4>1, <4>2
      <3>2. QED
        BY <1>1, <1>12, <3>1, Zenon
    <2>2. h2 = IF p = 1 THEN sig[s[p]] ELSE h
      <3>1. ant[i] = SLOT_NONE <=> p = 1
        BY <1>11, Zenon
      <3>2. QED
        BY <1>12, <3>1, Zenon
    <2>3. p \in 1 .. Len(s)
      OBVIOUS
    <2>4. QED
      BY ONLY <1>5, <2>1, <2>2, <2>3, EsSaca, Zenon
  <1>7. EsLista(ant2, c2, Saca(r, q))
    <2> HIDE DEF r, q
    <2>1. ASSUME NEW n \in 1 .. Len(r), n # q
          PROVE  ant2[r[n]] = IF n = q - 1 THEN ant[r[q]] ELSE ant[r[n]]
      <3> DEFINE k == Len(s) + 1 - n
      <3>0. /\ Len(s) \in Nat /\ Len(r) = Len(s) /\ p \in 1 .. Len(s) /\ n \in 1 .. Len(s) /\ n # q
        <4>1. Len(s) \in Nat /\ Len(r) = Len(s)
          BY ONLY <1>1
        <4>2. QED
          BY <2>1, <4>1, Zenon
      <3>1. /\ k \in 1 .. Len(s) /\ k # p /\ (k = p + 1 <=> n = q - 1) /\ n \in 1 .. Len(s)
            /\ p = Len(s) => n # q - 1
        BY ONLY <3>0 DEF q, k
      <3>2. r[n] = s[k] /\ r[q] = i
        <4>1. r[n] = s[k]
          BY <1>1, <3>1, Zenon
        <4>2. r[q] = i
          BY <1>1, <1>2, Zenon
        <4>3. QED
          BY <4>1, <4>2, Zenon
      <3> HIDE DEF k
      <3>3. s[k] = sig[i] <=> k = p + 1
        <4>1. CASE p = Len(s)
          BY <1>1, <1>3, <3>1, <4>1, Zenon
        <4>2. CASE p # Len(s)
          BY <1>10, <3>1, <4>2, Zenon
        <4>3. QED
          BY <4>1, <4>2
      <3>4. ant2[s[k]] = IF k = p + 1 THEN ant[i] ELSE ant[s[k]]
        BY <1>1, <1>12, <3>1, <3>3, Zenon
      <3>5. QED
        BY <3>1, <3>2, <3>4, Zenon
    <2>2. c2 = IF q = 1 THEN ant[r[q]] ELSE c
      <3>1. sig[i] = SLOT_NONE <=> q = 1
        BY <1>2, <1>10, Zenon
      <3>2. r[q] = i
        BY <1>1, <1>2, Zenon
      <3>3. QED
        BY <1>12, <3>1, <3>2, Zenon
    <2>3. q \in 1 .. Len(r)
      BY <1>1, <1>2, Zenon
    <2>4. QED
      BY ONLY <1>5, <2>1, <2>2, <2>3, EsSaca, Zenon
  <1>8. Reves(Saca(s, p)) = Saca(r, q)
    BY <1>1, RevesSaca, Zenon
  <1>9. QED
    BY <1>6, <1>7, <1>8, Zenon DEF EsDoble

LEMMA DoblePon ==
  ASSUME NEW sig, NEW ant, NEW h, NEW c, NEW s, EsDoble(sig, ant, h, c, s),
         NEW i \in Slots, \A n \in 1 .. Len(s) : s[n] # i,
         NEW sig2, NEW ant2, NEW c2, Antepone(sig, ant, h, c, i, sig2, ant2, c2)
  PROVE  EsDoble(sig2, ant2, i, c2, Pon(i, s))
  <1>7. /\ \A j \in Slots : sig2[j] = IF j = i THEN h ELSE sig[j]
        /\ \A j \in Slots : ant2[j] = IF j = i THEN SLOT_NONE ELSE IF j = h THEN i ELSE ant[j]
        /\ c2 = IF c = SLOT_NONE THEN i ELSE c
    BY DEF Antepone
  <1> DEFINE r == Reves(s)
  <1>1. /\ s \in Seq(Slots) /\ Len(s) \in 0 .. CAPACITY
        /\ \A m, n \in 1 .. Len(s) : s[m] = s[n] => m = n
        /\ \A n \in 1 .. Len(s) :
             /\ s[n] \in Slots /\ s[n] # SLOT_NONE
             /\ sig[s[n]] = IF n = Len(s) THEN SLOT_NONE ELSE s[n + 1]
             /\ ant[s[n]] = IF n = 1 THEN SLOT_NONE ELSE s[n - 1]
        /\ h = IF Len(s) = 0 THEN SLOT_NONE ELSE s[1]
        /\ c = IF Len(s) = 0 THEN SLOT_NONE ELSE s[Len(s)]
        /\ r \in Seq(Slots) /\ Len(r) = Len(s)
        /\ \A n \in 1 .. Len(s) : r[n] = s[Len(s) + 1 - n]
    <2>1. EsDoble(sig, ant, h, c, s)
      OBVIOUS
    <2>2. DatosDoble(sig, ant, h, c, s)
      BY ONLY <2>1, DobleDatos, Zenon
    <2>3. QED
      BY ONLY <2>2, Zenon DEF DatosDoble, r
  <1>2. EsLista(sig, h, s) /\ EsLista(ant, c, r)
    BY DEF EsDoble
  <1>3. EsLista(sig2, i, Pon(i, s))
    <2>1. /\ \A n \in 1 .. Len(s) : s[n] # i /\ sig2[s[n]] = sig[s[n]]
          /\ sig2[i] = h
      BY <1>1, <1>7, Zenon
    <2>2. i \in Slots
      OBVIOUS
    <2>3. QED
      BY ONLY <1>2, <2>1, <2>2, EsPon, Zenon
  <1>4. EsLista(ant2, c2, Tras(r, i))
    <2> HIDE DEF r
    <2>1. ASSUME NEW n \in 1 .. Len(r)
          PROVE  r[n] # i /\ ant2[r[n]] = IF n = Len(r) THEN i ELSE ant[r[n]]
      <3> DEFINE k == Len(s) + 1 - n
      <3>1. /\ k \in 1 .. Len(s) /\ (k = 1 <=> n = Len(s)) /\ n \in 1 .. Len(s)
            /\ 1 \in 1 .. Len(s) /\ Len(s) # 0
        BY <1>1
      <3>2. r[n] = s[k]
        BY <1>1, <3>1, Zenon
      <3> HIDE DEF k
      <3>3. s[k] = h <=> k = 1
        BY <1>1, <3>1, Zenon
      <3>4. s[k] \in Slots /\ s[k] # i
        BY <1>1, <3>1, Zenon
      <3>5. ant2[s[k]] = IF s[k] = h THEN i ELSE ant[s[k]]
        BY <1>7, <3>4, Zenon
      <3>6. Len(r) = Len(s)
        BY <1>1, Zenon
      <3>7. QED
        BY <3>1, <3>2, <3>3, <3>4, <3>5, <3>6, Zenon
    <2>2. c2 = IF Len(r) = 0 THEN i ELSE c
      <3>1. Len(s) # 0 => Len(s) \in 1 .. Len(s)
        BY <1>1
      <3>2. c = SLOT_NONE <=> Len(r) = 0
        BY <1>1, <3>1, Zenon
      <3>3. QED
        BY <1>7, <3>2, Zenon
    <2>3. i \in Slots /\ ant2[i] = SLOT_NONE
      BY <1>7, Zenon
    <2>4. QED
      BY ONLY <1>2, <2>1, <2>2, <2>3, EsTras, Zenon
  <1>5. Reves(Pon(i, s)) = Tras(r, i)
    <2>1. s \in Seq(Slots) /\ i \in Slots
      BY <1>1
    <2>2. Reves(Pon(i, s)) = Tras(Reves(s), i)
      BY ONLY <2>1, RevesPon, Zenon
    <2>3. QED
      BY <2>2 DEF r
  <1>6. QED
    BY <1>3, <1>4, <1>5, Zenon DEF EsDoble

-----------------------------------------------------------------------------
(***************************************************************************)
(* The lists of the cache                                                  *)
(***************************************************************************)
UsoBien(d) == EsDoble(SigUso(d), AntUso(d), d.lru_head, d.lru_tail, Uso(d))

LibresBien(d) == EsLista(SigHash(d), d.free_head, Libres(d))

CadenasBien(d) == \A b \in Slots : EsLista(SigHash(d), d.buckets[b], Cadena(d, b))

\* A slot of a chain holds a question of its bucket, and is not free.
Ajenas(d) ==
  \A b, i \in Slots : Pertenece(Cadena(d, b), i) =>
    /\ d.slots[i].clave \in Claves /\ Hash[d.slots[i].clave] = b
    /\ ~Pertenece(Libres(d), i)

Enlazado(d) == d \in Estado /\ UsoBien(d) /\ LibresBien(d) /\ CadenasBien(d) /\ Ajenas(d)

MismasCadenas(d, e) == \A b \in Slots : Cadena(e, b) = Cadena(d, b)

LEMMA PerteneceBien ==
  ASSUME NEW S, NEW s \in Seq(S)
  PROVE  /\ \A x : Pertenece(s, x) <=> \E n \in 1 .. Len(s) : s[n] = x
         /\ \A n \in 1 .. Len(s) : Pertenece(s, s[n])
  <1>1. DOMAIN s = 1 .. Len(s)
    OBVIOUS
  <1>2. QED
    BY <1>1, Zenon DEF Pertenece

LEMMA PerteneceSaca ==
  ASSUME NEW S, NEW s \in Seq(S), NEW p \in 1 .. Len(s),
         \A m, n \in 1 .. Len(s) : s[m] = s[n] => m = n
  PROVE  \A x : Pertenece(Saca(s, p), x) <=> Pertenece(s, x) /\ x # s[p]
  <1> DEFINE r == Saca(s, p)
  <1>1. /\ r \in Seq(S) /\ Len(r) = Len(s) - 1
        /\ \A n \in 1 .. Len(s) - 1 : r[n] = IF n < p THEN s[n] ELSE s[n + 1]
    BY SacaTipo, Zenon
  <1>2. Len(s) \in Nat /\ p \in Int
    OBVIOUS
  <1> HIDE DEF r
  <1>3. \A x : Pertenece(r, x) <=> \E n \in 1 .. Len(r) : r[n] = x
    BY <1>1, PerteneceBien, Zenon
  <1>4. \A x : Pertenece(s, x) <=> \E n \in 1 .. Len(s) : s[n] = x
    BY PerteneceBien, Zenon
  <1>5. ASSUME NEW x, Pertenece(r, x)
        PROVE  Pertenece(s, x) /\ x # s[p]
    <2>1. PICK n \in 1 .. Len(r) : r[n] = x
      BY <1>3, <1>5, Zenon
    <2> DEFINE a == IF n < p THEN n ELSE n + 1
    <2>2. a \in 1 .. Len(s) /\ a # p /\ n \in 1 .. Len(s) - 1
      BY <1>1, <1>2
    <2>3. x = s[a]
      BY <1>1, <2>1, <2>2, Zenon
    <2> HIDE DEF a
    <2>4. QED
      BY <1>4, <2>2, <2>3, Zenon
  <1>6. ASSUME NEW x, Pertenece(s, x), x # s[p]
        PROVE  Pertenece(r, x)
    <2>1. PICK n \in 1 .. Len(s) : s[n] = x
      BY <1>4, <1>6, Zenon
    <2>2. n # p
      BY <1>6, <2>1
    <2>3. CASE n < p
      <3>1. n \in 1 .. Len(s) - 1 /\ n \in 1 .. Len(r)
        BY <1>1, <1>2, <2>3
      <3>2. r[n] = x
        BY <1>1, <2>1, <2>3, <3>1, Zenon
      <3>3. QED
        BY <1>3, <3>1, <3>2, Zenon
    <2>4. CASE n > p
      <3>1. n - 1 \in 1 .. Len(s) - 1 /\ n - 1 \in 1 .. Len(r) /\ ~(n - 1 < p) /\ (n - 1) + 1 = n
        BY <1>1, <1>2, <2>4
      <3>2. r[n - 1] = x
        BY <1>1, <2>1, <3>1, Zenon
      <3>3. QED
        BY <1>3, <3>1, <3>2, Zenon
    <2>5. QED
      BY <1>2, <2>2, <2>3, <2>4
  <1>7. \A x : Pertenece(r, x) <=> Pertenece(s, x) /\ x # s[p]
    BY <1>5, <1>6, Zenon
  <1>8. QED
    BY <1>7 DEF r

LEMMA PertenecePon ==
  ASSUME NEW S, NEW s \in Seq(S), NEW i \in S
  PROVE  \A x : Pertenece(Pon(i, s), x) <=> x = i \/ Pertenece(s, x)
  <1> DEFINE r == Pon(i, s)
  <1>1. /\ r \in Seq(S) /\ Len(r) = Len(s) + 1
        /\ \A n \in 1 .. Len(s) + 1 : r[n] = IF n = 1 THEN i ELSE s[n - 1]
    <2>1. s \in Seq(S) /\ i \in S
      OBVIOUS
    <2>2. /\ Pon(i, s) \in Seq(S) /\ Len(Pon(i, s)) = Len(s) + 1
          /\ \A n \in 1 .. Len(s) + 1 : Pon(i, s)[n] = IF n = 1 THEN i ELSE s[n - 1]
      BY ONLY <2>1, PonTipo, ZenonT(60)
    <2>3. QED
      BY <2>2 DEF r
  <1>2. Len(s) \in Nat
    OBVIOUS
  <1> HIDE DEF r
  <1>3. \A x : Pertenece(r, x) <=> \E n \in 1 .. Len(r) : r[n] = x
    BY <1>1, PerteneceBien, Zenon
  <1>4. \A x : Pertenece(s, x) <=> \E n \in 1 .. Len(s) : s[n] = x
    BY PerteneceBien, Zenon
  <1>5. ASSUME NEW x, Pertenece(r, x)
        PROVE  x = i \/ Pertenece(s, x)
    <2>1. PICK n \in 1 .. Len(r) : r[n] = x
      BY <1>3, <1>5, Zenon
    <2>2. n \in 1 .. Len(s) + 1 /\ (n # 1 => n - 1 \in 1 .. Len(s))
      BY <1>1, <1>2
    <2>3. QED
      BY <1>1, <1>4, <2>1, <2>2, Zenon
  <1>6. ASSUME NEW x, x = i \/ Pertenece(s, x)
        PROVE  Pertenece(r, x)
    <2>1. CASE x = i
      <3>1. 1 \in 1 .. Len(s) + 1 /\ 1 \in 1 .. Len(r)
        BY <1>1, <1>2
      <3>2. QED
        BY <1>1, <1>3, <2>1, <3>1, Zenon
    <2>2. CASE Pertenece(s, x)
      <3>1. PICK n \in 1 .. Len(s) : s[n] = x
        BY <1>4, <2>2, Zenon
      <3>2. n + 1 \in 1 .. Len(s) + 1 /\ n + 1 \in 1 .. Len(r) /\ n + 1 # 1 /\ (n + 1) - 1 = n
        BY <1>1, <1>2
      <3>3. r[n + 1] = x
        BY <1>1, <3>1, <3>2, Zenon
      <3>4. QED
        BY <1>3, <3>2, <3>3, Zenon
    <2>3. QED
      BY <1>6, <2>1, <2>2
  <1>7. \A x : Pertenece(r, x) <=> x = i \/ Pertenece(s, x)
    BY <1>5, <1>6, Zenon
  <1>8. QED
    BY <1>7 DEF r

\* An operation that changes no link of the chains and the free list.
LEMMA MismosHash ==
  ASSUME NEW d \in Estado, LibresBien(d), CadenasBien(d), NEW e, MismaSalida(d, e),
         \A j \in Slots : SigHash(e)[j] = SigHash(d)[j]
  PROVE  /\ LibresBien(e) /\ CadenasBien(e)
         /\ Libres(e) = Libres(d)
         /\ MismasCadenas(d, e)
  <1>1. e.free_head = d.free_head /\ e.buckets = d.buckets
    BY DEF MismaSalida
  <1>2. EsLista(SigHash(e), e.free_head, Libres(d))
    <2> DEFINE s == Libres(d)
    <2>1. EsLista(SigHash(d), d.free_head, s)
      BY DEF LibresBien
    <2> HIDE DEF s
    <2>2. \A n \in 1 .. Len(s) : s[n] \in Slots
      BY <2>1, ListaDatos, Zenon
    <2>3. \A n \in 1 .. Len(s) : SigHash(e)[s[n]] = SigHash(d)[s[n]]
      BY <2>2, Zenon
    <2>4. EsLista(SigHash(e), d.free_head, s)
      BY ONLY <2>1, <2>3, EsIgual, Zenon
    <2>5. QED
      BY <1>1, <2>4, Zenon DEF s
  <1>3. Libres(e) = Libres(d)
    BY <1>2, ListaBien, Zenon DEF Libres
  <1>4. ASSUME NEW b \in Slots
        PROVE  EsLista(SigHash(e), e.buckets[b], Cadena(d, b)) /\ Cadena(e, b) = Cadena(d, b)
    <2> DEFINE s == Cadena(d, b)
    <2>1. EsLista(SigHash(d), d.buckets[b], s)
      BY DEF CadenasBien
    <2> HIDE DEF s
    <2>2. \A n \in 1 .. Len(s) : s[n] \in Slots
      BY <2>1, ListaDatos, Zenon
    <2>3. \A n \in 1 .. Len(s) : SigHash(e)[s[n]] = SigHash(d)[s[n]]
      BY <2>2, Zenon
    <2>4. EsLista(SigHash(e), d.buckets[b], s)
      BY ONLY <2>1, <2>3, EsIgual, Zenon
    <2>5. EsLista(SigHash(e), e.buckets[b], s)
      BY <1>1, <2>4, Zenon
    <2>6. Lista(SigHash(e), e.buckets[b]) = s
      BY ONLY <2>5, ListaBien, Zenon
    <2>7. QED
      BY <2>5, <2>6, Zenon DEF s, Cadena
  <1>5. LibresBien(e)
    BY <1>2, <1>3, Zenon DEF LibresBien
  <1>6. CadenasBien(e) /\ MismasCadenas(d, e)
    BY <1>4, Zenon DEF CadenasBien, MismasCadenas
  <1>7. QED
    BY <1>3, <1>5, <1>6

\* One that changes none of the list of use.
LEMMA MismosUsos ==
  ASSUME NEW d \in Estado, UsoBien(d), NEW e, MismoUso(d, e)
  PROVE  UsoBien(e) /\ Uso(e) = Uso(d)
  <1> DEFINE s == Uso(d)
             r == Reves(s)
  <1>1. EsDoble(SigUso(d), AntUso(d), d.lru_head, d.lru_tail, s)
    BY DEF UsoBien
  <1>2. EsLista(SigUso(d), d.lru_head, s) /\ EsLista(AntUso(d), d.lru_tail, r)
    BY <1>1 DEF EsDoble
  <1> HIDE DEF r, s
  <1>3. /\ e.lru_head = d.lru_head /\ e.lru_tail = d.lru_tail
        /\ \A j \in Slots : SigUso(e)[j] = SigUso(d)[j] /\ AntUso(e)[j] = AntUso(d)[j]
    BY DEF MismoUso
  <1>4. EsLista(SigUso(e), d.lru_head, s)
    <2>1. \A n \in 1 .. Len(s) : s[n] \in Slots
      BY <1>2, ListaDatos, Zenon
    <2>2. \A n \in 1 .. Len(s) : SigUso(e)[s[n]] = SigUso(d)[s[n]]
      BY <1>3, <2>1, Zenon
    <2>3. QED
      BY ONLY <1>2, <2>2, EsIgual, Zenon
  <1>5. EsLista(AntUso(e), d.lru_tail, r)
    <2>1. \A n \in 1 .. Len(r) : r[n] \in Slots
      BY <1>2, ListaDatos, Zenon
    <2>2. \A n \in 1 .. Len(r) : AntUso(e)[r[n]] = AntUso(d)[r[n]]
      BY <1>3, <2>1, Zenon
    <2>3. QED
      BY ONLY <1>2, <2>2, EsIgual, Zenon
  <1>6. EsLista(SigUso(e), e.lru_head, s) /\ EsLista(AntUso(e), e.lru_tail, r)
    BY <1>3, <1>4, <1>5, Zenon
  <1>7. Uso(e) = s
    <2>1. Lista(SigUso(e), e.lru_head) = s
      BY ONLY <1>6, ListaBien, Zenon
    <2>2. QED
      BY <2>1 DEF Uso
  <1>8. EsDoble(SigUso(e), AntUso(e), e.lru_head, e.lru_tail, s)
    BY <1>6 DEF EsDoble, r
  <1>9. UsoBien(e)
    BY <1>7, <1>8, Zenon DEF UsoBien
  <1>10. QED
    BY <1>7, <1>9 DEF s

\* A slot of a chain is the same question's, with the same lists.
LEMMA MismasAjenas ==
  ASSUME NEW d, NEW e, Ajenas(d), MismosDatos(d, e), MismasCadenas(d, e), Libres(e) = Libres(d)
  PROVE  Ajenas(e)
  <1>1. ASSUME NEW b \in Slots, NEW i \in Slots, Pertenece(Cadena(e, b), i)
        PROVE  /\ e.slots[i].clave \in Claves /\ Hash[e.slots[i].clave] = b
               /\ ~Pertenece(Libres(e), i)
    <2>1. Cadena(e, b) = Cadena(d, b)
      BY Zenon DEF MismasCadenas
    <2>2. e.slots[i].clave = d.slots[i].clave
      BY DEF MismosDatos
    <2>3. Pertenece(Cadena(d, b), i)
      BY <1>1, <2>1, Zenon
    <2>4. /\ d.slots[i].clave \in Claves /\ Hash[d.slots[i].clave] = b
          /\ ~Pertenece(Libres(d), i)
      BY <2>3, Zenon DEF Ajenas
    <2>5. QED
      BY <2>2, <2>4, Zenon
  <1>2. QED
    BY <1>1, Zenon DEF Ajenas

\* lru_unlink
LEMMA PasoUnlink ==
  ASSUME NEW d, Enlazado(d), NEW p \in 1 .. Len(Uso(d)), NEW i, i = Uso(d)[p],
         NEW e, e = LruUnlink(d, i)
  PROVE  /\ Enlazado(e)
         /\ Uso(e) = Saca(Uso(d), p)
         /\ Libres(e) = Libres(d) /\ MismasCadenas(d, e) /\ MismosDatos(d, e)
         /\ e.free_head = d.free_head
  <1>1. d \in Estado /\ UsoBien(d) /\ LibresBien(d) /\ CadenasBien(d) /\ Ajenas(d)
    BY DEF Enlazado
  <1> DEFINE s == Uso(d)
  <1>2. EsDoble(SigUso(d), AntUso(d), d.lru_head, d.lru_tail, s)
    BY <1>1 DEF UsoBien
  <1> HIDE DEF s
  <1>3. p \in 1 .. Len(s) /\ i = s[p]
    BY DEF s
  <1>4. i \in Slots
    <2>1. DatosDoble(SigUso(d), AntUso(d), d.lru_head, d.lru_tail, s)
      BY ONLY <1>2, DobleDatos, Zenon
    <2>2. QED
      BY <1>3, <2>1, Zenon DEF DatosDoble
  <1>5. /\ e \in Estado
        /\ MismosDatos(d, e)
        /\ MismaSalida(d, e)
        /\ e.lru_head = IF AntUso(d)[i] = SLOT_NONE THEN SigUso(d)[i] ELSE d.lru_head
        /\ e.lru_tail = IF SigUso(d)[i] = SLOT_NONE THEN AntUso(d)[i] ELSE d.lru_tail
        /\ \A j \in Slots :
             /\ SigHash(e)[j] = SigHash(d)[j]
             /\ SigUso(e)[j] = IF j = AntUso(d)[i] THEN SigUso(d)[i] ELSE SigUso(d)[j]
             /\ AntUso(e)[j] = IF j = SigUso(d)[i] THEN AntUso(d)[i] ELSE AntUso(d)[j]
    <2>1. TrasUnlink(d, LruUnlink(d, i), i)
      BY ONLY <1>1, <1>4, CamposUnlink, Zenon
    <2>2. TrasUnlink(d, e, i)
      BY <2>1
    <2>3. QED
      BY ONLY <2>2, Zenon DEF TrasUnlink
  <1>6. EsDoble(SigUso(e), AntUso(e), e.lru_head, e.lru_tail, Saca(s, p))
    <2>1. \A j \in Slots : SigUso(e)[j] = IF j = AntUso(d)[i] THEN SigUso(d)[i] ELSE SigUso(d)[j]
      BY <1>5, Zenon
    <2>2. \A j \in Slots : AntUso(e)[j] = IF j = SigUso(d)[i] THEN AntUso(d)[i] ELSE AntUso(d)[j]
      BY <1>5, Zenon
    <2>3. /\ e.lru_head = IF AntUso(d)[i] = SLOT_NONE THEN SigUso(d)[i] ELSE d.lru_head
          /\ e.lru_tail = IF SigUso(d)[i] = SLOT_NONE THEN AntUso(d)[i] ELSE d.lru_tail
      BY <1>5, Zenon
    <2>4. Desenlaza(SigUso(d), AntUso(d), d.lru_head, d.lru_tail, i,
                    SigUso(e), AntUso(e), e.lru_head, e.lru_tail)
      BY <2>1, <2>2, <2>3, Zenon DEF Desenlaza
    <2>5. QED
      BY ONLY <1>2, <1>3, <2>4, DobleSaca, Zenon
  <1>7. Uso(e) = Saca(s, p)
    <2>1. EsLista(SigUso(e), e.lru_head, Saca(s, p))
      BY <1>6, Zenon DEF EsDoble
    <2>2. Lista(SigUso(e), e.lru_head) = Saca(s, p)
      BY ONLY <2>1, ListaBien, Zenon
    <2>3. QED
      BY <2>2 DEF Uso
  <1>8. UsoBien(e)
    BY <1>6, <1>7, Zenon DEF UsoBien
  <1>9. LibresBien(e) /\ CadenasBien(e) /\ Libres(e) = Libres(d) /\ MismasCadenas(d, e)
    BY <1>1, <1>5, MismosHash, Zenon
  <1>10. Ajenas(e)
    BY <1>1, <1>5, <1>9, MismasAjenas, Zenon
  <1>11. QED
    BY <1>5, <1>7, <1>8, <1>9, <1>10, Zenon DEF Enlazado, s, MismaSalida

\* lru_push_front
LEMMA PasoFront ==
  ASSUME NEW d, Enlazado(d), NEW i \in Slots, ~Pertenece(Uso(d), i),
         NEW e, e = LruPushFront(d, i)
  PROVE  /\ Enlazado(e)
         /\ Uso(e) = Pon(i, Uso(d))
         /\ Libres(e) = Libres(d) /\ MismasCadenas(d, e) /\ MismosDatos(d, e)
         /\ e.free_head = d.free_head
  <1>1. d \in Estado /\ UsoBien(d) /\ LibresBien(d) /\ CadenasBien(d) /\ Ajenas(d)
    BY DEF Enlazado
  <1> DEFINE s == Uso(d)
  <1>2. EsDoble(SigUso(d), AntUso(d), d.lru_head, d.lru_tail, s)
    BY <1>1 DEF UsoBien
  <1>3. ~Pertenece(s, i)
    OBVIOUS
  <1> HIDE DEF s
  <1>4. /\ s \in Seq(Slots) /\ Len(s) \in 0 .. CAPACITY
        /\ d.lru_head = IF Len(s) = 0 THEN SLOT_NONE ELSE s[1]
    <2>1. DatosDoble(SigUso(d), AntUso(d), d.lru_head, d.lru_tail, s)
      BY ONLY <1>2, DobleDatos, Zenon
    <2>2. QED
      BY <2>1, Zenon DEF DatosDoble
  <1>5. \A n \in 1 .. Len(s) : s[n] # i
    BY <1>3, <1>4, PerteneceBien, Zenon
  <1>6. d.lru_head # i
    <2>1. Len(s) # 0 => 1 \in 1 .. Len(s)
      BY <1>4
    <2>2. QED
      BY <1>4, <1>5, <2>1, Numeros, Zenon
  <1>7. /\ e \in Estado
        /\ MismosDatos(d, e)
        /\ MismaSalida(d, e)
        /\ e.lru_head = i
        /\ e.lru_tail = IF d.lru_tail = SLOT_NONE THEN i ELSE d.lru_tail
        /\ \A j \in Slots :
             /\ SigHash(e)[j] = SigHash(d)[j]
             /\ SigUso(e)[j] = IF j = i THEN d.lru_head ELSE SigUso(d)[j]
             /\ AntUso(e)[j] = IF j = i THEN SLOT_NONE ELSE IF j = d.lru_head THEN i ELSE AntUso(d)[j]
    <2>1. TrasFront(d, LruPushFront(d, i), i)
      BY <1>1, <1>6, CamposFront, Zenon
    <2>2. TrasFront(d, e, i)
      BY <2>1
    <2>3. QED
      BY ONLY <2>2, Zenon DEF TrasFront
  <1>8. EsDoble(SigUso(e), AntUso(e), e.lru_head, e.lru_tail, Pon(i, s))
    <2>1. \A j \in Slots : SigUso(e)[j] = IF j = i THEN d.lru_head ELSE SigUso(d)[j]
      BY <1>7, Zenon
    <2>2. \A j \in Slots : AntUso(e)[j] =
            IF j = i THEN SLOT_NONE ELSE IF j = d.lru_head THEN i ELSE AntUso(d)[j]
      BY <1>7, Zenon
    <2>3. e.lru_tail = IF d.lru_tail = SLOT_NONE THEN i ELSE d.lru_tail
      BY <1>7, Zenon
    <2>4. i \in Slots
      OBVIOUS
    <2>5. Antepone(SigUso(d), AntUso(d), d.lru_head, d.lru_tail, i,
                   SigUso(e), AntUso(e), e.lru_tail)
      BY <2>1, <2>2, <2>3, Zenon DEF Antepone
    <2>6. EsDoble(SigUso(e), AntUso(e), i, e.lru_tail, Pon(i, s))
      BY ONLY <1>2, <1>5, <2>4, <2>5, DoblePon, Zenon
    <2>7. QED
      BY <1>7, <2>6, Zenon
  <1>9. Uso(e) = Pon(i, s)
    <2>1. EsLista(SigUso(e), e.lru_head, Pon(i, s))
      BY <1>8, Zenon DEF EsDoble
    <2>2. Lista(SigUso(e), e.lru_head) = Pon(i, s)
      BY ONLY <2>1, ListaBien, Zenon
    <2>3. QED
      BY <2>2 DEF Uso
  <1>10. UsoBien(e)
    BY <1>8, <1>9, Zenon DEF UsoBien
  <1>11. LibresBien(e) /\ CadenasBien(e) /\ Libres(e) = Libres(d) /\ MismasCadenas(d, e)
    BY <1>1, <1>7, MismosHash, Zenon
  <1>12. Ajenas(e)
    BY <1>1, <1>7, <1>11, MismasAjenas, Zenon
  <1>13. QED
    BY <1>7, <1>9, <1>10, <1>11, <1>12, Zenon DEF Enlazado, s, MismaSalida

\* hash_unlink
LEMMA PasoHash ==
  ASSUME NEW d, Enlazado(d), NEW b \in Slots, NEW p \in 1 .. Len(Cadena(d, b)),
         NEW i, i = Cadena(d, b)[p], NEW e, e = HashUnlink(d, i)
  PROVE  /\ Enlazado(e)
         /\ Uso(e) = Uso(d)
         /\ Libres(e) = Libres(d) /\ MismosDatos(d, e)
         /\ \A c \in Slots : Cadena(e, c) = IF c = b THEN Saca(Cadena(d, b), p) ELSE Cadena(d, c)
         /\ e.free_head = d.free_head
  <1>1. d \in Estado /\ UsoBien(d) /\ LibresBien(d) /\ CadenasBien(d) /\ Ajenas(d)
    BY DEF Enlazado
  <1> DEFINE s == Cadena(d, b)
  <1>2. EsLista(SigHash(d), d.buckets[b], s)
    BY <1>1 DEF CadenasBien
  <1>3. p \in 1 .. Len(s) /\ i = s[p]
    OBVIOUS
  <1>4. \A c, x \in Slots : Pertenece(Cadena(d, c), x) =>
          /\ d.slots[x].clave \in Claves /\ Hash[d.slots[x].clave] = c
          /\ ~Pertenece(Libres(d), x)
    BY <1>1, Zenon DEF Ajenas
  <1> HIDE DEF s
  <1>5. /\ s \in Seq(Slots) /\ Len(s) \in 0 .. CAPACITY
        /\ \A n \in 1 .. Len(s) : s[n] \in Slots /\ s[n] # SLOT_NONE
    BY <1>2, ListaDatos, Zenon
  <1>6. /\ d.buckets[b] = IF Len(s) = 0 THEN SLOT_NONE ELSE s[1]
        /\ \A n \in 1 .. Len(s) : SigHash(d)[s[n]] = IF n = Len(s) THEN SLOT_NONE ELSE s[n + 1]
        /\ \A m, n \in 1 .. Len(s) : s[m] = s[n] => m = n
    BY <1>2, Zenon DEF EsLista
  <1>7. \A x : Pertenece(s, x) <=> \E n \in 1 .. Len(s) : s[n] = x
    BY <1>5, PerteneceBien, Zenon
  <1>8. i \in Slots /\ Pertenece(s, i) /\ b = Hash[d.slots[i].clave]
    <2>1. i \in Slots /\ Pertenece(s, i)
      BY <1>3, <1>5, <1>7, Zenon
    <2>2. QED
      BY <1>4, <2>1, Zenon DEF s
  <1>9. /\ e \in Estado
        /\ MismosDatos(d, e)
        /\ MismoUso(d, e)
        /\ e.free_head = d.free_head
        /\ \A c \in Slots : e.buckets[c] =
             IF c = b /\ d.buckets[b] = i THEN SigHash(d)[i] ELSE d.buckets[c]
        /\ \A j \in Slots : SigHash(e)[j] =
             IF SigHash(d)[j] = i /\ Pertenece(s, j) THEN SigHash(d)[i] ELSE SigHash(d)[j]
    <2>1. TrasHash(d, HashUnlink(d, i), i, b)
      BY <1>1, <1>8, CamposHash, Zenon
    <2>2. TrasHash(d, e, i, b)
      BY <2>1
    <2>3. QED
      BY ONLY <2>2, Zenon DEF TrasHash, s
  <1>10. UsoBien(e) /\ Uso(e) = Uso(d)
    BY <1>1, <1>9, MismosUsos, Zenon
  <1>11. EsLista(SigHash(e), e.buckets[b], Saca(s, p))
    <2>1. ASSUME NEW n \in 1 .. Len(s), n # p
          PROVE  SigHash(e)[s[n]] = IF n = p - 1 THEN SigHash(d)[s[p]] ELSE SigHash(d)[s[n]]
      <3>1. SigHash(e)[s[n]] = IF SigHash(d)[s[n]] = i THEN SigHash(d)[i] ELSE SigHash(d)[s[n]]
        BY <1>5, <1>7, <1>9, Zenon
      <3>2. SigHash(d)[s[n]] = i <=> n = p - 1
        <4>1. CASE n = Len(s)
          <5>1. n # p - 1
            BY <1>3, <1>5, <4>1
          <5>2. QED
            BY <1>3, <1>5, <1>6, <4>1, <5>1, Zenon
        <4>2. CASE n # Len(s)
          <5>1. n + 1 \in 1 .. Len(s) /\ (n + 1 = p <=> n = p - 1)
            BY <1>3, <1>5, <4>2
          <5>2. SigHash(d)[s[n]] = s[n + 1]
            BY <1>6, <4>2, Zenon
          <5>3. QED
            BY <1>3, <1>6, <5>1, <5>2, Zenon
        <4>3. QED
          BY <4>1, <4>2
      <3>3. QED
        BY <1>3, <3>1, <3>2, Zenon
    <2>2. e.buckets[b] = IF p = 1 THEN SigHash(d)[s[p]] ELSE d.buckets[b]
      <3>1. d.buckets[b] = i <=> p = 1
        <4>1. 1 \in 1 .. Len(s) /\ Len(s) # 0
          BY <1>3, <1>5
        <4>2. QED
          BY <1>3, <1>6, <4>1, Zenon
      <3>2. QED
        BY <1>3, <1>9, <3>1, Zenon
    <2>3. p \in 1 .. Len(s)
      BY <1>3
    <2>4. QED
      BY ONLY <1>2, <2>1, <2>2, <2>3, EsSaca, Zenon
  <1>12. ASSUME NEW c \in Slots, c # b
         PROVE  EsLista(SigHash(e), e.buckets[c], Cadena(d, c))
    <2> DEFINE r == Cadena(d, c)
    <2>1. EsLista(SigHash(d), d.buckets[c], r)
      BY <1>1 DEF CadenasBien
    <2> HIDE DEF r
    <2>2. r \in Seq(Slots) /\ \A n \in 1 .. Len(r) : r[n] \in Slots
      BY <2>1, ListaDatos, Zenon
    <2>3. \A n \in 1 .. Len(r) : ~Pertenece(s, r[n])
      <3>1. \A n \in 1 .. Len(r) : Pertenece(r, r[n])
        BY <2>2, PerteneceBien, Zenon
      <3>2. QED
        BY <1>4, <1>12, <2>2, <3>1, Zenon DEF r, s
    <2>4. \A n \in 1 .. Len(r) : SigHash(e)[r[n]] = SigHash(d)[r[n]]
      BY <1>9, <2>2, <2>3, Zenon
    <2>5. e.buckets[c] = d.buckets[c]
      BY <1>9, <1>12, Zenon
    <2>6. EsLista(SigHash(e), d.buckets[c], r)
      BY ONLY <2>1, <2>4, EsIgual, Zenon
    <2>7. QED
      BY <2>5, <2>6, Zenon DEF r
  <1>13. EsLista(SigHash(e), e.free_head, Libres(d))
    <2> DEFINE r == Libres(d)
    <2>1. EsLista(SigHash(d), d.free_head, r)
      BY <1>1 DEF LibresBien
    <2> HIDE DEF r
    <2>2. r \in Seq(Slots) /\ \A n \in 1 .. Len(r) : r[n] \in Slots
      BY <2>1, ListaDatos, Zenon
    <2>3. \A n \in 1 .. Len(r) : ~Pertenece(s, r[n])
      <3>1. \A n \in 1 .. Len(r) : Pertenece(r, r[n])
        BY <2>2, PerteneceBien, Zenon
      <3>2. QED
        BY <1>4, <2>2, <3>1, Zenon DEF r, s
    <2>4. \A n \in 1 .. Len(r) : SigHash(e)[r[n]] = SigHash(d)[r[n]]
      BY <1>9, <2>2, <2>3, Zenon
    <2>5. EsLista(SigHash(e), d.free_head, r)
      BY ONLY <2>1, <2>4, EsIgual, Zenon
    <2>6. QED
      BY <1>9, <2>5, Zenon DEF r
  <1>14. Libres(e) = Libres(d)
    BY <1>13, ListaBien, Zenon DEF Libres
  <1>15. \A c \in Slots : Cadena(e, c) = IF c = b THEN Saca(s, p) ELSE Cadena(d, c)
    <2>1. Cadena(e, b) = Saca(s, p)
      BY <1>11, ListaBien, Zenon DEF Cadena
    <2>2. ASSUME NEW c \in Slots, c # b
          PROVE  Cadena(e, c) = Cadena(d, c)
      <3> DEFINE r == Cadena(d, c)
      <3>1. EsLista(SigHash(e), e.buckets[c], r)
        BY <1>12, <2>2
      <3> HIDE DEF r
      <3>2. Lista(SigHash(e), e.buckets[c]) = r
        BY ONLY <3>1, ListaBien, Zenon
      <3>3. QED
        BY <3>2 DEF r, Cadena
    <2>3. QED
      BY <2>1, <2>2, Zenon
  <1>16. CadenasBien(e)
    BY <1>11, <1>12, <1>15, Zenon DEF CadenasBien
  <1>17. Ajenas(e)
    <2>1. \A x : Pertenece(Saca(s, p), x) => Pertenece(s, x)
      BY <1>3, <1>5, <1>6, PerteneceSaca, Zenon
    <2>2. ASSUME NEW c \in Slots, NEW x \in Slots, Pertenece(Cadena(e, c), x)
          PROVE  Pertenece(Cadena(d, c), x)
      BY <1>15, <2>1, <2>2, Zenon DEF s
    <2>3. \A x \in Slots : e.slots[x].clave = d.slots[x].clave
      BY <1>9, Zenon DEF MismosDatos
    <2>4. QED
      BY <1>4, <1>14, <2>2, <2>3, Zenon DEF Ajenas
  <1>18. LibresBien(e)
    BY <1>13, <1>14, Zenon DEF LibresBien
  <1>19. QED
    BY <1>9, <1>10, <1>14, <1>15, <1>16, <1>17, <1>18, Zenon DEF Enlazado, s

\* The links of a slot that isn't in the list may be any.
LEMMA EsSalvo ==
  ASSUME NEW sig, NEW h, NEW s, EsLista(sig, h, s), NEW i, ~Pertenece(s, i),
         NEW sig2, \A j \in Slots \ {i} : sig2[j] = sig[j]
  PROVE  EsLista(sig2, h, s)
  <1>1. s \in Seq(Slots) /\ \A n \in 1 .. Len(s) : s[n] \in Slots
    BY ListaDatos, Zenon
  <1>2. \A n \in 1 .. Len(s) : Pertenece(s, s[n])
    BY <1>1, PerteneceBien, Zenon
  <1>3. \A n \in 1 .. Len(s) : s[n] \in Slots \ {i}
    BY <1>1, <1>2, Zenon
  <1>4. \A n \in 1 .. Len(s) : sig2[s[n]] = sig[s[n]]
    BY <1>3, Zenon
  <1>5. EsLista(sig, h, s)
    OBVIOUS
  <1>6. QED
    BY <1>4, <1>5, Zenon DEF EsLista

\* The first of the free list leaves it.
LEMMA PasoSaca ==
  ASSUME NEW d, Enlazado(d), NEW i \in Slots, d.free_head = i, NEW e, e = SacaLibre(d)
  PROVE  /\ Enlazado(e)
         /\ Uso(e) = Uso(d) /\ MismasCadenas(d, e) /\ MismosDatos(d, e)
         /\ 1 \in 1 .. Len(Libres(d)) /\ Libres(d)[1] = i
         /\ Libres(e) = Saca(Libres(d), 1)
  <1>1. d \in Estado /\ UsoBien(d) /\ LibresBien(d) /\ CadenasBien(d) /\ Ajenas(d)
    BY DEF Enlazado
  <1> DEFINE s == Libres(d)
  <1>2. EsLista(SigHash(d), d.free_head, s)
    BY <1>1 DEF LibresBien
  <1> HIDE DEF s
  <1>3. s \in Seq(Slots) /\ 1 \in 1 .. Len(s) /\ i = s[1]
    <2>1. d.free_head # SLOT_NONE
      BY Numeros, Zenon
    <2>2. /\ s \in Seq(Slots)
          /\ d.free_head # SLOT_NONE => d.free_head = s[1] /\ 1 \in 1 .. Len(s)
      BY <1>2, ListaDatos, Zenon
    <2>3. QED
      BY <2>1, <2>2
  <1>4. /\ e \in Estado
        /\ MismosDatos(d, e)
        /\ MismoUso(d, e)
        /\ e.buckets = d.buckets
        /\ e.free_head = SigHash(d)[i]
        /\ \A j \in Slots : SigHash(e)[j] = SigHash(d)[j]
    <2>1. TrasSaca(d, SacaLibre(d), i)
      BY <1>1, CamposSaca, Zenon
    <2>2. TrasSaca(d, e, i)
      BY <2>1
    <2>3. QED
      BY ONLY <2>2, Zenon DEF TrasSaca
  <1>5. UsoBien(e) /\ Uso(e) = Uso(d)
    BY <1>1, <1>4, MismosUsos, Zenon
  <1>6. EsLista(SigHash(e), e.free_head, Saca(s, 1))
    <2> DEFINE p == 1
    <2>1. ASSUME NEW n \in 1 .. Len(s), n # p
          PROVE  SigHash(e)[s[n]] = IF n = p - 1 THEN SigHash(d)[s[p]] ELSE SigHash(d)[s[n]]
      <3>1. n # p - 1
        BY <1>3
      <3>2. s[n] \in Slots
        BY <1>3
      <3>3. QED
        BY <1>4, <3>1, <3>2, Zenon
    <2>2. e.free_head = IF p = 1 THEN SigHash(d)[s[p]] ELSE d.free_head
      BY <1>3, <1>4
    <2>3. p \in 1 .. Len(s)
      BY <1>3
    <2>4. EsLista(SigHash(e), e.free_head, Saca(s, p))
      <3> HIDE DEF p
      <3>1. QED
        BY ONLY <1>2, <2>1, <2>2, <2>3, EsSaca, Zenon
    <2>5. QED
      BY <2>4
  <1>7. Libres(e) = Saca(s, 1)
    <2> DEFINE r == Saca(s, 1)
    <2>1. EsLista(SigHash(e), e.free_head, r)
      BY <1>6
    <2> HIDE DEF r
    <2>2. Lista(SigHash(e), e.free_head) = r
      BY ONLY <2>1, ListaBien, Zenon
    <2>3. QED
      BY <2>2 DEF Libres, r
  <1>8. ASSUME NEW b \in Slots
        PROVE  EsLista(SigHash(e), e.buckets[b], Cadena(d, b)) /\ Cadena(e, b) = Cadena(d, b)
    <2> DEFINE r == Cadena(d, b)
    <2>1. EsLista(SigHash(d), d.buckets[b], r)
      BY <1>1 DEF CadenasBien
    <2> HIDE DEF r
    <2>2. \A n \in 1 .. Len(r) : r[n] \in Slots
      BY <2>1, ListaDatos, Zenon
    <2>3. \A n \in 1 .. Len(r) : SigHash(e)[r[n]] = SigHash(d)[r[n]]
      BY <1>4, <2>2, Zenon
    <2>4. EsLista(SigHash(e), d.buckets[b], r)
      BY ONLY <2>1, <2>3, EsIgual, Zenon
    <2>5. EsLista(SigHash(e), e.buckets[b], r)
      BY <1>4, <2>4, Zenon
    <2>6. Lista(SigHash(e), e.buckets[b]) = r
      BY ONLY <2>5, ListaBien, Zenon
    <2>7. QED
      BY <2>5, <2>6, Zenon DEF r, Cadena
  <1>9. CadenasBien(e) /\ MismasCadenas(d, e)
    BY <1>8, Zenon DEF CadenasBien, MismasCadenas
  <1>10. LibresBien(e)
    BY <1>6, <1>7, Zenon DEF LibresBien
  <1>11. Ajenas(e)
    <2>1. \A m, n \in 1 .. Len(s) : s[m] = s[n] => m = n
      BY <1>2, Zenon DEF EsLista
    <2>2. \A x : Pertenece(Saca(s, 1), x) => Pertenece(s, x)
      BY <1>3, <2>1, PerteneceSaca, Zenon
    <2>3. \A b, x \in Slots : Pertenece(Cadena(d, b), x) =>
            /\ d.slots[x].clave \in Claves /\ Hash[d.slots[x].clave] = b
            /\ ~Pertenece(s, x)
      BY <1>1, Zenon DEF Ajenas, s
    <2>4. \A x \in Slots : e.slots[x].clave = d.slots[x].clave
      BY <1>4, Zenon DEF MismosDatos
    <2>5. QED
      BY <1>7, <1>8, <2>2, <2>3, <2>4, Zenon DEF Ajenas
  <1>12. QED
    BY <1>3, <1>4, <1>5, <1>7, <1>9, <1>10, <1>11, Zenon DEF Enlazado, s

\* A slot that is in no list goes into the chain of a question.
LEMMA PasoMete ==
  ASSUME NEW d, Enlazado(d), NEW i \in Slots, NEW k \in Claves,
         \A b \in Slots : ~Pertenece(Cadena(d, b), i), ~Pertenece(Libres(d), i),
         NEW e, e = Mete(d, i, k)
  PROVE  /\ Enlazado(e)
         /\ Uso(e) = Uso(d) /\ Libres(e) = Libres(d)
         /\ \A c \in Slots :
              Cadena(e, c) = IF c = Hash[k] THEN Pon(i, Cadena(d, c)) ELSE Cadena(d, c)
         /\ TrasMete(d, e, i, k)
         /\ Hash[k] \in Slots
  <1>1. d \in Estado /\ UsoBien(d) /\ LibresBien(d) /\ CadenasBien(d) /\ Ajenas(d)
    BY DEF Enlazado
  <1>2. TrasMete(d, e, i, k)
    <2>1. TrasMete(d, Mete(d, i, k), i, k)
      BY <1>1, CamposMete, Zenon
    <2>2. QED
      BY <2>1
  <1> DEFINE b == Hash[k]
  <1>3. /\ e \in Estado /\ MismoUso(d, e) /\ e.free_head = d.free_head /\ b \in Slots
        /\ \A j \in Slots :
             /\ e.slots[j].clave = IF j = i THEN k ELSE d.slots[j].clave
             /\ SigHash(e)[j] = IF j = i THEN d.buckets[b] ELSE SigHash(d)[j]
             /\ e.buckets[j] = IF j = b THEN i ELSE d.buckets[j]
    BY <1>2, Zenon DEF TrasMete
  <1> HIDE DEF b
  <1>4. UsoBien(e) /\ Uso(e) = Uso(d)
    BY <1>1, <1>3, MismosUsos, Zenon
  <1>5. \A j \in Slots \ {i} : SigHash(e)[j] = SigHash(d)[j]
    BY <1>3, Zenon
  <1>6. EsLista(SigHash(e), e.free_head, Libres(d)) /\ Libres(e) = Libres(d)
    <2> DEFINE s == Libres(d)
    <2>1. EsLista(SigHash(d), d.free_head, s) /\ ~Pertenece(s, i)
      BY <1>1 DEF LibresBien
    <2> HIDE DEF s
    <2>2. EsLista(SigHash(e), d.free_head, s)
      BY ONLY <1>5, <2>1, EsSalvo, Zenon
    <2>3. EsLista(SigHash(e), e.free_head, s)
      BY <1>3, <2>2, Zenon
    <2>4. Lista(SigHash(e), e.free_head) = s
      BY ONLY <2>3, ListaBien, Zenon
    <2>5. QED
      BY <2>3, <2>4 DEF s, Libres
  <1>7. ASSUME NEW c \in Slots, c # b
        PROVE  EsLista(SigHash(e), e.buckets[c], Cadena(d, c)) /\ Cadena(e, c) = Cadena(d, c)
    <2> DEFINE s == Cadena(d, c)
    <2>1. EsLista(SigHash(d), d.buckets[c], s) /\ ~Pertenece(s, i)
      BY <1>1 DEF CadenasBien
    <2> HIDE DEF s
    <2>2. EsLista(SigHash(e), d.buckets[c], s)
      BY ONLY <1>5, <2>1, EsSalvo, Zenon
    <2>3. EsLista(SigHash(e), e.buckets[c], s)
      BY <1>3, <1>7, <2>2, Zenon
    <2>4. Lista(SigHash(e), e.buckets[c]) = s
      BY ONLY <2>3, ListaBien, Zenon
    <2>5. QED
      BY <2>3, <2>4 DEF s, Cadena
  <1>8. /\ EsLista(SigHash(e), e.buckets[b], Pon(i, Cadena(d, b)))
        /\ Cadena(e, b) = Pon(i, Cadena(d, b))
        /\ Cadena(d, b) \in Seq(Slots)
    <2> DEFINE s == Cadena(d, b)
    <2>1. EsLista(SigHash(d), d.buckets[b], s) /\ ~Pertenece(s, i)
      BY <1>1, <1>3 DEF CadenasBien
    <2> HIDE DEF s
    <2>2. s \in Seq(Slots) /\ \A n \in 1 .. Len(s) : s[n] \in Slots
      BY <2>1, ListaDatos, Zenon
    <2>3. \A n \in 1 .. Len(s) : Pertenece(s, s[n])
      BY <2>2, PerteneceBien, Zenon
    <2>4. \A n \in 1 .. Len(s) : s[n] # i
      BY <2>1, <2>3, Zenon
    <2>5. \A n \in 1 .. Len(s) : SigHash(e)[s[n]] = SigHash(d)[s[n]]
      BY <1>3, <2>2, <2>4, Zenon
    <2>6. SigHash(e)[i] = d.buckets[b] /\ i \in Slots /\ e.buckets[b] = i
      BY <1>3, Zenon
    <2>7. EsLista(SigHash(e), i, Pon(i, s))
      BY ONLY <2>1, <2>4, <2>5, <2>6, EsPon, Zenon
    <2>8. Lista(SigHash(e), i) = Pon(i, s)
      BY ONLY <2>7, ListaBien, Zenon
    <2>9. QED
      BY <2>2, <2>6, <2>7, <2>8, Zenon DEF s, Cadena
  <1>9. \A c \in Slots :
          Cadena(e, c) = IF c = b THEN Pon(i, Cadena(d, c)) ELSE Cadena(d, c)
    BY <1>7, <1>8, Zenon
  <1>10. CadenasBien(e)
    BY <1>7, <1>8, Zenon DEF CadenasBien
  <1>11. LibresBien(e)
    BY <1>6, Zenon DEF LibresBien
  <1>12. Ajenas(e)
    <2>1. ASSUME NEW c \in Slots, NEW x \in Slots, Pertenece(Cadena(e, c), x)
          PROVE  /\ e.slots[x].clave \in Claves /\ Hash[e.slots[x].clave] = c
                 /\ ~Pertenece(Libres(e), x)
      <3>1. CASE Pertenece(Cadena(d, c), x)
        <4>1. x # i
          BY <3>1
        <4>2. e.slots[x].clave = d.slots[x].clave
          BY <1>3, <4>1, Zenon
        <4>3. QED
          BY <1>1, <1>6, <3>1, <4>2, Zenon DEF Ajenas
      <3>2. CASE ~Pertenece(Cadena(d, c), x)
        <4>1. c = b
          BY <1>9, <2>1, <3>2, Zenon
        <4>2. Pertenece(Pon(i, Cadena(d, b)), x)
          BY <1>8, <2>1, <4>1, Zenon
        <4>3. x = i
          BY <1>8, <3>2, <4>1, <4>2, PertenecePon, Zenon
        <4>4. e.slots[x].clave = k
          BY <1>3, <4>3, Zenon
        <4>5. QED
          BY <1>6, <4>1, <4>3, <4>4, Zenon DEF b
      <3>3. QED
        BY <3>1, <3>2
    <2>2. QED
      BY <2>1, Zenon DEF Ajenas
  <1>13. QED
    BY <1>2, <1>3, <1>4, <1>6, <1>9, <1>10, <1>11, <1>12, Zenon DEF Enlazado, b

\* A slot that is in no list goes into the free one.
LEMMA PasoSuelta ==
  ASSUME NEW d, Enlazado(d), NEW i \in Slots, ~Pertenece(Uso(d), i),
         \A b \in Slots : ~Pertenece(Cadena(d, b), i), ~Pertenece(Libres(d), i),
         NEW e, e = Suelta(d, i, d.free_head)
  PROVE  /\ Enlazado(e)
         /\ Uso(e) = Uso(d) /\ MismasCadenas(d, e)
         /\ Libres(e) = Pon(i, Libres(d))
         /\ \A j \in Slots : j # i => e.slots[j] = d.slots[j]
         /\ \E h \in Enlace : e.slots[i] = Libre(h)
  <1>1. d \in Estado /\ UsoBien(d) /\ LibresBien(d) /\ CadenasBien(d) /\ Ajenas(d)
    BY DEF Enlazado
  <1> DEFINE h == d.free_head
  <1>2. /\ e \in Estado
        /\ \A j \in Slots \ {i} :
             /\ e.slots[j] = d.slots[j]
             /\ SigUso(e)[j] = SigUso(d)[j]
             /\ AntUso(e)[j] = AntUso(d)[j]
             /\ SigHash(e)[j] = SigHash(d)[j]
        /\ e.slots[i] = Libre(h)
        /\ SigHash(e)[i] = h
        /\ e.buckets = d.buckets
        /\ e.free_head = i
        /\ e.lru_head = d.lru_head
        /\ e.lru_tail = d.lru_tail
        /\ h \in Enlace
    <2>1. h \in Enlace
      BY <1>1, EnlacesTipo
    <2> HIDE DEF h
    <2>2. TrasSuelta(d, Suelta(d, i, h), i, h)
      BY <1>1, <2>1, CamposSuelta, Zenon
    <2>3. TrasSuelta(d, e, i, h)
      BY <2>2 DEF h
    <2>4. QED
      BY ONLY <2>1, <2>3, Zenon DEF TrasSuelta
  <1>3. \A j \in Slots \ {i} : SigUso(e)[j] = SigUso(d)[j]
    BY <1>2, Zenon
  <1>4. \A j \in Slots \ {i} : AntUso(e)[j] = AntUso(d)[j]
    BY <1>2, Zenon
  <1>5. \A j \in Slots \ {i} : SigHash(e)[j] = SigHash(d)[j]
    BY <1>2, Zenon
  <1>6. /\ EsDoble(SigUso(e), AntUso(e), e.lru_head, e.lru_tail, Uso(d))
        /\ Uso(e) = Uso(d)
    <2> DEFINE s == Uso(d)
               r == Reves(s)
    <2>1. EsLista(SigUso(d), d.lru_head, s) /\ EsLista(AntUso(d), d.lru_tail, r)
      BY <1>1 DEF UsoBien, EsDoble
    <2>2. ~Pertenece(s, i)
      OBVIOUS
    <2> HIDE DEF s
    <2>3. s \in Seq(Slots) /\ Len(s) \in 0 .. CAPACITY
      BY <2>1, ListaDatos, Zenon
    <2>4. ~Pertenece(r, i)
      <3>1. /\ r \in Seq(Slots) /\ Len(r) = Len(s)
            /\ \A n \in 1 .. Len(s) : r[n] = s[Len(s) + 1 - n]
        BY <2>3, RevesTipo, Zenon
      <3> HIDE DEF r
      <3>2. SUFFICES ASSUME Pertenece(r, i)
                     PROVE  FALSE
        OBVIOUS
      <3>3. PICK n \in 1 .. Len(r) : r[n] = i
        BY <3>1, <3>2, PerteneceBien, Zenon
      <3>4. Len(s) + 1 - n \in 1 .. Len(s)
        BY <2>3, <3>1
      <3>5. s[Len(s) + 1 - n] = i
        BY <3>1, <3>3, Zenon
      <3>6. QED
        BY <2>2, <2>3, <3>4, <3>5, PerteneceBien, Zenon
    <2> HIDE DEF r
    <2>5. EsLista(SigUso(e), d.lru_head, s)
      BY ONLY <1>3, <2>1, <2>2, EsSalvo, Zenon
    <2>6. EsLista(AntUso(e), d.lru_tail, r)
      BY ONLY <1>4, <2>1, <2>4, EsSalvo, Zenon
    <2>7. EsLista(SigUso(e), e.lru_head, s) /\ EsLista(AntUso(e), e.lru_tail, r)
      BY <1>2, <2>5, <2>6, Zenon
    <2>8. Lista(SigUso(e), e.lru_head) = s
      BY ONLY <2>7, ListaBien, Zenon
    <2>9. QED
      BY <2>7, <2>8, Zenon DEF EsDoble, Uso, s, r
  <1>7. UsoBien(e)
    BY <1>6, Zenon DEF UsoBien
  <1>8. ASSUME NEW b \in Slots
        PROVE  EsLista(SigHash(e), e.buckets[b], Cadena(d, b)) /\ Cadena(e, b) = Cadena(d, b)
    <2> DEFINE s == Cadena(d, b)
    <2>1. EsLista(SigHash(d), d.buckets[b], s) /\ ~Pertenece(s, i)
      BY <1>1 DEF CadenasBien
    <2> HIDE DEF s
    <2>2. EsLista(SigHash(e), d.buckets[b], s)
      BY ONLY <1>5, <2>1, EsSalvo, Zenon
    <2>3. EsLista(SigHash(e), e.buckets[b], s)
      BY <1>2, <2>2, Zenon
    <2>4. Lista(SigHash(e), e.buckets[b]) = s
      BY ONLY <2>3, ListaBien, Zenon
    <2>5. QED
      BY <2>3, <2>4 DEF s, Cadena
  <1>9. CadenasBien(e) /\ MismasCadenas(d, e)
    BY <1>8, Zenon DEF CadenasBien, MismasCadenas
  <1>10. /\ EsLista(SigHash(e), e.free_head, Pon(i, Libres(d)))
         /\ Libres(e) = Pon(i, Libres(d))
         /\ Libres(d) \in Seq(Slots)
    <2> DEFINE s == Libres(d)
    <2>1. EsLista(SigHash(d), h, s) /\ ~Pertenece(s, i)
      BY <1>1 DEF LibresBien
    <2> HIDE DEF s, h
    <2>2. s \in Seq(Slots) /\ \A n \in 1 .. Len(s) : s[n] \in Slots
      BY <2>1, ListaDatos, Zenon
    <2>3. \A n \in 1 .. Len(s) : Pertenece(s, s[n])
      BY <2>2, PerteneceBien, Zenon
    <2>4. \A n \in 1 .. Len(s) : s[n] # i
      BY <2>1, <2>3, Zenon
    <2>5. \A n \in 1 .. Len(s) : SigHash(e)[s[n]] = SigHash(d)[s[n]]
      BY <1>5, <2>2, <2>4
    <2>6. SigHash(e)[i] = h /\ i \in Slots /\ e.free_head = i
      BY <1>2, Zenon
    <2>7. EsLista(SigHash(e), i, Pon(i, s))
      BY ONLY <2>1, <2>4, <2>5, <2>6, EsPon, Zenon
    <2>8. Lista(SigHash(e), i) = Pon(i, s)
      BY ONLY <2>7, ListaBien, Zenon
    <2>9. QED
      BY <2>2, <2>6, <2>7, <2>8, Zenon DEF s, Libres
  <1>11. LibresBien(e)
    BY <1>10, Zenon DEF LibresBien
  <1>12. Ajenas(e)
    <2>1. ASSUME NEW c \in Slots, NEW x \in Slots, Pertenece(Cadena(e, c), x)
          PROVE  /\ e.slots[x].clave \in Claves /\ Hash[e.slots[x].clave] = c
                 /\ ~Pertenece(Libres(e), x)
      <3>1. Pertenece(Cadena(d, c), x)
        BY <1>8, <2>1, Zenon
      <3>2. x # i
        BY <3>1
      <3>3. e.slots[x] = d.slots[x]
        BY <1>2, <3>2
      <3>4. /\ d.slots[x].clave \in Claves /\ Hash[d.slots[x].clave] = c
            /\ ~Pertenece(Libres(d), x)
        BY <1>1, <3>1, Zenon DEF Ajenas
      <3>5. ~Pertenece(Pon(i, Libres(d)), x)
        BY <1>10, <3>2, <3>4, PertenecePon, Zenon
      <3>6. QED
        BY <1>10, <3>3, <3>4, <3>5, Zenon
    <2>2. QED
      BY <2>1, Zenon DEF Ajenas
  <1>13. \A j \in Slots : j # i => e.slots[j] = d.slots[j]
    BY <1>2
  <1>14. QED
    BY <1>2, <1>6, <1>7, <1>9, <1>10, <1>11, <1>12, <1>13, Zenon DEF Enlazado

LEMMA PasoRellena ==
  ASSUME NEW d, Enlazado(d), NEW i \in Slots, NEW m \in SeGuardan, now \in 0 .. MaxNow,
         NEW e, e = Rellena(d, i, m)
  PROVE  /\ Enlazado(e)
         /\ Uso(e) = Uso(d) /\ Libres(e) = Libres(d) /\ MismasCadenas(d, e)
         /\ TrasRellena(d, e, i, m)
  <1>1. d \in Estado /\ UsoBien(d) /\ LibresBien(d) /\ CadenasBien(d) /\ Ajenas(d)
    BY DEF Enlazado
  <1>2. TrasRellena(d, e, i, m)
    <2>1. TrasRellena(d, Rellena(d, i, m), i, m)
      BY <1>1, CamposRellena, Zenon
    <2>2. QED
      BY <2>1
  <1>3. /\ e \in Estado /\ MismoUso(d, e) /\ MismaSalida(d, e)
        /\ \A j \in Slots : SigHash(e)[j] = SigHash(d)[j] /\ e.slots[j].clave = d.slots[j].clave
    BY <1>2, Zenon DEF TrasRellena
  <1>4. UsoBien(e) /\ Uso(e) = Uso(d)
    BY <1>1, <1>3, MismosUsos, Zenon
  <1>5. LibresBien(e) /\ CadenasBien(e) /\ Libres(e) = Libres(d) /\ MismasCadenas(d, e)
    BY <1>1, <1>3, MismosHash, Zenon
  <1>6. Ajenas(e)
    <2>1. ASSUME NEW c \in Slots, NEW x \in Slots, Pertenece(Cadena(e, c), x)
          PROVE  /\ e.slots[x].clave \in Claves /\ Hash[e.slots[x].clave] = c
                 /\ ~Pertenece(Libres(e), x)
      <3>1. Pertenece(Cadena(d, c), x)
        BY <1>5, <2>1, Zenon DEF MismasCadenas
      <3>2. /\ d.slots[x].clave \in Claves /\ Hash[d.slots[x].clave] = c
            /\ ~Pertenece(Libres(d), x)
        BY <1>1, <3>1, Zenon DEF Ajenas
      <3>3. e.slots[x].clave = d.slots[x].clave
        BY <1>3, Zenon
      <3>4. QED
        BY <1>5, <3>2, <3>3, Zenon
    <2>2. QED
      BY <2>1, Zenon DEF Ajenas
  <1>7. QED
    BY <1>2, <1>3, <1>4, <1>5, <1>6, Zenon DEF Enlazado

-----------------------------------------------------------------------------
(***************************************************************************)
(* The invariant, and what each operation does to it                       *)
(***************************************************************************)
EnUso(d, i) == Pertenece(Uso(d), i)
EstaLibre(d, i) == Pertenece(Libres(d), i)

\* A slot in use is in the chain of its question's bucket, and in no other.
EnSuCadena(d) ==
  \A i, b \in Slots : Pertenece(Cadena(d, b), i) <=> EnUso(d, i) /\ Hash[d.slots[i].clave] = b

\* What a slot in use holds, at each instant u.
Lleno(s, u) ==
  /\ s.clave \in Claves
  /\ s.resp \in SeGuardan
  /\ s.inserted \in 0 .. u
  /\ s.expiry = s.inserted + TtlEfectivo(MinTtl[s.resp])

Guardado(d, u) ==
  /\ \A i \in Slots : EnUso(d, i) => Lleno(d.slots[i], u)
  /\ \A i \in Slots : EstaLibre(d, i) => d.slots[i].clave = Nada
  /\ \A i, j \in Slots :
       EnUso(d, i) /\ EnUso(d, j) /\ d.slots[i].clave = d.slots[j].clave => i = j

\* Every slot is in use or free, but for slot i, which is neither.
Hueco(d, i, u) ==
  /\ Enlazado(d)
  /\ ~EnUso(d, i) /\ ~EstaLibre(d, i)
  /\ \A j \in Slots : j # i => (EnUso(d, j) <=> ~EstaLibre(d, j))
  /\ Len(Uso(d)) + Len(Libres(d)) + 1 = CAPACITY
  /\ EnSuCadena(d)
  /\ Guardado(d, u)

Entera(d, u) ==
  /\ Enlazado(d)
  /\ \A j \in Slots : EnUso(d, j) <=> ~EstaLibre(d, j)
  /\ Len(Uso(d)) + Len(Libres(d)) = CAPACITY
  /\ EnSuCadena(d)
  /\ Guardado(d, u)

CacheInvariante == now \in 0 .. MaxNow /\ Entera(s_cache, now)

LEMMA UsoDatos ==
  ASSUME NEW d, Enlazado(d)
  PROVE  /\ d \in Estado
         /\ Uso(d) \in Seq(Slots) /\ Len(Uso(d)) \in 0 .. CAPACITY
         /\ \A m, n \in 1 .. Len(Uso(d)) : Uso(d)[m] = Uso(d)[n] => m = n
         /\ \A n \in 1 .. Len(Uso(d)) : Uso(d)[n] \in Slots /\ EnUso(d, Uso(d)[n])
         /\ \A i : EnUso(d, i) <=> \E n \in 1 .. Len(Uso(d)) : Uso(d)[n] = i
         /\ Libres(d) \in Seq(Slots) /\ Len(Libres(d)) \in 0 .. CAPACITY
         /\ \A b \in Slots : Cadena(d, b) \in Seq(Slots)
         /\ \A m, n \in 1 .. Len(Libres(d)) : Libres(d)[m] = Libres(d)[n] => m = n
  <1>1. d \in Estado /\ UsoBien(d) /\ LibresBien(d) /\ CadenasBien(d)
    BY DEF Enlazado
  <1>2. EsDoble(SigUso(d), AntUso(d), d.lru_head, d.lru_tail, Uso(d))
    BY <1>1 DEF UsoBien
  <1>3. EsLista(SigUso(d), d.lru_head, Uso(d))
    BY <1>2 DEF EsDoble
  <1> DEFINE s == Uso(d)
  <1>4. EsLista(SigUso(d), d.lru_head, s)
    BY <1>3
  <1>5. EnUso(d, 0) <=> Pertenece(s, 0)
    BY DEF EnUso
  <1> HIDE DEF s
  <1>6. /\ s \in Seq(Slots) /\ Len(s) \in 0 .. CAPACITY
        /\ \A n \in 1 .. Len(s) : s[n] \in Slots
    BY <1>4, ListaDatos, Zenon
  <1>7. \A m, n \in 1 .. Len(s) : s[m] = s[n] => m = n
    BY <1>4, Zenon DEF EsLista
  <1>8. /\ \A x : Pertenece(s, x) <=> \E n \in 1 .. Len(s) : s[n] = x
        /\ \A n \in 1 .. Len(s) : Pertenece(s, s[n])
    BY <1>6, PerteneceBien, Zenon
  <1> DEFINE r == Libres(d)
  <1>9. EsLista(SigHash(d), d.free_head, r)
    BY <1>1 DEF LibresBien
  <1> HIDE DEF r
  <1>10. r \in Seq(Slots) /\ Len(r) \in 0 .. CAPACITY
    BY <1>9, ListaDatos, Zenon
  <1>11. \A m, n \in 1 .. Len(r) : r[m] = r[n] => m = n
    BY <1>9, Zenon DEF EsLista
  <1>12. ASSUME NEW b \in Slots
         PROVE  Cadena(d, b) \in Seq(Slots)
    <2>1. EsLista(SigHash(d), d.buckets[b], Cadena(d, b))
      BY <1>1 DEF CadenasBien
    <2>2. QED
      BY <2>1, ListaDatos, Zenon
  <1>13. QED
    BY <1>1, <1>6, <1>7, <1>8, <1>10, <1>11, <1>12, Zenon DEF s, r, EnUso

LEMMA HashTipo ==
  ASSUME NEW k \in Claves
  PROVE  Hash[k] \in Slots
  <1>1. Hash \in [Claves -> 0 .. CAPACITY - 1]
    BY CacheAssumption
  <1>2. QED
    BY <1>1 DEF Slots

\* cache_get, cache_put: where a question is found.
LEMMA BuscaBien ==
  ASSUME NEW d, NEW u, Entera(d, u), NEW k \in Claves
  PROVE  \/ /\ Busca(d, k) = SLOT_NONE
            /\ \A i \in Slots : EnUso(d, i) => d.slots[i].clave # k
         \/ /\ Busca(d, k) \in Slots
            /\ EnUso(d, Busca(d, k))
            /\ d.slots[Busca(d, k)].clave = k
  <1> DEFINE l == Cadena(d, Hash[k])
             lugares == {n \in DOMAIN l : d.slots[l[n]].clave = k}
  <1>1. Enlazado(d) /\ EnSuCadena(d)
    BY DEF Entera
  <1>2. Hash[k] \in Slots
    BY HashTipo
  <1>3. l \in Seq(Slots)
    BY <1>1, <1>2, UsoDatos, Zenon
  <1>4. Busca(d, k) = IF lugares = {} THEN SLOT_NONE ELSE l[Min(lugares)]
    BY Zenon DEF Busca, Primero
  <1>5. \A i \in Slots : Pertenece(l, i) <=> EnUso(d, i) /\ Hash[d.slots[i].clave] = Hash[k]
    BY <1>1, <1>2, Zenon DEF EnSuCadena
  <1> HIDE DEF l
  <1>6. lugares \in SUBSET Nat
    BY <1>3
  <1>7. CASE lugares = {}
    <2>1. ASSUME NEW i \in Slots, EnUso(d, i), d.slots[i].clave = k
          PROVE  FALSE
      <3>1. Pertenece(l, i)
        BY <1>5, <2>1, Zenon
      <3>2. QED
        BY <1>7, <2>1, <3>1, Zenon DEF Pertenece
    <2>2. QED
      BY <1>4, <1>7, <2>1, Zenon
  <1>8. CASE lugares # {}
    <2> DEFINE n == Min(lugares)
    <2>1. n \in lugares
      <3> HIDE DEF lugares
      <3>1. QED
        BY <1>6, <1>8, MinTipo
    <2>2. n \in DOMAIN l /\ d.slots[l[n]].clave = k
      BY <2>1
    <2>3. Busca(d, k) = l[n]
      BY <1>4, <1>8, Zenon
    <2> HIDE DEF n
    <2>4. l[n] \in Slots
      BY <1>3, <2>2
    <2>5. Pertenece(l, l[n])
      BY <2>2, Zenon DEF Pertenece
    <2>6. EnUso(d, l[n])
      BY <1>5, <2>4, <2>5, Zenon
    <2>7. QED
      BY <2>2, <2>3, <2>4, <2>6, Zenon
  <1>9. QED
    BY <1>7, <1>8

\* A slot's place in order of use is refreshed.
LEMMA AlFrenteBien ==
  ASSUME NEW d, NEW u, Entera(d, u), NEW p \in 1 .. Len(Uso(d)), NEW i, i = Uso(d)[p],
         NEW e, e = AlFrente(d, i)
  PROVE  /\ Entera(e, u)
         /\ Uso(e) = Pon(i, Saca(Uso(d), p))
         /\ MismosDatos(d, e)
  <1>1. /\ Enlazado(d) /\ EnSuCadena(d) /\ Guardado(d, u)
        /\ \A j \in Slots : EnUso(d, j) <=> ~EstaLibre(d, j)
        /\ Len(Uso(d)) + Len(Libres(d)) = CAPACITY
    BY DEF Entera
  <1> DEFINE c == LruUnlink(d, i)
             s == Uso(d)
             r == Saca(s, p)
  <1>2. e = LruPushFront(c, i)
    BY DEF AlFrente
  <1>3. /\ Enlazado(c) /\ Uso(c) = r
        /\ Libres(c) = Libres(d) /\ MismasCadenas(d, c) /\ MismosDatos(d, c)
    <2>1. c = LruUnlink(d, i) /\ p \in 1 .. Len(Uso(d)) /\ i = Uso(d)[p]
      OBVIOUS
    <2> HIDE DEF c
    <2>2. QED
      BY ONLY <1>1, <2>1, PasoUnlink, Zenon DEF r, s
  <1> HIDE DEF c
  <1>4. /\ s \in Seq(Slots) /\ Len(s) \in 0 .. CAPACITY
        /\ \A m, n \in 1 .. Len(s) : s[m] = s[n] => m = n
        /\ i \in Slots /\ EnUso(d, i)
    BY <1>1, UsoDatos, Zenon
  <1>5. p \in 1 .. Len(s) /\ i = s[p]
    OBVIOUS
  <1> HIDE DEF s
  <1>6. /\ r \in Seq(Slots) /\ Len(r) = Len(s) - 1
        /\ \A x : Pertenece(r, x) <=> Pertenece(s, x) /\ x # i
    <2>1. r \in Seq(Slots) /\ Len(r) = Len(s) - 1
      BY <1>4, <1>5, SacaTipo, Zenon
    <2>2. \A x : Pertenece(r, x) <=> Pertenece(s, x) /\ x # s[p]
      BY <1>4, <1>5, PerteneceSaca, Zenon
    <2>3. QED
      BY <1>5, <2>1, <2>2, Zenon
  <1> HIDE DEF r
  <1>7. ~Pertenece(Uso(c), i)
    BY <1>3, <1>6, Zenon
  <1>8. /\ Enlazado(e) /\ Uso(e) = Pon(i, r)
        /\ Libres(e) = Libres(c) /\ MismasCadenas(c, e) /\ MismosDatos(c, e)
    <2>1. Enlazado(c) /\ i \in Slots /\ ~Pertenece(Uso(c), i) /\ e = LruPushFront(c, i)
      BY <1>2, <1>3, <1>4, <1>7
    <2>2. /\ Enlazado(e) /\ Uso(e) = Pon(i, Uso(c))
          /\ Libres(e) = Libres(c) /\ MismasCadenas(c, e) /\ MismosDatos(c, e)
      BY ONLY <2>1, PasoFront, Zenon
    <2>3. QED
      BY <1>3, <2>2, Zenon
  <1>9. /\ Len(Uso(e)) = Len(s)
        /\ \A x : Pertenece(Uso(e), x) <=> Pertenece(s, x)
    <2>1. Len(Pon(i, r)) = Len(r) + 1
      BY <1>4, <1>6, PonTipo, ZenonT(60)
    <2>2. \A x : Pertenece(Pon(i, r), x) <=> x = i \/ Pertenece(r, x)
      <3>1. r \in Seq(Slots) /\ i \in Slots
        BY <1>4, <1>6
      <3>2. QED
        BY ONLY <3>1, PertenecePon, Zenon
    <2>3. Len(Pon(i, r)) = Len(s)
      BY <1>4, <1>6, <2>1
    <2>4. Pertenece(s, i)
      BY <1>4 DEF EnUso, s
    <2>5. QED
      BY <1>6, <1>8, <2>2, <2>3, <2>4, Zenon
  <1>10. MismosDatos(d, e)
    BY <1>3, <1>8, Zenon DEF MismosDatos
  <1>11. \A x : (EnUso(e, x) <=> EnUso(d, x)) /\ (EstaLibre(e, x) <=> EstaLibre(d, x))
    BY <1>3, <1>8, <1>9, Zenon DEF EnUso, EstaLibre, s
  <1>12. \A b \in Slots : Cadena(e, b) = Cadena(d, b)
    BY <1>3, <1>8, Zenon DEF MismasCadenas
  <1>13. EnSuCadena(e)
    <2>1. ASSUME NEW j \in Slots, NEW b \in Slots
          PROVE  Pertenece(Cadena(e, b), j) <=> EnUso(e, j) /\ Hash[e.slots[j].clave] = b
      <3>1. Pertenece(Cadena(d, b), j) <=> EnUso(d, j) /\ Hash[d.slots[j].clave] = b
        BY <1>1, Zenon DEF EnSuCadena
      <3>2. e.slots[j].clave = d.slots[j].clave
        BY <1>10, Zenon DEF MismosDatos
      <3>3. QED
        BY <1>11, <1>12, <3>1, <3>2, Zenon
    <2>2. QED
      BY <2>1, Zenon DEF EnSuCadena
  <1>14. Guardado(e, u)
    <2>1. ASSUME NEW j \in Slots, EnUso(e, j)
          PROVE  Lleno(e.slots[j], u)
      <3>1. Lleno(d.slots[j], u)
        BY <1>1, <1>11, <2>1, Zenon DEF Guardado
      <3>2. QED
        BY <1>10, <3>1, Zenon DEF Lleno, MismosDatos
    <2>2. \A j \in Slots : EstaLibre(e, j) => e.slots[j].clave = Nada
      BY <1>1, <1>10, <1>11, Zenon DEF Guardado, MismosDatos
    <2>3. ASSUME NEW j \in Slots, NEW k \in Slots, EnUso(e, j), EnUso(e, k),
                 e.slots[j].clave = e.slots[k].clave
          PROVE  j = k
      <3>1. d.slots[j].clave = d.slots[k].clave /\ EnUso(d, j) /\ EnUso(d, k)
        BY <1>10, <1>11, <2>3, Zenon DEF MismosDatos
      <3>2. QED
        BY <1>1, <3>1, Zenon DEF Guardado
    <2>4. QED
      BY <2>1, <2>2, <2>3, Zenon DEF Guardado
  <1>15. Len(Uso(e)) + Len(Libres(e)) = CAPACITY
    BY <1>1, <1>3, <1>8, <1>9 DEF s
  <1>16. Entera(e, u)
    BY <1>1, <1>8, <1>11, <1>13, <1>14, <1>15, Zenon DEF Entera
  <1>17. QED
    BY <1>8, <1>10, <1>16 DEF r, s

\* What is kept doesn't depend on the links.
LEMMA GuardadoIgual ==
  ASSUME NEW d, NEW u, Guardado(d, u), NEW e, MismosDatos(d, e),
         \A j \in Slots : EnUso(e, j) => EnUso(d, j),
         \A j \in Slots : EstaLibre(e, j) => EstaLibre(d, j)
  PROVE  Guardado(e, u)
  <1>1. ASSUME NEW j \in Slots, EnUso(e, j)
        PROVE  Lleno(e.slots[j], u)
    <2>1. Lleno(d.slots[j], u)
      BY <1>1, Zenon DEF Guardado
    <2>2. QED
      BY <2>1, Zenon DEF Lleno, MismosDatos
  <1>2. \A j \in Slots : EstaLibre(e, j) => e.slots[j].clave = Nada
    BY Zenon DEF Guardado, MismosDatos
  <1>3. ASSUME NEW j \in Slots, NEW k \in Slots, EnUso(e, j), EnUso(e, k),
               e.slots[j].clave = e.slots[k].clave
        PROVE  j = k
    <2>1. d.slots[j].clave = d.slots[k].clave /\ EnUso(d, j) /\ EnUso(d, k)
      BY <1>3, Zenon DEF MismosDatos
    <2>2. QED
      BY <2>1, Zenon DEF Guardado
  <1>4. QED
    BY <1>1, <1>2, <1>3, Zenon DEF Guardado

\* A slot leaves its chain and the list of use (cache_get, cache_put).
LEMMA QuitaBien ==
  ASSUME NEW d, NEW u, Entera(d, u), NEW p \in 1 .. Len(Uso(d)), NEW i, i = Uso(d)[p],
         NEW e, e = LruUnlink(HashUnlink(d, i), i)
  PROVE  /\ i \in Slots
         /\ Hueco(e, i, u)
         /\ Uso(e) = Saca(Uso(d), p)
         /\ Libres(e) = Libres(d) /\ MismosDatos(d, e) /\ e.free_head = d.free_head
  <1>1. /\ Enlazado(d) /\ EnSuCadena(d) /\ Guardado(d, u)
        /\ \A j \in Slots : EnUso(d, j) <=> ~EstaLibre(d, j)
        /\ Len(Uso(d)) + Len(Libres(d)) = CAPACITY
    BY DEF Entera
  <1> DEFINE s == Uso(d)
             b == Hash[d.slots[i].clave]
             l == Cadena(d, b)
             c == HashUnlink(d, i)
  <1>2. /\ s \in Seq(Slots) /\ Len(s) \in 0 .. CAPACITY
        /\ \A m, n \in 1 .. Len(s) : s[m] = s[n] => m = n
        /\ i \in Slots /\ EnUso(d, i)
    BY <1>1, UsoDatos, Zenon
  <1>3. d.slots[i].clave \in Claves
    BY <1>1, <1>2, Zenon DEF Guardado, Lleno
  <1>4. b \in Slots
    BY <1>3, HashTipo
  <1>5. Pertenece(l, i)
    BY <1>1, <1>2, <1>4, Zenon DEF EnSuCadena
  <1>6. /\ l \in Seq(Slots)
        /\ \A m, n \in 1 .. Len(l) : l[m] = l[n] => m = n
    <2>1. EsLista(SigHash(d), d.buckets[b], l)
      BY <1>1, <1>4, Zenon DEF Enlazado, CadenasBien
    <2> HIDE DEF l
    <2>2. QED
      BY <2>1, Zenon DEF EsLista
  <1>7. PICK q \in 1 .. Len(l) : l[q] = i
    <2> HIDE DEF l
    <2>1. QED
      BY <1>5, <1>6, PerteneceBien, Zenon
  <1>8. /\ Enlazado(c) /\ Uso(c) = s /\ Libres(c) = Libres(d) /\ MismosDatos(d, c)
        /\ \A x \in Slots : Cadena(c, x) = IF x = b THEN Saca(l, q) ELSE Cadena(d, x)
        /\ c.free_head = d.free_head
    <2>1. Enlazado(d) /\ b \in Slots /\ q \in 1 .. Len(Cadena(d, b)) /\ i = Cadena(d, b)[q]
          /\ c = HashUnlink(d, i)
      BY <1>1, <1>4, <1>7
    <2> HIDE DEF c, b
    <2>2. QED
      BY ONLY <2>1, PasoHash DEF s, l
  <1>9. e = LruUnlink(c, i)
    OBVIOUS
  <1>10. p \in 1 .. Len(s) /\ i = s[p]
    OBVIOUS
  <1> HIDE DEF c
  <1>11. /\ Enlazado(e) /\ Uso(e) = Saca(s, p) /\ Libres(e) = Libres(c)
         /\ MismasCadenas(c, e) /\ MismosDatos(c, e) /\ e.free_head = c.free_head
    <2>1. Enlazado(c) /\ p \in 1 .. Len(Uso(c)) /\ i = Uso(c)[p] /\ e = LruUnlink(c, i)
      BY <1>8, <1>9
    <2>2. /\ Enlazado(e) /\ Uso(e) = Saca(Uso(c), p) /\ Libres(e) = Libres(c)
          /\ MismasCadenas(c, e) /\ MismosDatos(c, e) /\ e.free_head = c.free_head
      BY ONLY <2>1, PasoUnlink, Zenon
    <2>3. QED
      BY <1>8, <2>2, Zenon
  <1>12. MismosDatos(d, e) /\ Libres(e) = Libres(d) /\ e.free_head = d.free_head
    BY <1>8, <1>11, ZenonT(60) DEF MismosDatos
  <1> HIDE DEF s, b, l
  <1>13. /\ \A x : EnUso(e, x) <=> EnUso(d, x) /\ x # i
         /\ \A x : EstaLibre(e, x) <=> EstaLibre(d, x)
         /\ Len(Uso(e)) = Len(s) - 1
    <2>1. /\ \A x : Pertenece(Saca(s, p), x) <=> Pertenece(s, x) /\ x # s[p]
          /\ Len(Saca(s, p)) = Len(s) - 1
      BY <1>2, <1>10, PerteneceSaca, SacaTipo, Zenon
    <2>2. QED
      BY <1>10, <1>11, <1>12, <2>1, Zenon DEF EnUso, EstaLibre, s
  <1>14. ASSUME NEW x \in Slots, NEW j
         PROVE  Pertenece(Cadena(e, x), j) <=> Pertenece(Cadena(d, x), j) /\ j # i
    <2>1. Cadena(e, x) = IF x = b THEN Saca(l, q) ELSE Cadena(d, x)
      BY <1>8, <1>11, Zenon DEF MismasCadenas
    <2>2. CASE x = b
      <3>1. \A y : Pertenece(Saca(l, q), y) <=> Pertenece(l, y) /\ y # l[q]
        BY <1>6, PerteneceSaca, Zenon
      <3>2. QED
        BY <1>7, <2>1, <2>2, <3>1, Zenon DEF l
    <2>3. CASE x # b
      <3>1. ~Pertenece(Cadena(d, x), i)
        BY <1>1, <1>2, <2>3, Zenon DEF EnSuCadena, b
      <3>2. QED
        BY <2>1, <2>3, <3>1, Zenon
    <2>4. QED
      BY <2>2, <2>3
  <1>15. EnSuCadena(e)
    <2>1. ASSUME NEW j \in Slots, NEW x \in Slots
          PROVE  Pertenece(Cadena(e, x), j) <=> EnUso(e, j) /\ Hash[e.slots[j].clave] = x
      <3>1. Pertenece(Cadena(d, x), j) <=> EnUso(d, j) /\ Hash[d.slots[j].clave] = x
        BY <1>1, Zenon DEF EnSuCadena
      <3>2. e.slots[j].clave = d.slots[j].clave
        BY <1>12, Zenon DEF MismosDatos
      <3>3. QED
        BY <1>13, <1>14, <3>1, <3>2, Zenon
    <2>2. QED
      BY <2>1, Zenon DEF EnSuCadena
  <1>16. Guardado(e, u)
    <2>1. /\ Guardado(d, u) /\ MismosDatos(d, e)
          /\ \A j \in Slots : EnUso(e, j) => EnUso(d, j)
          /\ \A j \in Slots : EstaLibre(e, j) => EstaLibre(d, j)
      BY <1>1, <1>12, <1>13, Zenon
    <2>2. QED
      BY ONLY <2>1, GuardadoIgual, Zenon
  <1>17. Len(Uso(e)) + Len(Libres(e)) + 1 = CAPACITY
    <2>1. Len(s) + Len(Libres(d)) = CAPACITY /\ Len(Libres(d)) \in 0 .. CAPACITY
      BY <1>1, UsoDatos, Zenon DEF s
    <2>2. Len(Uso(e)) = Len(s) - 1 /\ Len(Libres(e)) = Len(Libres(d)) /\ Len(s) \in 0 .. CAPACITY
      BY <1>2, <1>12, <1>13, Zenon
    <2>3. CAPACITY \in Nat
      BY Numeros
    <2>4. QED
      BY ONLY <2>1, <2>2, <2>3
  <1>18. ~EnUso(e, i) /\ ~EstaLibre(e, i) /\ \A j \in Slots : j # i => (EnUso(e, j) <=> ~EstaLibre(e, j))
    BY <1>1, <1>2, <1>13, Zenon
  <1>19. Hueco(e, i, u)
    BY <1>11, <1>15, <1>16, <1>17, <1>18, Zenon DEF Hueco
  <1>20. QED
    BY <1>2, <1>11, <1>12, <1>19, Zenon DEF s

\* A free slot is taken.
LEMMA SacaBien ==
  ASSUME NEW d, NEW u, Entera(d, u), NEW i \in Slots, d.free_head = i,
         NEW e, e = SacaLibre(d)
  PROVE  /\ Hueco(e, i, u)
         /\ Uso(e) = Uso(d) /\ MismosDatos(d, e)
  <1>1. /\ Enlazado(d) /\ EnSuCadena(d) /\ Guardado(d, u)
        /\ \A j \in Slots : EnUso(d, j) <=> ~EstaLibre(d, j)
        /\ Len(Uso(d)) + Len(Libres(d)) = CAPACITY
    BY DEF Entera
  <1> DEFINE l == Libres(d)
  <1>2. /\ Enlazado(e) /\ Uso(e) = Uso(d) /\ MismasCadenas(d, e) /\ MismosDatos(d, e)
        /\ 1 \in 1 .. Len(l) /\ l[1] = i /\ Libres(e) = Saca(l, 1)
    BY <1>1, PasoSaca, Zenon
  <1>3. /\ l \in Seq(Slots) /\ Len(l) \in 0 .. CAPACITY
        /\ \A m, n \in 1 .. Len(l) : l[m] = l[n] => m = n
        /\ Len(Uso(d)) \in 0 .. CAPACITY
    BY <1>1, UsoDatos, Zenon
  <1> HIDE DEF l
  <1>4. /\ \A x : Pertenece(Saca(l, 1), x) <=> Pertenece(l, x) /\ x # l[1]
        /\ Len(Saca(l, 1)) = Len(l) - 1
    BY <1>2, <1>3, PerteneceSaca, SacaTipo, SMTT(60)
  <1>5. /\ \A x : EnUso(e, x) <=> EnUso(d, x)
        /\ \A x : EstaLibre(e, x) <=> EstaLibre(d, x) /\ x # i
    BY <1>2, <1>4, Zenon DEF EnUso, EstaLibre, l
  <1>6. EstaLibre(d, i)
    BY <1>2, <1>3, PerteneceBien, Zenon DEF EstaLibre, l
  <1>7. EnSuCadena(e)
    <2>1. ASSUME NEW j \in Slots, NEW x \in Slots
          PROVE  Pertenece(Cadena(e, x), j) <=> EnUso(e, j) /\ Hash[e.slots[j].clave] = x
      <3>1. Pertenece(Cadena(d, x), j) <=> EnUso(d, j) /\ Hash[d.slots[j].clave] = x
        BY <1>1, Zenon DEF EnSuCadena
      <3>2. e.slots[j].clave = d.slots[j].clave /\ Cadena(e, x) = Cadena(d, x)
        BY <1>2, Zenon DEF MismosDatos, MismasCadenas
      <3>3. QED
        BY <1>5, <3>1, <3>2, Zenon
    <2>2. QED
      BY <2>1, Zenon DEF EnSuCadena
  <1>8. Guardado(e, u)
    <2>1. /\ Guardado(d, u) /\ MismosDatos(d, e)
          /\ \A j \in Slots : EnUso(e, j) => EnUso(d, j)
          /\ \A j \in Slots : EstaLibre(e, j) => EstaLibre(d, j)
      BY <1>1, <1>2, <1>5, Zenon
    <2>2. QED
      BY ONLY <2>1, GuardadoIgual, Zenon
  <1>9. Len(Uso(e)) + Len(Libres(e)) + 1 = CAPACITY
    <2>1. Len(Uso(d)) + Len(l) = CAPACITY
      BY <1>1 DEF l
    <2>2. Len(Uso(e)) = Len(Uso(d)) /\ Len(Libres(e)) = Len(l) - 1
      BY <1>2, <1>4, Zenon
    <2>3. CAPACITY \in Nat
      BY Numeros
    <2>4. QED
      BY ONLY <1>3, <2>1, <2>2, <2>3
  <1>10. ~EnUso(e, i) /\ ~EstaLibre(e, i) /\ \A j \in Slots : j # i => (EnUso(e, j) <=> ~EstaLibre(e, j))
    BY <1>1, <1>5, <1>6, Zenon
  <1>11. QED
    BY <1>2, <1>7, <1>8, <1>9, <1>10, Zenon DEF Hueco

\* The data of every slot but i are the same.
OtrosDatos(d, e, i) ==
  \A j \in Slots : j # i =>
    /\ e.slots[j].clave = d.slots[j].clave
    /\ e.slots[j].resp = d.slots[j].resp
    /\ e.slots[j].inserted = d.slots[j].inserted
    /\ e.slots[j].expiry = d.slots[j].expiry

\* A slot that was in use joins the free list.
LEMMA SueltaBien ==
  ASSUME NEW d, NEW u, NEW i \in Slots, Hueco(d, i, u),
         NEW e, e = Suelta(d, i, d.free_head)
  PROVE  /\ Entera(e, u)
         /\ Uso(e) = Uso(d) /\ OtrosDatos(d, e, i)
  <1>1. /\ Enlazado(d) /\ EnSuCadena(d) /\ Guardado(d, u)
        /\ ~EnUso(d, i) /\ ~EstaLibre(d, i)
        /\ \A j \in Slots : j # i => (EnUso(d, j) <=> ~EstaLibre(d, j))
        /\ Len(Uso(d)) + Len(Libres(d)) + 1 = CAPACITY
    BY DEF Hueco
  <1>2. \A b \in Slots : ~Pertenece(Cadena(d, b), i)
    BY <1>1, Zenon DEF EnSuCadena
  <1>3. /\ Enlazado(e) /\ Uso(e) = Uso(d) /\ MismasCadenas(d, e)
        /\ Libres(e) = Pon(i, Libres(d))
        /\ \A j \in Slots : j # i => e.slots[j] = d.slots[j]
        /\ \E h \in Enlace : e.slots[i] = Libre(h)
    <2>1. Enlazado(d) /\ i \in Slots /\ ~Pertenece(Uso(d), i) /\ ~Pertenece(Libres(d), i)
          /\ e = Suelta(d, i, d.free_head)
      BY <1>1 DEF EnUso, EstaLibre
    <2>2. QED
      BY ONLY <1>2, <2>1, PasoSuelta
  <1>4. OtrosDatos(d, e, i)
    BY <1>3, Zenon DEF OtrosDatos
  <1>5. e.slots[i].clave = Nada
    BY <1>3, LibreTipo, Zenon
  <1>6. Libres(d) \in Seq(Slots) /\ Len(Libres(d)) \in 0 .. CAPACITY /\ Len(Uso(d)) \in 0 .. CAPACITY
    BY <1>1, UsoDatos, Zenon
  <1>7. /\ \A x : Pertenece(Libres(e), x) <=> x = i \/ Pertenece(Libres(d), x)
        /\ Len(Libres(e)) = Len(Libres(d)) + 1
    <2>1. \A x : Pertenece(Pon(i, Libres(d)), x) <=> x = i \/ Pertenece(Libres(d), x)
      BY <1>6, PertenecePon, Zenon
    <2>2. Len(Pon(i, Libres(d))) = Len(Libres(d)) + 1
      BY <1>6, PonTipo, Zenon
    <2>3. QED
      BY <1>3, <2>1, <2>2, Zenon
  <1>8. /\ \A x : EnUso(e, x) <=> EnUso(d, x)
        /\ \A x : EstaLibre(e, x) <=> EstaLibre(d, x) \/ x = i
    BY <1>3, <1>7, Zenon DEF EnUso, EstaLibre
  <1>9. EnSuCadena(e)
    <2>1. ASSUME NEW j \in Slots, NEW x \in Slots
          PROVE  Pertenece(Cadena(e, x), j) <=> EnUso(e, j) /\ Hash[e.slots[j].clave] = x
      <3>1. Pertenece(Cadena(d, x), j) <=> EnUso(d, j) /\ Hash[d.slots[j].clave] = x
        BY <1>1, Zenon DEF EnSuCadena
      <3>2. j # i => e.slots[j].clave = d.slots[j].clave
        BY <1>3, Zenon
      <3>3. Cadena(e, x) = Cadena(d, x)
        BY <1>3, Zenon DEF MismasCadenas
      <3>4. QED
        BY <1>1, <1>8, <3>1, <3>2, <3>3, Zenon
    <2>2. QED
      BY <2>1, Zenon DEF EnSuCadena
  <1>10. Guardado(e, u)
    <2>1. ASSUME NEW j \in Slots, EnUso(e, j)
          PROVE  e.slots[j] = d.slots[j] /\ EnUso(d, j)
      BY <1>1, <1>3, <1>8, <2>1, Zenon
    <2>2. \A j \in Slots : EnUso(e, j) => Lleno(e.slots[j], u)
      BY <1>1, <2>1, Zenon DEF Guardado
    <2>3. \A j \in Slots : EstaLibre(e, j) => e.slots[j].clave = Nada
      BY <1>1, <1>3, <1>5, <1>8, Zenon DEF Guardado
    <2>4. \A j, k \in Slots :
            EnUso(e, j) /\ EnUso(e, k) /\ e.slots[j].clave = e.slots[k].clave => j = k
      BY <1>1, <2>1, Zenon DEF Guardado
    <2>5. QED
      BY <2>2, <2>3, <2>4, Zenon DEF Guardado
  <1>11. Len(Uso(e)) + Len(Libres(e)) = CAPACITY
    <2>1. Len(Uso(e)) = Len(Uso(d)) /\ CAPACITY \in Nat
      BY <1>3, Numeros, Zenon
    <2>2. QED
      BY ONLY <1>1, <1>6, <1>7, <2>1
  <1>12. \A j \in Slots : EnUso(e, j) <=> ~EstaLibre(e, j)
    BY <1>1, <1>8, Zenon
  <1>13. QED
    BY <1>3, <1>4, <1>9, <1>10, <1>11, <1>12, Zenon DEF Entera

\* An answer is stored in a slot that is neither in use nor free (cache_put).
LEMMA PonBien ==
  ASSUME NEW d, NEW i \in Slots, now \in 0 .. MaxNow, Hueco(d, i, now),
         NEW k \in Claves, \A j \in Slots : EnUso(d, j) => d.slots[j].clave # k,
         NEW m \in SeGuardan, NEW e, e = Rellena(Engancha(d, i, k), i, m)
  PROVE  /\ Entera(e, now)
         /\ Uso(e) = Pon(i, Uso(d)) /\ OtrosDatos(d, e, i)
         /\ e.slots[i].clave = k /\ e.slots[i].resp = m /\ e.slots[i].inserted = now
  <1>1. /\ Enlazado(d) /\ EnSuCadena(d) /\ Guardado(d, now)
        /\ ~EnUso(d, i) /\ ~EstaLibre(d, i)
        /\ \A j \in Slots : j # i => (EnUso(d, j) <=> ~EstaLibre(d, j))
        /\ Len(Uso(d)) + Len(Libres(d)) + 1 = CAPACITY
    BY DEF Hueco
  <1>2. \A b \in Slots : ~Pertenece(Cadena(d, b), i)
    BY <1>1, Zenon DEF EnSuCadena
  <1> DEFINE a == Mete(d, i, k)
             c == LruPushFront(a, i)
  <1>3. e = Rellena(c, i, m)
    <2>1. Engancha(d, i, k) = c
      BY DEF Engancha, Mete
    <2>2. QED
      BY <2>1
  <1>4. /\ Enlazado(a) /\ Uso(a) = Uso(d) /\ Libres(a) = Libres(d)
        /\ \A x \in Slots : Cadena(a, x) = IF x = Hash[k] THEN Pon(i, Cadena(d, x)) ELSE Cadena(d, x)
        /\ TrasMete(d, a, i, k) /\ Hash[k] \in Slots
    <2>1. Enlazado(d) /\ i \in Slots /\ k \in Claves /\ ~Pertenece(Libres(d), i) /\ a = Mete(d, i, k)
      BY <1>1 DEF EstaLibre
    <2> HIDE DEF a
    <2>2. QED
      BY ONLY <1>2, <2>1, PasoMete
  <1>5. c = LruPushFront(a, i)
    OBVIOUS
  <1> HIDE DEF a, c
  <1>6. /\ Enlazado(c) /\ Uso(c) = Pon(i, Uso(d)) /\ Libres(c) = Libres(d)
        /\ MismasCadenas(a, c) /\ MismosDatos(a, c)
    <2>1. Enlazado(a) /\ i \in Slots /\ ~Pertenece(Uso(a), i) /\ c = LruPushFront(a, i)
      BY <1>1, <1>4, <1>5 DEF EnUso
    <2>2. /\ Enlazado(c) /\ Uso(c) = Pon(i, Uso(a)) /\ Libres(c) = Libres(a)
          /\ MismasCadenas(a, c) /\ MismosDatos(a, c)
      BY ONLY <2>1, PasoFront, Zenon
    <2>3. QED
      BY <1>4, <2>2, Zenon
  <1>7. /\ Enlazado(e) /\ Uso(e) = Uso(c) /\ Libres(e) = Libres(c) /\ MismasCadenas(c, e)
        /\ TrasRellena(c, e, i, m)
    <2>1. Enlazado(c) /\ i \in Slots /\ m \in SeGuardan /\ now \in 0 .. MaxNow /\ e = Rellena(c, i, m)
      BY <1>3, <1>6
    <2>2. QED
      BY ONLY <2>1, PasoRellena, Zenon
  <1>8. OtrosDatos(d, e, i)
    <2>1. \A j \in Slots : j # i => e.slots[j] = c.slots[j]
      BY <1>7, Zenon DEF TrasRellena
    <2>2. \A j \in Slots : j # i =>
            /\ a.slots[j].clave = d.slots[j].clave /\ a.slots[j].resp = d.slots[j].resp
            /\ a.slots[j].inserted = d.slots[j].inserted /\ a.slots[j].expiry = d.slots[j].expiry
      BY <1>4, Zenon DEF TrasMete
    <2>3. QED
      BY <1>6, <2>1, <2>2, ZenonT(60) DEF OtrosDatos, MismosDatos
  <1>9. /\ e.slots[i].clave = k /\ e.slots[i].resp = m /\ e.slots[i].inserted = now
        /\ e.slots[i].expiry = now + TtlEfectivo(MinTtl[m])
    <2>1. a.slots[i].clave = k
      BY <1>4, Zenon DEF TrasMete
    <2>2. c.slots[i].clave = k
      BY <1>6, <2>1, Zenon DEF MismosDatos
    <2>3. QED
      BY <1>7, <2>2, Zenon DEF TrasRellena
  <1>10. Uso(d) \in Seq(Slots) /\ Len(Uso(d)) \in 0 .. CAPACITY /\ Len(Libres(d)) \in 0 .. CAPACITY
    BY <1>1, UsoDatos, Zenon
  <1>11. /\ \A x : Pertenece(Uso(e), x) <=> x = i \/ Pertenece(Uso(d), x)
         /\ Len(Uso(e)) = Len(Uso(d)) + 1
    <2>1. \A x : Pertenece(Pon(i, Uso(d)), x) <=> x = i \/ Pertenece(Uso(d), x)
      BY <1>10, PertenecePon, Zenon
    <2>2. Len(Pon(i, Uso(d))) = Len(Uso(d)) + 1
      BY <1>10, PonTipo, Zenon
    <2>3. QED
      BY <1>6, <1>7, <2>1, <2>2, Zenon
  <1>12. /\ \A x : EnUso(e, x) <=> EnUso(d, x) \/ x = i
         /\ \A x : EstaLibre(e, x) <=> EstaLibre(d, x)
    BY <1>6, <1>7, <1>11, Zenon DEF EnUso, EstaLibre
  <1>13. ASSUME NEW x \in Slots, NEW j
         PROVE  Pertenece(Cadena(e, x), j) <=> Pertenece(Cadena(d, x), j) \/ (x = Hash[k] /\ j = i)
    <2>1. Cadena(e, x) = IF x = Hash[k] THEN Pon(i, Cadena(d, x)) ELSE Cadena(d, x)
      BY <1>4, <1>6, <1>7, Zenon DEF MismasCadenas
    <2>2. Cadena(d, x) \in Seq(Slots)
      BY <1>1, UsoDatos, Zenon
    <2>3. Pertenece(Pon(i, Cadena(d, x)), j) <=> j = i \/ Pertenece(Cadena(d, x), j)
      BY <2>2, PertenecePon, Zenon
    <2>4. QED
      BY <2>1, <2>3, Zenon
  <1>14. EnSuCadena(e)
    <2>1. ASSUME NEW j \in Slots, NEW x \in Slots
          PROVE  Pertenece(Cadena(e, x), j) <=> EnUso(e, j) /\ Hash[e.slots[j].clave] = x
      <3>1. Pertenece(Cadena(d, x), j) <=> EnUso(d, j) /\ Hash[d.slots[j].clave] = x
        BY <1>1, Zenon DEF EnSuCadena
      <3>2. CASE j = i
        <4>1. e.slots[j].clave = k
          BY <1>9, <3>2, Zenon
        <4>2. QED
          BY <1>1, <1>12, <1>13, <3>1, <3>2, <4>1, Zenon
      <3>3. CASE j # i
        <4>1. e.slots[j].clave = d.slots[j].clave
          BY <1>8, <3>3, Zenon DEF OtrosDatos
        <4>2. QED
          BY <1>12, <1>13, <3>1, <3>3, <4>1, Zenon
      <3>4. QED
        BY <3>2, <3>3
    <2>2. QED
      BY <2>1, Zenon DEF EnSuCadena
  <1>15. Guardado(e, now)
    <2>1. ASSUME NEW j \in Slots, EnUso(e, j), j # i
          PROVE  EnUso(d, j) /\ e.slots[j].clave = d.slots[j].clave /\ Lleno(e.slots[j], now)
      <3>1. EnUso(d, j)
        BY <1>12, <2>1, Zenon
      <3>2. Lleno(d.slots[j], now)
        BY <1>1, <3>1, Zenon DEF Guardado
      <3>3. QED
        BY <1>8, <2>1, <3>1, <3>2, Zenon DEF OtrosDatos, Lleno
    <2>2. Lleno(e.slots[i], now)
      <3>1. now \in 0 .. now
        OBVIOUS
      <3>2. QED
        BY <1>9, <3>1, Zenon DEF Lleno
    <2>3. \A j \in Slots : EstaLibre(e, j) => e.slots[j].clave = Nada
      BY <1>1, <1>8, <1>12, Zenon DEF Guardado, OtrosDatos
    <2>4. ASSUME NEW j \in Slots, NEW x \in Slots, EnUso(e, j), EnUso(e, x),
                 e.slots[j].clave = e.slots[x].clave
          PROVE  j = x
      <3>1. CASE j # i /\ x # i
        BY <1>1, <2>1, <2>4, <3>1, Zenon DEF Guardado
      <3>2. CASE j = i /\ x # i
        BY <1>9, <2>1, <2>4, <3>2, Zenon
      <3>3. CASE j # i /\ x = i
        BY <1>9, <2>1, <2>4, <3>3, Zenon
      <3>4. QED
        BY <3>1, <3>2, <3>3, Zenon
    <2>5. QED
      BY <2>1, <2>2, <2>3, <2>4, Zenon DEF Guardado
  <1>16. Len(Uso(e)) + Len(Libres(e)) = CAPACITY
    <2>1. Len(Libres(e)) = Len(Libres(d)) /\ CAPACITY \in Nat
      BY <1>6, <1>7, Numeros, Zenon
    <2>2. QED
      BY ONLY <1>1, <1>10, <1>11, <2>1
  <1>17. \A j \in Slots : EnUso(e, j) <=> ~EstaLibre(e, j)
    BY <1>1, <1>12, Zenon
  <1>18. Uso(e) = Pon(i, Uso(d))
    BY <1>6, <1>7, Zenon
  <1>19. QED
    BY <1>7, <1>8, <1>9, <1>14, <1>15, <1>16, <1>17, <1>18, Zenon DEF Entera

\* A new answer takes the place of the one its slot holds (cache_put).
LEMMA RellenaBien ==
  ASSUME NEW d, Entera(d, now), now \in 0 .. MaxNow, NEW i \in Slots, EnUso(d, i),
         NEW m \in SeGuardan, NEW e, e = Rellena(d, i, m)
  PROVE  /\ Entera(e, now)
         /\ Uso(e) = Uso(d) /\ OtrosDatos(d, e, i)
         /\ e.slots[i].clave = d.slots[i].clave /\ e.slots[i].resp = m
         /\ e.slots[i].inserted = now
  <1>1. /\ Enlazado(d) /\ EnSuCadena(d) /\ Guardado(d, now)
        /\ \A j \in Slots : EnUso(d, j) <=> ~EstaLibre(d, j)
        /\ Len(Uso(d)) + Len(Libres(d)) = CAPACITY
    BY DEF Entera
  <1>2. /\ Enlazado(e) /\ Uso(e) = Uso(d) /\ Libres(e) = Libres(d) /\ MismasCadenas(d, e)
        /\ TrasRellena(d, e, i, m)
    <2>1. Enlazado(d) /\ i \in Slots /\ m \in SeGuardan /\ now \in 0 .. MaxNow /\ e = Rellena(d, i, m)
      BY <1>1
    <2>2. QED
      BY ONLY <2>1, PasoRellena, Zenon
  <1>3. /\ \A j \in Slots : j # i => e.slots[j] = d.slots[j]
        /\ \A j \in Slots : e.slots[j].clave = d.slots[j].clave
        /\ e.slots[i].resp = m /\ e.slots[i].inserted = now
        /\ e.slots[i].expiry = now + TtlEfectivo(MinTtl[m])
    BY <1>2, Zenon DEF TrasRellena
  <1>4. OtrosDatos(d, e, i)
    BY <1>3, Zenon DEF OtrosDatos
  <1>5. \A x : (EnUso(e, x) <=> EnUso(d, x)) /\ (EstaLibre(e, x) <=> EstaLibre(d, x))
    BY <1>2, Zenon DEF EnUso, EstaLibre
  <1>6. EnSuCadena(e)
    <2>1. ASSUME NEW j \in Slots, NEW x \in Slots
          PROVE  Pertenece(Cadena(e, x), j) <=> EnUso(e, j) /\ Hash[e.slots[j].clave] = x
      <3>1. Pertenece(Cadena(d, x), j) <=> EnUso(d, j) /\ Hash[d.slots[j].clave] = x
        BY <1>1, Zenon DEF EnSuCadena
      <3>2. Cadena(e, x) = Cadena(d, x)
        BY <1>2, Zenon DEF MismasCadenas
      <3>3. QED
        BY <1>3, <1>5, <3>1, <3>2, Zenon
    <2>2. QED
      BY <2>1, Zenon DEF EnSuCadena
  <1>7. Guardado(e, now)
    <2>1. ASSUME NEW j \in Slots, EnUso(e, j)
          PROVE  Lleno(e.slots[j], now)
      <3>1. Lleno(d.slots[j], now)
        BY <1>1, <1>5, <2>1, Zenon DEF Guardado
      <3>2. CASE j # i
        BY <1>3, <3>1, <3>2, Zenon
      <3>3. CASE j = i
        <4>1. now \in 0 .. now
          OBVIOUS
        <4>2. e.slots[i].clave \in Claves
          BY <1>3, <3>1, <3>3, Zenon DEF Lleno
        <4>3. QED
          BY <1>3, <3>3, <4>1, <4>2, Zenon DEF Lleno
      <3>4. QED
        BY <3>2, <3>3
    <2>2. \A j \in Slots : EstaLibre(e, j) => e.slots[j].clave = Nada
      BY <1>1, <1>3, <1>5, Zenon DEF Guardado
    <2>3. \A j, x \in Slots :
            EnUso(e, j) /\ EnUso(e, x) /\ e.slots[j].clave = e.slots[x].clave => j = x
      BY <1>1, <1>3, <1>5, Zenon DEF Guardado
    <2>4. QED
      BY <2>1, <2>2, <2>3, Zenon DEF Guardado
  <1>8. QED
    BY <1>1, <1>2, <1>3, <1>4, <1>5, <1>6, <1>7, Zenon DEF Entera

\* Time passes.
LEMMA EnteraLuego ==
  ASSUME NEW d, NEW u \in Nat, Entera(d, u)
  PROVE  Entera(d, u + 1)
  <1>1. 0 .. u \subseteq 0 .. u + 1
    OBVIOUS
  <1>2. \A s : Lleno(s, u) => Lleno(s, u + 1)
    BY <1>1, Zenon DEF Lleno
  <1>3. Guardado(d, u + 1)
    BY <1>2, Zenon DEF Entera, Guardado
  <1>4. QED
    BY <1>3, Zenon DEF Entera

\* The list of use from its other end.
LEMMA ColaBien ==
  ASSUME NEW d, Enlazado(d)
  PROVE  DesdeCola(d) = Reves(Uso(d))
  <1>1. EsLista(AntUso(d), d.lru_tail, Reves(Uso(d)))
    BY Zenon DEF Enlazado, UsoBien, EsDoble
  <1>2. QED
    BY <1>1, ListaBien, Zenon DEF DesdeCola

\* The free list says whether there is room.
LEMMA LibreCabeza ==
  ASSUME NEW d, NEW u, Entera(d, u)
  PROVE  /\ d.free_head # SLOT_NONE => d.free_head \in Slots /\ Len(Uso(d)) < CAPACITY
         /\ d.free_head = SLOT_NONE => Len(Uso(d)) = CAPACITY
  <1> DEFINE l == Libres(d)
             h == d.free_head
  <1>1. EsLista(SigHash(d), h, l) /\ Len(Uso(d)) + Len(l) = CAPACITY
        /\ Len(Uso(d)) \in 0 .. CAPACITY
    BY UsoDatos, Zenon DEF Entera, Enlazado, LibresBien
  <1> HIDE DEF l, h
  <1>2. /\ Len(l) \in 0 .. CAPACITY
        /\ h = SLOT_NONE <=> Len(l) = 0
        /\ h # SLOT_NONE => h \in Slots
    BY <1>1, ListaDatos, Zenon
  <1>3. CAPACITY \in Nat
    BY Numeros
  <1>4. /\ h # SLOT_NONE => Len(Uso(d)) < CAPACITY
        /\ h = SLOT_NONE => Len(Uso(d)) = CAPACITY
    BY ONLY <1>1, <1>2, <1>3
  <1>5. QED
    BY <1>2, <1>4 DEF h

\* Which slot a full cache forgets (cache_put): of the last EVICT_SCAN in order
\* of use the last that is past its deadline, or else the last of all.
LEMMA DesalojableBien ==
  ASSUME NEW d, NEW u, Entera(d, u), Len(Uso(d)) = CAPACITY
  PROVE  \E p \in 1 .. Len(Uso(d)) :
           /\ Desalojable(d) = Uso(d)[p]
           /\ LET n == Len(Uso(d))
                  viejas == {j \in 1 .. n : j > n - EVICT_SCAN /\ Caducado(d.slots[Uso(d)[j]])}
              IN  IF viejas = {} THEN p = n ELSE p \in viejas /\ \A j \in viejas : j <= p
  <1> DEFINE s == Uso(d)
             l == Reves(s)
             n == Len(s)
             viejas == {j \in 1 .. n : j > n - EVICT_SCAN /\ Caducado(d.slots[s[j]])}
             lugares == {j \in DOMAIN l : j <= EVICT_SCAN /\ Caducado(d.slots[l[j]])}
  <1>1. Desalojable(d) = IF lugares = {} THEN d.lru_tail ELSE l[Min(lugares)]
    <2>1. DesdeCola(d) = l
      BY ColaBien DEF Entera
    <2>2. QED
      BY <2>1, Zenon DEF Desalojable, Primero
  <1>2. /\ s \in Seq(Slots) /\ n \in Nat /\ n > 0 /\ EVICT_SCAN \in Nat
        /\ d.lru_tail = s[n]
    <2>1. EsDoble(SigUso(d), AntUso(d), d.lru_head, d.lru_tail, s)
      BY Zenon DEF Entera, Enlazado, UsoBien
    <2>2. n > 0 /\ n \in Nat /\ EVICT_SCAN \in Nat /\ n # 0
      BY Numeros, CacheAssumption
    <2> HIDE DEF s
    <2>3. DatosDoble(SigUso(d), AntUso(d), d.lru_head, d.lru_tail, s)
      BY <2>1, DobleDatos, Zenon
    <2>4. s \in Seq(Slots) /\ d.lru_tail = IF Len(s) = 0 THEN SLOT_NONE ELSE s[Len(s)]
      BY <2>3, Zenon DEF DatosDoble
    <2>5. QED
      BY <2>2, <2>4
  <1>3. Caducado(d.slots[s[1]]) \in BOOLEAN /\ \A x : Caducado(d.slots[x]) \in BOOLEAN
    BY DEF Caducado
  <1>4. /\ l \in Seq(Slots) /\ Len(l) = n /\ DOMAIN l = 1 .. n
        /\ \A j \in 1 .. n : l[j] = s[n + 1 - j]
    <2> HIDE DEF s
    <2>1. /\ l \in Seq(Slots) /\ Len(l) = n
          /\ \A j \in 1 .. n : l[j] = s[n + 1 - j]
      BY <1>2, RevesTipo, Zenon
    <2> HIDE DEF l
    <2>2. QED
      BY <2>1
  <1> HIDE DEF s, l
  <1>5. ASSUME NEW j \in 1 .. n
        PROVE  /\ n + 1 - j \in 1 .. n
               /\ j \in lugares <=> n + 1 - j \in viejas
               /\ j \in viejas <=> n + 1 - j \in lugares
    <2> DEFINE x == n + 1 - j
    <2>1. x \in 1 .. n /\ n + 1 - x = j /\ (j <= EVICT_SCAN <=> x > n - EVICT_SCAN)
          /\ (x <= EVICT_SCAN <=> j > n - EVICT_SCAN)
      BY <1>2
    <2>2. l[j] = s[x] /\ l[x] = s[j]
      BY <1>4, <2>1, Zenon
    <2> HIDE DEF x
    <2>3. j \in lugares <=> x \in viejas
      BY <1>4, <2>1, <2>2, Zenon
    <2>4. j \in viejas <=> x \in lugares
      BY <1>4, <2>1, <2>2, Zenon
    <2>5. QED
      BY <2>1, <2>3, <2>4 DEF x
  <1>6. viejas \subseteq 1 .. n /\ lugares \subseteq 1 .. n /\ lugares \in SUBSET Nat
    BY <1>4
  <1> HIDE DEF viejas, lugares
  <1>7. \E p \in 1 .. n : /\ Desalojable(d) = s[p]
                          /\ IF viejas = {} THEN p = n ELSE p \in viejas /\ \A j \in viejas : j <= p
    <2>1. CASE lugares = {}
      <3>1. viejas = {}
        BY <1>5, <1>6, <2>1, Zenon
      <3>2. n \in 1 .. n
        BY <1>2
      <3>3. QED
        BY <1>1, <1>2, <2>1, <3>1, <3>2, Zenon
    <2>2. CASE lugares # {}
      <3> DEFINE q == Min(lugares)
      <3>1. q \in lugares /\ \A y \in lugares : q <= y
        BY <1>6, <2>2, MinTipo, Zenon
      <3>2. Desalojable(d) = l[q]
        BY <1>1, <2>2
      <3> HIDE DEF q
      <3> DEFINE p == n + 1 - q
      <3>3. q \in 1 .. n /\ p \in 1 .. n /\ p \in viejas /\ l[q] = s[p]
        BY <1>4, <1>5, <1>6, <3>1, Zenon
      <3>4. ASSUME NEW j \in viejas
            PROVE  j <= p
        <4>1. j \in 1 .. n /\ n + 1 - j \in lugares
          BY <1>5, <1>6, Zenon
        <4>2. q <= n + 1 - j
          BY <3>1, <4>1, Zenon
        <4>3. QED
          BY <1>2, <3>3, <4>1, <4>2
      <3> HIDE DEF p
      <3>5. QED
        BY <3>2, <3>3, <3>4, Zenon
    <2>3. QED
      BY <2>1, <2>2
  <1>8. QED
    BY <1>7 DEF s, n, viejas

LEMMA ListaVacia ==
  ASSUME NEW sig, NEW s \in Seq(Slots), Len(s) = 0
  PROVE  EsLista(sig, SLOT_NONE, s)
  BY DEF EsLista

\* cache_init and cache_clear
LEMMA VaciadaBien ==
  ASSUME NEW u \in Nat
  PROVE  /\ Entera(Vaciada, u)
         /\ Uso(Vaciada) = <<>>
  <1> DEFINE d == Vaciada
             l == [n \in 1 .. CAPACITY |-> n - 1]
             sig == SigHash(d)
             o == <<>>
  <1>1. /\ CAPACITY \in Nat \ {0} /\ Slots = 0 .. CAPACITY - 1 /\ SLOT_NONE \notin Slots
        /\ SLOT_NONE \in Enlace /\ Slots \subseteq Enlace
    BY Numeros
  <1>2. /\ d.buckets = [b \in Slots |-> SLOT_NONE]
        /\ d.lru_head = SLOT_NONE /\ d.lru_tail = SLOT_NONE /\ d.free_head = 0
        /\ d.slots = [i \in Slots |-> Libre(IF i = CAPACITY - 1 THEN SLOT_NONE ELSE i + 1)]
        /\ DOMAIN d = {"slots", "buckets", "lru_head", "lru_tail", "free_head"}
    BY DEF Vaciada
  <1>3. ASSUME NEW i \in Slots
        PROVE  /\ d.slots[i] \in Slot /\ d.slots[i].clave = Nada
               /\ d.slots[i].hash_next = IF i = CAPACITY - 1 THEN SLOT_NONE ELSE i + 1
    <2> DEFINE h == IF i = CAPACITY - 1 THEN SLOT_NONE ELSE i + 1
    <2>1. h \in Enlace
      BY <1>1
    <2>2. d.slots[i] = Libre(h)
      BY <1>2, Zenon
    <2> HIDE DEF h
    <2>3. d.slots[i] \in Slot /\ d.slots[i].clave = Nada /\ d.slots[i].hash_next = h
      BY <2>1, <2>2, LibreTipo, Zenon
    <2>4. QED
      BY <2>3 DEF h
  <1>4. d \in Estado
    <2>1. \A i \in Slots : Libre(IF i = CAPACITY - 1 THEN SLOT_NONE ELSE i + 1) \in Slot
      BY <1>2, <1>3, Zenon
    <2>2. 0 \in Enlace
      BY <1>1
    <2>3. [i \in Slots |-> Libre(IF i = CAPACITY - 1 THEN SLOT_NONE ELSE i + 1)] \in [Slots -> Slot]
      BY <2>1, Zenon
    <2>4. [b \in Slots |-> SLOT_NONE] \in [Slots -> Enlace]
      BY <1>1, Zenon
    <2> DEFINE a == [i \in Slots |-> Libre(IF i = CAPACITY - 1 THEN SLOT_NONE ELSE i + 1)]
               c == [b \in Slots |-> SLOT_NONE]
    <2>5. a \in [Slots -> Slot] /\ c \in [Slots -> Enlace]
      BY <2>3, <2>4
    <2>6. d = [slots |-> a, buckets |-> c, lru_head |-> SLOT_NONE, lru_tail |-> SLOT_NONE, free_head |-> 0]
      BY DEF Vaciada
    <2> HIDE DEF a, c, d
    <2>7. QED
      BY <1>1, <2>2, <2>5, <2>6 DEF Estado
  <1>5. /\ o \in Seq(Slots) /\ Len(o) = 0 /\ Reves(o) \in Seq(Slots) /\ Len(Reves(o)) = 0
        /\ \A x : ~Pertenece(o, x)
    <2>1. o \in Seq(Slots) /\ Len(o) = 0 /\ \A x : ~Pertenece(o, x)
      BY DEF Pertenece
    <2> HIDE DEF o
    <2>2. Reves(o) \in Seq(Slots) /\ Len(Reves(o)) = Len(o)
      BY <2>1, RevesTipo, Zenon
    <2>3. QED
      BY <2>1, <2>2
  <1> HIDE DEF o, d
  <1>6. Uso(d) = o /\ UsoBien(d)
    <2>1. EsLista(SigUso(d), d.lru_head, o) /\ EsLista(AntUso(d), d.lru_tail, Reves(o))
      BY <1>2, <1>5, ListaVacia, Zenon
    <2>2. Uso(d) = o
      BY <2>1, ListaBien, Zenon DEF Uso
    <2>3. QED
      BY <2>1, <2>2, Zenon DEF UsoBien, EsDoble
  <1>7. Libres(d) = l /\ LibresBien(d)
    <2>1. l \in Seq(Slots) /\ Len(l) = CAPACITY
      BY <1>1
    <2>2. \A n \in 1 .. CAPACITY : l[n] = n - 1 /\ n - 1 \in Slots
      BY <1>1
    <2>3. l[1] = 0 /\ Len(l) # 0
      BY <1>1
    <2> HIDE DEF l
    <2>4. ASSUME NEW n \in 1 .. Len(l)
          PROVE  sig[l[n]] = IF n = Len(l) THEN SLOT_NONE ELSE l[n + 1]
      <3>1. /\ n \in 1 .. CAPACITY /\ (n = CAPACITY <=> n - 1 = CAPACITY - 1) /\ (n - 1) + 1 = n
            /\ n # CAPACITY => n + 1 \in 1 .. CAPACITY
            /\ (n + 1) - 1 = n
        BY <1>1, <2>1
      <3>2. l[n] = n - 1 /\ n - 1 \in Slots /\ (n # CAPACITY => l[n + 1] = n)
        BY <2>2, <3>1, Zenon
      <3>3. sig[n - 1] = IF n = CAPACITY THEN SLOT_NONE ELSE n
        <4>1. sig[n - 1] = d.slots[n - 1].hash_next
          BY <3>2, Zenon DEF SigHash
        <4>2. d.slots[n - 1].hash_next = IF n - 1 = CAPACITY - 1 THEN SLOT_NONE ELSE (n - 1) + 1
          BY <1>3, <3>2, Zenon
        <4>3. QED
          BY <3>1, <4>1, <4>2, Zenon
      <3>4. QED
        BY <2>1, <3>2, <3>3, Zenon
    <2>5. ASSUME NEW m \in 1 .. Len(l), NEW n \in 1 .. Len(l), l[m] = l[n]
          PROVE  m = n
      <3>1. m - 1 = n - 1
        BY <2>1, <2>2, <2>5, Zenon
      <3>2. QED
        BY <2>1, <3>1
    <2>6. EsLista(sig, d.free_head, l)
      BY <1>2, <2>1, <2>3, <2>4, <2>5, Zenon DEF EsLista
    <2>7. Libres(d) = l
      BY <2>6, ListaBien, Zenon DEF Libres
    <2>8. QED
      BY <2>6, <2>7, Zenon DEF LibresBien
  <1>8. ASSUME NEW b \in Slots
        PROVE  Cadena(d, b) = o /\ EsLista(sig, d.buckets[b], o)
    <2>1. d.buckets[b] = SLOT_NONE
      BY <1>2, Zenon
    <2>2. EsLista(sig, d.buckets[b], o)
      BY <1>5, <2>1, ListaVacia, Zenon
    <2>3. QED
      BY <2>2, ListaBien, Zenon DEF Cadena
  <1>9. CadenasBien(d) /\ Ajenas(d)
    BY <1>5, <1>8, Zenon DEF CadenasBien, Ajenas
  <1>10. Enlazado(d)
    BY <1>4, <1>6, <1>7, <1>9, Zenon DEF Enlazado
  <1>11. \A j \in Slots : ~EnUso(d, j) /\ EstaLibre(d, j)
    <2>1. ASSUME NEW j \in Slots
          PROVE  Pertenece(l, j)
      <3>1. j + 1 \in DOMAIN l /\ l[j + 1] = j
        BY <1>1
      <3>2. QED
        BY <3>1, Zenon DEF Pertenece
    <2>2. QED
      BY <1>5, <1>6, <1>7, <2>1, Zenon DEF EnUso, EstaLibre
  <1>12. EnSuCadena(d)
    BY <1>5, <1>8, <1>11, Zenon DEF EnSuCadena
  <1>13. Guardado(d, u)
    BY <1>3, <1>11, Zenon DEF Guardado
  <1>14. Len(Uso(d)) + Len(Libres(d)) = CAPACITY
    <2>1. Len(l) = CAPACITY
      BY <1>1
    <2> HIDE DEF l
    <2>2. QED
      BY <1>1, <1>5, <1>6, <1>7, <2>1
  <1>15. Entera(d, u)
    BY <1>10, <1>11, <1>12, <1>13, <1>14, Zenon DEF Entera
  <1>16. QED
    BY <1>6, <1>15 DEF d, o

-----------------------------------------------------------------------------
(***************************************************************************)
(* The answer a client gets                                                *)
(***************************************************************************)

\* What dns_wire_decrement_ttls does to the records of m, elapsed seconds later.
Descontado(m, r, elapsed) ==
  /\ r \in Seq(Registro)
  /\ DOMAIN r = DOMAIN m.rr
  /\ \A i \in DOMAIN m.rr :
       /\ r[i] = [m.rr[i] EXCEPT !.ttl = r[i].ttl]
       /\ r[i].tipo = m.rr[i].tipo /\ r[i].nombre = m.rr[i].nombre /\ r[i].entero = m.rr[i].entero
       /\ r[i].ttl \in Nat
       /\ r[i].ttl =
            IF i <= Registros(m) /\ SeLlega(m, i) /\ m.rr[i].tipo # OPT
              THEN IF m.rr[i].ttl > elapsed THEN m.rr[i].ttl - elapsed ELSE 0
              ELSE m.rr[i].ttl

LEMMA DescuentaBien ==
  ASSUME NEW m, EsMensaje(m), NEW elapsed \in Nat
  PROVE  Descontado(m, dns_wire_decrement_ttls(m, elapsed).rr, elapsed)
  <1>1. /\ m.rr \in Seq(Registro) /\ DOMAIN m.rr = 1 .. Len(m.rr) /\ Len(m.rr) \in Nat
        /\ \A i \in DOMAIN m.rr : m.rr[i] \in Registro /\ m.rr[i].ttl \in Nat
    BY RrTipo, Zenon
  <1> DEFINE q == m.rr
             C(i) == i <= Registros(m) /\ SeLlega(m, i) /\ q[i].tipo # OPT
             resto(x) == IF x > elapsed THEN x - elapsed ELSE 0
             r == [i \in DOMAIN q |-> IF C(i) THEN [q[i] EXCEPT !.ttl = resto(@)] ELSE q[i]]
  <1>2. dns_wire_decrement_ttls(m, elapsed).rr = r
    <2>1. "rr" \in DOMAIN m
      BY DEF EsMensaje
    <2>2. dns_wire_decrement_ttls(m, elapsed) = [m EXCEPT !.rr = r]
      BY Zenon DEF dns_wire_decrement_ttls
    <2> HIDE DEF r
    <2>3. QED
      BY <2>1, <2>2
  <1> HIDE DEF q, C
  <1>3. ASSUME NEW i \in DOMAIN q
        PROVE  /\ r[i] \in Registro
               /\ r[i] = [q[i] EXCEPT !.ttl = r[i].ttl]
               /\ r[i].tipo = q[i].tipo /\ r[i].nombre = q[i].nombre /\ r[i].entero = q[i].entero
               /\ r[i].ttl \in Nat
               /\ r[i].ttl = IF C(i) THEN resto(q[i].ttl) ELSE q[i].ttl
    <2> DEFINE x == q[i]
    <2>1. x \in Registro /\ x.ttl \in Nat
      BY <1>1 DEF q
    <2>2. resto(x.ttl) \in Nat
      BY <2>1
    <2>3. CASE C(i)
      <3>1. r[i] = [x EXCEPT !.ttl = resto(x.ttl)]
        BY <2>3
      <3> DEFINE y == resto(x.ttl)
      <3> HIDE DEF r, x, y
      <3>2. r[i] = [x EXCEPT !.ttl = y] /\ y \in Nat
        BY <2>2, <3>1 DEF y
      <3>3. r[i] \in Registro /\ r[i].ttl = y
            /\ r[i].tipo = x.tipo /\ r[i].nombre = x.nombre /\ r[i].entero = x.entero
        BY ONLY <2>1, <3>2 DEF Registro
      <3>4. r[i] = [x EXCEPT !.ttl = r[i].ttl]
        BY ONLY <3>2, <3>3
      <3>5. QED
        BY ONLY <2>3, <3>2, <3>3, <3>4, Zenon DEF x, y
    <2>4. CASE ~C(i)
      <3>1. r[i] = x
        BY <2>4
      <3> HIDE DEF r, x
      <3>2. x = [x EXCEPT !.ttl = x.ttl]
        BY ONLY <2>1 DEF Registro
      <3>3. QED
        BY ONLY <2>1, <2>4, <3>1, <3>2, Zenon DEF x
    <2>5. QED
      BY <2>3, <2>4
  <1>4. DOMAIN r = DOMAIN q /\ r = [i \in 1 .. Len(q) |-> r[i]]
    BY <1>1 DEF q
  <1> HIDE DEF r
  <1>5. r \in Seq(Registro)
    <2> DEFINE n == Len(q)
    <2>1. n \in Nat /\ DOMAIN q = 1 .. n
      BY <1>1 DEF q
    <2> HIDE DEF n
    <2>2. \A i \in 1 .. n : r[i] \in Registro
      BY <1>3, <2>1, Zenon
    <2>3. r = [i \in 1 .. n |-> r[i]]
      BY <1>4 DEF n
    <2>4. QED
      BY ONLY <2>1, <2>2, <2>3
  <1>6. Descontado(m, r, elapsed)
    BY <1>3, <1>4, <1>5, Zenon DEF Descontado, q, C
  <1>7. QED
    BY <1>2, <1>6

\* Two messages that are walked alike.
MismaForma(m, r) ==
  /\ r.qd = m.qd /\ r.an = m.an /\ r.ns = m.ns /\ r.ar = m.ar
  /\ r.nombre = m.nombre /\ r.entera = m.entera
  /\ DOMAIN r.rr = DOMAIN m.rr
  /\ \A i \in DOMAIN m.rr :
       /\ r.rr[i].tipo = m.rr[i].tipo
       /\ r.rr[i].nombre = m.rr[i].nombre
       /\ r.rr[i].entero = m.rr[i].entero

LEMMA MismaMarcha ==
  ASSUME NEW m, NEW r, MismaForma(m, r)
  PROVE  /\ Registros(r) = Registros(m)
         /\ \A i : SeLlega(r, i) <=> SeLlega(m, i)
         /\ LosQueSon(r, SOA) = LosQueSon(m, SOA)
  <1>1. Registros(r) = Registros(m)
    BY Zenon DEF Registros, MismaForma
  <1>2. walk_questions(r) <=> walk_questions(m)
    BY Zenon DEF walk_questions, MismaForma
  <1>3. \A j : walk_record(r, j) <=> walk_record(m, j)
    BY Zenon DEF walk_record, MismaForma
  <1>4. \A i : SeLlega(r, i) <=> SeLlega(m, i)
    BY <1>2, <1>3, Zenon DEF SeLlega
  <1>5. LosQueSon(r, SOA) = LosQueSon(m, SOA)
    <2>1. ASSUME NEW i
          PROVE  i \in LosQueSon(r, SOA) <=> i \in LosQueSon(m, SOA)
      BY <1>1, Zenon DEF LosQueSon, MismaForma
    <2>2. QED
      BY ONLY <2>1
  <1>6. QED
    BY <1>1, <1>4, <1>5

\* The answer of a slot for a client.
Servido(m, r, cl, elapsed) ==
  /\ EsMensaje(r)
  /\ r = [m EXCEPT !.id = cl, !.letras = cl, !.rr = r.rr]
  /\ Descontado(m, r.rr, elapsed)
  /\ MismaForma(m, r)

LEMMA ServidoBien ==
  ASSUME NEW m, EsMensaje(m), NEW cl, NEW elapsed \in Nat, NEW r,
         r = dns_wire_rewrite_id(dns_wire_decrement_ttls([m EXCEPT !.letras = cl], elapsed), cl)
  PROVE  Servido(m, r, cl, elapsed)
  <1> DEFINE a == [m EXCEPT !.letras = cl]
             q == dns_wire_decrement_ttls(a, elapsed).rr
  <1>1. /\ DOMAIN a = DOMAIN m /\ DOMAIN a = {"id", "letras", "qr", "opcode", "rcode", "qd", "an", "ns", "ar",
                                             "nombre", "entera", "rr"}
        /\ \A f \in DOMAIN m : f # "letras" => a[f] = m[f]
    BY DEF EsMensaje
  <1>2. /\ a.id = m.id /\ a.qr = m.qr /\ a.opcode = m.opcode /\ a.rcode = m.rcode
        /\ a.qd = m.qd /\ a.an = m.an /\ a.ns = m.ns /\ a.ar = m.ar
        /\ a.nombre = m.nombre /\ a.entera = m.entera /\ a.rr = m.rr
    BY <1>1
  <1> HIDE DEF a
  <1>3. EsMensaje(a)
    BY <1>1, <1>2, Zenon DEF EsMensaje
  <1>4. Descontado(a, q, elapsed)
    BY <1>3, DescuentaBien, Zenon
  <1>5. MismaForma(m, a)
    BY <1>2, Zenon DEF MismaForma
  <1>6. Descontado(m, q, elapsed)
    <2>1. Registros(a) = Registros(m) /\ \A i : SeLlega(a, i) <=> SeLlega(m, i)
      BY <1>5, MismaMarcha, Zenon
    <2>2. q \in Seq(Registro) /\ DOMAIN q = DOMAIN m.rr
      BY <1>2, <1>4, Zenon DEF Descontado
    <2>3. ASSUME NEW i \in DOMAIN m.rr
          PROVE  /\ q[i] = [m.rr[i] EXCEPT !.ttl = q[i].ttl]
                 /\ q[i].tipo = m.rr[i].tipo /\ q[i].nombre = m.rr[i].nombre /\ q[i].entero = m.rr[i].entero
                 /\ q[i].ttl \in Nat
      BY <1>2, <1>4, ZenonT(60) DEF Descontado
    <2>4. ASSUME NEW i \in DOMAIN m.rr
          PROVE  q[i].ttl =
                   IF i <= Registros(m) /\ SeLlega(m, i) /\ m.rr[i].tipo # OPT
                     THEN IF m.rr[i].ttl > elapsed THEN m.rr[i].ttl - elapsed ELSE 0
                     ELSE m.rr[i].ttl
      <3>1. q[i].ttl =
              IF i <= Registros(a) /\ SeLlega(a, i) /\ a.rr[i].tipo # OPT
                THEN IF a.rr[i].ttl > elapsed THEN a.rr[i].ttl - elapsed ELSE 0
                ELSE a.rr[i].ttl
        BY <1>2, <1>4, Zenon DEF Descontado
      <3>2. (i <= Registros(a) /\ SeLlega(a, i)) <=> (i <= Registros(m) /\ SeLlega(m, i))
        BY <2>1, Zenon
      <3>3. a.rr[i] = m.rr[i]
        BY <1>2, Zenon
      <3>4. CASE i <= Registros(m) /\ SeLlega(m, i) /\ m.rr[i].tipo # OPT
        BY <3>1, <3>2, <3>3, <3>4, Zenon
      <3>5. CASE ~(i <= Registros(m) /\ SeLlega(m, i) /\ m.rr[i].tipo # OPT)
        BY <3>1, <3>2, <3>3, <3>5, Zenon
      <3>6. QED
        BY <3>4, <3>5, Zenon
    <2>5. QED
      BY <2>2, <2>3, <2>4, Zenon DEF Descontado
  <1>7. dns_wire_decrement_ttls(a, elapsed) = [a EXCEPT !.rr = q]
    <2> DEFINE c == [i \in DOMAIN a.rr |->
                       IF i <= Registros(a) /\ SeLlega(a, i) /\ a.rr[i].tipo # OPT
                         THEN [a.rr[i] EXCEPT !.ttl = IF @ > elapsed THEN @ - elapsed ELSE 0]
                         ELSE a.rr[i]]
    <2>1. dns_wire_decrement_ttls(a, elapsed) = [a EXCEPT !.rr = c]
      BY Zenon DEF dns_wire_decrement_ttls
    <2> HIDE DEF c
    <2>2. [a EXCEPT !.rr = c].rr = c
      BY <1>1
    <2>3. QED
      BY <2>1, <2>2, Zenon
  <1> HIDE DEF q
  <1>8. r = [[a EXCEPT !.rr = q] EXCEPT !.id = cl]
    BY <1>7 DEF dns_wire_rewrite_id, a
  <1>9. r.rr = q /\ DOMAIN r = DOMAIN m
    BY <1>1, <1>8
  <1>10. r = [m EXCEPT !.id = cl, !.letras = cl, !.rr = q]
    <2>1. a = [m EXCEPT !.letras = cl]
      BY DEF a
    <2>2. QED
      BY ONLY <1>1, <1>8, <2>1
  <1>11. /\ r.qr = m.qr /\ r.opcode = m.opcode /\ r.rcode = m.rcode
         /\ r.qd = m.qd /\ r.an = m.an /\ r.ns = m.ns /\ r.ar = m.ar
         /\ r.nombre = m.nombre /\ r.entera = m.entera
    BY <1>1, <1>10
  <1>12. q \in Seq(Registro)
    BY <1>6, Zenon DEF Descontado
  <1>13. EsMensaje(r)
    <2>1. DOMAIN r = {"id", "letras", "qr", "opcode", "rcode", "qd", "an", "ns", "ar",
                      "nombre", "entera", "rr"}
      BY <1>1, <1>9, Zenon
    <2>2. /\ {m.qr, m.entera} \subseteq BOOLEAN
          /\ {m.opcode, m.rcode, m.qd, m.an, m.ns, m.ar} \subseteq Nat
          /\ m.nombre \in Nombre
      BY Zenon DEF EsMensaje
    <2>3. /\ {r.qr, r.entera} \subseteq BOOLEAN
          /\ {r.opcode, r.rcode, r.qd, r.an, r.ns, r.ar} \subseteq Nat
          /\ r.nombre \in Nombre
      BY ONLY <1>11, <2>2
    <2>4. r.rr \in Seq(Registro)
      BY <1>9, <1>12, Zenon
    <2>5. QED
      BY <2>1, <2>3, <2>4, Zenon DEF EsMensaje
  <1>14. MismaForma(m, r)
    BY <1>6, <1>9, <1>11, Zenon DEF MismaForma, Descontado
  <1>15. QED
    BY <1>6, <1>9, <1>10, <1>13, <1>14, Zenon DEF Servido

-----------------------------------------------------------------------------
(***************************************************************************)
(* The invariant is kept                                                   *)
(***************************************************************************)

\* cache_get, cache_put: the slot that is found, if one is.
LEMMA HallaBien ==
  ASSUME NEW d, NEW u, Entera(d, u), NEW k \in Claves, NEW i, i = Busca(d, k)
  PROVE  /\ i = SLOT_NONE => \A j \in Slots : EnUso(d, j) => d.slots[j].clave # k
         /\ i # SLOT_NONE =>
              /\ i \in Slots /\ EnUso(d, i) /\ d.slots[i].clave = k
              /\ \E p \in 1 .. Len(Uso(d)) : Uso(d)[p] = i
  <1>1. SLOT_NONE \notin Slots
    BY Numeros
  <1>2. \/ /\ i = SLOT_NONE
           /\ \A j \in Slots : EnUso(d, j) => d.slots[j].clave # k
        \/ i \in Slots /\ EnUso(d, i) /\ d.slots[i].clave = k
    BY BuscaBien, Zenon
  <1>3. \A j : EnUso(d, j) <=> \E p \in 1 .. Len(Uso(d)) : Uso(d)[p] = j
    BY UsoDatos, Zenon DEF Entera
  <1>4. QED
    BY <1>1, <1>2, <1>3, Zenon

\* An answer that is past its deadline is forgotten.
LEMMA LiberaBien ==
  ASSUME NEW d, NEW u, Entera(d, u), NEW p \in 1 .. Len(Uso(d)), NEW i, i = Uso(d)[p],
         NEW e, e = Libera(d, i)
  PROVE  /\ Entera(e, u)
         /\ Uso(e) = Saca(Uso(d), p) /\ OtrosDatos(d, e, i)
  <1> DEFINE c == LruUnlink(HashUnlink(d, i), i)
  <1>1. e = Suelta(c, i, d.free_head)
    BY DEF Libera, Suelta
  <1>2. c = LruUnlink(HashUnlink(d, i), i)
    OBVIOUS
  <1> HIDE DEF c
  <1>3. /\ i \in Slots /\ Hueco(c, i, u) /\ Uso(c) = Saca(Uso(d), p)
        /\ MismosDatos(d, c) /\ c.free_head = d.free_head
    BY <1>2, QuitaBien
  <1>4. e = Suelta(c, i, c.free_head)
    BY <1>1, <1>3
  <1>5. Entera(e, u) /\ Uso(e) = Uso(c) /\ OtrosDatos(c, e, i)
    BY ONLY <1>3, <1>4, SueltaBien, Zenon
  <1>6. OtrosDatos(d, e, i)
    BY <1>3, <1>5, ZenonT(60) DEF OtrosDatos, MismosDatos
  <1>7. QED
    BY <1>3, <1>5, <1>6

\* The data of slot i after cache_put.
Puesto(e, i, k, m) ==
  e.slots[i].clave = k /\ e.slots[i].resp = m /\ e.slots[i].inserted = now

LEMMA ReemplazaBien ==
  ASSUME NEW d, now \in 0 .. MaxNow, Entera(d, now), NEW p \in 1 .. Len(Uso(d)), NEW i, i = Uso(d)[p],
         NEW m \in SeGuardan, NEW e, e = Rellena(AlFrente(d, i), i, m)
  PROVE  /\ Entera(e, now)
         /\ Uso(e) = Pon(i, Saca(Uso(d), p)) /\ OtrosDatos(d, e, i)
         /\ Puesto(e, i, d.slots[i].clave, m)
  <1> DEFINE c == AlFrente(d, i)
  <1>1. e = Rellena(c, i, m) /\ c = AlFrente(d, i)
    OBVIOUS
  <1> HIDE DEF c
  <1>2. i \in Slots
    BY UsoDatos, Zenon DEF Entera
  <1>3. Entera(c, now) /\ Uso(c) = Pon(i, Saca(Uso(d), p)) /\ MismosDatos(d, c)
    BY <1>1, AlFrenteBien, Zenon
  <1>4. EnUso(c, i)
    <2>1. Uso(d) \in Seq(Slots) /\ Saca(Uso(d), p) \in Seq(Slots)
      BY UsoDatos, SacaTipo, Zenon DEF Entera
    <2>2. Pertenece(Pon(i, Saca(Uso(d), p)), i)
      BY <1>2, <2>1, PertenecePon, Zenon
    <2>3. QED
      BY <1>3, <2>2, Zenon DEF EnUso
  <1>5. /\ Entera(e, now) /\ Uso(e) = Uso(c) /\ OtrosDatos(c, e, i)
        /\ e.slots[i].clave = c.slots[i].clave /\ e.slots[i].resp = m /\ e.slots[i].inserted = now
    BY ONLY <1>1, <1>2, <1>3, <1>4, now \in 0 .. MaxNow, m \in SeGuardan, RellenaBien
  <1>6. OtrosDatos(d, e, i)
    BY <1>3, <1>5, ZenonT(60) DEF OtrosDatos, MismosDatos
  <1>7. c.slots[i].clave = d.slots[i].clave
    BY <1>2, <1>3, Zenon DEF MismosDatos
  <1>8. QED
    BY <1>3, <1>5, <1>6, <1>7, Zenon DEF Puesto

LEMMA GuardaEnLibre ==
  ASSUME NEW d, now \in 0 .. MaxNow, Entera(d, now), NEW i, i = d.free_head, i # SLOT_NONE,
         NEW k \in Claves, \A j \in Slots : EnUso(d, j) => d.slots[j].clave # k,
         NEW m \in SeGuardan, NEW e, e = Rellena(Engancha(SacaLibre(d), i, k), i, m)
  PROVE  /\ i \in Slots /\ ~EnUso(d, i) /\ Len(Uso(d)) < CAPACITY
         /\ Entera(e, now)
         /\ Uso(e) = Pon(i, Uso(d)) /\ OtrosDatos(d, e, i)
         /\ Puesto(e, i, k, m)
  <1> DEFINE c == SacaLibre(d)
  <1>1. i \in Slots /\ Len(Uso(d)) < CAPACITY
    BY LibreCabeza, Zenon
  <1>2. e = Rellena(Engancha(c, i, k), i, m) /\ c = SacaLibre(d)
    OBVIOUS
  <1> HIDE DEF c
  <1>3. Hueco(c, i, now) /\ Uso(c) = Uso(d) /\ MismosDatos(d, c)
    BY <1>1, <1>2, SacaBien, Zenon
  <1>4. \A j \in Slots : EnUso(c, j) => c.slots[j].clave # k
    BY <1>3, Zenon DEF EnUso, MismosDatos
  <1>5. /\ Entera(e, now) /\ Uso(e) = Pon(i, Uso(c)) /\ OtrosDatos(c, e, i)
        /\ e.slots[i].clave = k /\ e.slots[i].resp = m /\ e.slots[i].inserted = now
    BY ONLY <1>1, <1>2, <1>3, <1>4, now \in 0 .. MaxNow, k \in Claves, m \in SeGuardan, PonBien
  <1>6. OtrosDatos(d, e, i)
    BY <1>3, <1>5, ZenonT(60) DEF OtrosDatos, MismosDatos
  <1>7. ~EnUso(d, i)
    BY <1>3, Zenon DEF Hueco, EnUso
  <1>8. QED
    BY <1>1, <1>3, <1>5, <1>6, <1>7, Zenon DEF Puesto

LEMMA GuardaDesalojando ==
  ASSUME NEW d, now \in 0 .. MaxNow, Entera(d, now), NEW p \in 1 .. Len(Uso(d)), NEW i, i = Uso(d)[p],
         NEW k \in Claves, \A j \in Slots : EnUso(d, j) => d.slots[j].clave # k,
         NEW m \in SeGuardan,
         NEW e, e = Rellena(Engancha(LruUnlink(HashUnlink(d, i), i), i, k), i, m)
  PROVE  /\ Entera(e, now)
         /\ Uso(e) = Pon(i, Saca(Uso(d), p)) /\ OtrosDatos(d, e, i)
         /\ Puesto(e, i, k, m)
  <1> DEFINE c == LruUnlink(HashUnlink(d, i), i)
  <1>1. e = Rellena(Engancha(c, i, k), i, m) /\ c = LruUnlink(HashUnlink(d, i), i)
    OBVIOUS
  <1> HIDE DEF c
  <1>2. i \in Slots /\ Hueco(c, i, now) /\ Uso(c) = Saca(Uso(d), p) /\ MismosDatos(d, c)
    BY <1>1, QuitaBien, Zenon
  <1>3. \A j : EnUso(c, j) => EnUso(d, j)
    <2>1. /\ Uso(d) \in Seq(Slots)
          /\ \A m1, n1 \in 1 .. Len(Uso(d)) : Uso(d)[m1] = Uso(d)[n1] => m1 = n1
      BY UsoDatos, Zenon DEF Entera
    <2>2. \A x : Pertenece(Saca(Uso(d), p), x) <=> Pertenece(Uso(d), x) /\ x # Uso(d)[p]
      BY <2>1, PerteneceSaca, Zenon
    <2>3. QED
      BY <1>2, <2>2, Zenon DEF EnUso
  <1>4. \A j \in Slots : EnUso(c, j) => c.slots[j].clave # k
    BY <1>2, <1>3, Zenon DEF MismosDatos
  <1>5. /\ Entera(e, now) /\ Uso(e) = Pon(i, Uso(c)) /\ OtrosDatos(c, e, i)
        /\ e.slots[i].clave = k /\ e.slots[i].resp = m /\ e.slots[i].inserted = now
    BY ONLY <1>1, <1>2, <1>4, now \in 0 .. MaxNow, k \in Claves, m \in SeGuardan, PonBien
  <1>6. OtrosDatos(d, e, i)
    BY <1>2, <1>5 DEF OtrosDatos, MismosDatos
  <1>7. QED
    BY <1>2, <1>5, <1>6, Zenon DEF Puesto

LEMMA CacheInicio == CacheInit => CacheInvariante
  <1> SUFFICES ASSUME CacheInit
               PROVE  CacheInvariante
    OBVIOUS
  <1>1. now = 0 /\ s_cache = Vaciada
    BY DEF CacheInit
  <1>2. 0 \in Nat /\ 0 \in 0 .. MaxNow
    BY CacheAssumption
  <1>3. Entera(s_cache, now)
    BY <1>1, <1>2, VaciadaBien, Zenon
  <1>4. QED
    BY <1>1, <1>2, <1>3 DEF CacheInvariante

LEMMA CachePaso ==
  ASSUME CacheInvariante, [CacheNext]_cacheVars
  PROVE  CacheInvariante'
  <1>1. now \in 0 .. MaxNow /\ Entera(s_cache, now) /\ now \in Nat
    BY DEF CacheInvariante
  <1> SUFFICES now' \in 0 .. MaxNow /\ Entera(s_cache', now')
    BY DEF CacheInvariante
  <1>2. ASSUME NEW k \in Claves, NEW cl \in Pidientes, GetAcierto(k, cl)
        PROVE  now' = now /\ Entera(s_cache', now)
    <2> DEFINE i == Busca(s_cache, k)
    <2>1. i = Busca(s_cache, k) /\ i # SLOT_NONE /\ s_cache' = AlFrente(s_cache, i) /\ now' = now
      BY <1>2 DEF GetAcierto
    <2> HIDE DEF i
    <2>2. PICK p \in 1 .. Len(Uso(s_cache)) : Uso(s_cache)[p] = i
      BY <1>1, <2>1, HallaBien
    <2>3. Entera(s_cache', now)
      BY <1>1, <2>1, <2>2, AlFrenteBien, Zenon
    <2>4. QED
      BY <2>1, <2>3
  <1>3. ASSUME NEW k \in Claves, GetCaducado(k)
        PROVE  now' = now /\ Entera(s_cache', now)
    <2> DEFINE i == Busca(s_cache, k)
    <2>1. i = Busca(s_cache, k) /\ i # SLOT_NONE /\ s_cache' = Libera(s_cache, i) /\ now' = now
      BY <1>3 DEF GetCaducado
    <2> HIDE DEF i
    <2>2. PICK p \in 1 .. Len(Uso(s_cache)) : Uso(s_cache)[p] = i
      BY <1>1, <2>1, HallaBien
    <2>3. Entera(s_cache', now)
      BY <1>1, <2>1, <2>2, LiberaBien, Zenon
    <2>4. QED
      BY <2>1, <2>3
  <1>4. ASSUME NEW k \in Claves, NEW m \in Mensajes, PutReemplaza(k, m)
        PROVE  now' = now /\ Entera(s_cache', now)
    <2> DEFINE i == Busca(s_cache, k)
    <2>1. /\ i = Busca(s_cache, k) /\ i # SLOT_NONE /\ m \in SeGuardan
          /\ s_cache' = Rellena(AlFrente(s_cache, i), i, m) /\ now' = now
      BY <1>4 DEF PutReemplaza
    <2> HIDE DEF i
    <2>2. PICK p \in 1 .. Len(Uso(s_cache)) : Uso(s_cache)[p] = i
      BY <1>1, <2>1, HallaBien
    <2>3. Entera(s_cache', now)
      BY <1>1, <2>1, <2>2, ReemplazaBien, Zenon
    <2>4. QED
      BY <2>1, <2>3
  <1>5. ASSUME NEW k \in Claves, NEW m \in Mensajes, PutLibre(k, m)
        PROVE  now' = now /\ Entera(s_cache', now)
    <2> DEFINE i == s_cache.free_head
    <2>1. /\ i = s_cache.free_head /\ i # SLOT_NONE /\ m \in SeGuardan
          /\ Busca(s_cache, k) = SLOT_NONE
          /\ s_cache' = Rellena(Engancha(SacaLibre(s_cache), i, k), i, m) /\ now' = now
      BY <1>5 DEF PutLibre
    <2> HIDE DEF i
    <2>2. \A j \in Slots : EnUso(s_cache, j) => s_cache.slots[j].clave # k
      BY <1>1, <2>1, HallaBien, Zenon
    <2>3. Entera(s_cache', now)
      BY <1>1, <2>1, <2>2, GuardaEnLibre, Zenon
    <2>4. QED
      BY <2>1, <2>3
  <1>6. ASSUME NEW k \in Claves, NEW m \in Mensajes, PutDesaloja(k, m)
        PROVE  now' = now /\ Entera(s_cache', now)
    <2> DEFINE i == Desalojable(s_cache)
    <2>1. /\ i = Desalojable(s_cache) /\ m \in SeGuardan
          /\ Busca(s_cache, k) = SLOT_NONE /\ s_cache.free_head = SLOT_NONE
          /\ s_cache' = Rellena(Engancha(LruUnlink(HashUnlink(s_cache, i), i), i, k), i, m)
          /\ now' = now
      BY <1>6 DEF PutDesaloja
    <2> HIDE DEF i
    <2>2. \A j \in Slots : EnUso(s_cache, j) => s_cache.slots[j].clave # k
      BY <1>1, <2>1, HallaBien, Zenon
    <2>3. Len(Uso(s_cache)) = CAPACITY
      BY <1>1, <2>1, LibreCabeza, Zenon
    <2>4. PICK p \in 1 .. Len(Uso(s_cache)) : i = Uso(s_cache)[p]
      BY <1>1, <2>1, <2>3, DesalojableBien, Zenon
    <2>5. Entera(s_cache', now)
      BY <1>1, <2>1, <2>2, <2>4, GuardaDesalojando, Zenon
    <2>6. QED
      BY <2>1, <2>5
  <1>7. CASE Clear
    <2>1. s_cache' = Vaciada /\ now' = now
      BY <1>7 DEF Clear
    <2>2. Entera(s_cache', now)
      BY <1>1, <2>1, VaciadaBien, Zenon
    <2>3. QED
      BY <1>1, <2>1, <2>2
  <1>8. CASE PasaUnSegundo
    <2>1. s_cache' = s_cache /\ now' = now + 1 /\ now' \in 0 .. MaxNow
      BY <1>1, <1>8, CacheAssumption DEF PasaUnSegundo
    <2>2. Entera(s_cache, now + 1)
      BY <1>1, EnteraLuego, Zenon
    <2>3. QED
      BY <2>1, <2>2
  <1>9. CASE UNCHANGED <<now, s_cache>>
    BY <1>1, <1>9
  <1>10. QED
    <2>1. CASE UNCHANGED cacheVars
      BY <1>9, <2>1 DEF cacheVars
    <2>2. CASE CacheNext
      <3>1. ASSUME NEW k \in Claves, GetFallo(k)
            PROVE  UNCHANGED <<now, s_cache>>
        BY <3>1 DEF GetFallo
      <3>2. ASSUME NEW m \in Mensajes, NoSeGuarda(m)
            PROVE  UNCHANGED <<now, s_cache>>
        BY <3>2 DEF NoSeGuarda
      <3>3. QED
        BY <1>1, <1>2, <1>3, <1>4, <1>5, <1>6, <1>7, <1>8, <1>9, <2>2, <3>1, <3>2, Zenon DEF CacheNext
    <2>3. QED
      BY <2>1, <2>2

LEMMA CacheSiempre == CacheSpec => []CacheInvariante
  <1>1. CacheInvariante /\ [CacheNext]_cacheVars => CacheInvariante'
    BY CachePaso
  <1>2. QED
    BY <1>1, CacheInicio, PTL DEF CacheSpec

\* The answer cache_get gives is a message.
SalidaBien ==
  \A r \in salida : r.clave \in Claves /\ r.cliente \in Pidientes /\ EsMensaje(r.resp)

\* What cache_get does: it finds the slot and gives a copy of what it holds.
LEMMA Acierta ==
  ASSUME CacheInvariante, NEW k \in Claves, NEW cl \in Pidientes, GetAcierto(k, cl)
  PROVE  \E i \in Slots :
           /\ EnUso(s_cache, i) /\ s_cache.slots[i].clave = k /\ Lleno(s_cache.slots[i], now)
           /\ now - s_cache.slots[i].inserted \in Nat
           /\ ~Caducado(s_cache.slots[i])
           /\ s_cache' = AlFrente(s_cache, i) /\ now' = now
           /\ \E r : /\ salida' = {[clave |-> k, cliente |-> cl, resp |-> r]}
                     /\ Servido(Wire[s_cache.slots[i].resp], r, cl, now - s_cache.slots[i].inserted)
  <1> DEFINE i == Busca(s_cache, k)
             s == s_cache.slots[i]
             m == Wire[s.resp]
             r == ParaCliente(s, cl)
  <1>1. now \in 0 .. MaxNow /\ Entera(s_cache, now)
    BY DEF CacheInvariante
  <1>2. /\ i = Busca(s_cache, k) /\ i # SLOT_NONE /\ ~Caducado(s)
        /\ salida' = {[clave |-> k, cliente |-> cl, resp |-> r]}
        /\ s_cache' = AlFrente(s_cache, i) /\ now' = now
    BY Zenon DEF GetAcierto
  <1>3. r = dns_wire_rewrite_id(dns_wire_decrement_ttls([m EXCEPT !.letras = cl], now - s.inserted), cl)
    BY DEF ParaCliente
  <1>4. s = s_cache.slots[i]
    OBVIOUS
  <1> HIDE DEF i, s
  <1>5. i \in Slots /\ EnUso(s_cache, i) /\ s.clave = k
    BY <1>1, <1>2, <1>4, HallaBien
  <1>6. Lleno(s, now)
    BY <1>1, <1>4, <1>5, Zenon DEF Entera, Guardado
  <1>7. s.resp \in SeGuardan /\ s.inserted \in 0 .. now
    BY <1>6 DEF Lleno
  <1>8. EsMensaje(m)
    BY <1>7, Guardables, Zenon
  <1> DEFINE edad == now - s.inserted
  <1>9. edad \in Nat
    BY <1>1, <1>7
  <1> HIDE DEF m, r, edad
  <1>10. r = dns_wire_rewrite_id(dns_wire_decrement_ttls([m EXCEPT !.letras = cl], edad), cl)
    BY <1>3 DEF edad
  <1>11. Servido(m, r, cl, edad)
    BY ONLY <1>8, <1>9, <1>10, ServidoBien, Zenon
  <1>12. edad = now - s_cache.slots[i].inserted /\ m = Wire[s_cache.slots[i].resp]
    BY <1>4 DEF edad, m
  <1>13. \E x : /\ salida' = {[clave |-> k, cliente |-> cl, resp |-> x]}
                /\ Servido(Wire[s_cache.slots[i].resp], x, cl, now - s_cache.slots[i].inserted)
    BY <1>2, <1>11, <1>12, Zenon
  <1>14. now - s_cache.slots[i].inserted \in Nat
    BY <1>9, <1>12, Zenon
  <1>15. QED
    BY <1>2, <1>4, <1>5, <1>6, <1>13, <1>14, Zenon

LEMMA SalidaSiempre == CacheSpec => []SalidaBien
  <1>1. CacheInit => SalidaBien
    BY DEF CacheInit, SalidaBien
  <1>2. ASSUME CacheInvariante, SalidaBien, [CacheNext]_cacheVars
        PROVE  SalidaBien'
    <2>1. ASSUME NEW k \in Claves, NEW cl \in Pidientes, GetAcierto(k, cl)
          PROVE  SalidaBien'
      <3>1. PICK r : salida' = {[clave |-> k, cliente |-> cl, resp |-> r]} /\ EsMensaje(r)
        BY <1>2, <2>1, Acierta, Zenon DEF Servido
      <3>2. QED
        BY <2>1, <3>1 DEF SalidaBien
    <2>2. CASE salida' = {}
      BY <2>2 DEF SalidaBien
    <2>3. CASE UNCHANGED cacheVars
      BY <1>2, <2>3 DEF SalidaBien, cacheVars
    <2>4. CASE CacheNext
      BY <2>1, <2>2, <2>4, Zenon
      DEF CacheNext, GetCaducado, GetFallo, NoSeGuarda, PutReemplaza, PutLibre, PutDesaloja, Clear,
          PasaUnSegundo
    <2>5. QED
      BY <1>2, <2>3, <2>4
  <1>3. CacheInvariante /\ SalidaBien /\ [CacheNext]_cacheVars => SalidaBien'
    BY <1>2
  <1>4. QED
    BY <1>1, <1>3, CacheSiempre, PTL DEF CacheSpec

\* The lists of the cache stay in step: every slot is in use or free, the list of
\* use reads the same from both ends, and the chains hold what is in use, each
\* slot in the bucket of its question (cache_get, cache_put, libera, cache_clear).
THEOREM EstructuraSiempre == CacheSpec => []Estructura
  <1>1. ASSUME CacheInvariante, SalidaBien
        PROVE  Estructura
    <2> DEFINE d == s_cache
               uso == Uso(d)
               libres == Libres(d)
               cadenas == [b \in Slots |-> Cadena(d, b)]
    <2>1. /\ now \in 0 .. MaxNow /\ Enlazado(d) /\ EnSuCadena(d)
          /\ \A j \in Slots : EnUso(d, j) <=> ~EstaLibre(d, j)
          /\ Len(uso) + Len(libres) = CAPACITY
      BY <1>1 DEF CacheInvariante, Entera
    <2>2. CacheTypeOK
      <3>1. d \in Estado
        BY <2>1, UsoDatos, Zenon
      <3>2. QED
        BY <1>1, <2>1, <3>1, Zenon DEF CacheTypeOK, SalidaBien
    <2>3. ASSUME NEW i \in Slots
          PROVE  Pertenece(uso, i) # Pertenece(libres, i)
      <3> DEFINE a == Pertenece(uso, i)
                 b == Pertenece(libres, i)
      <3>1. a \in BOOLEAN /\ b \in BOOLEAN
        BY Zenon DEF Pertenece
      <3>2. a <=> ~b
        BY <2>1, Zenon DEF EnUso, EstaLibre
      <3> HIDE DEF a, b
      <3>3. a # b
        BY ONLY <3>1, <3>2
      <3>4. QED
        BY <3>3 DEF a, b
    <2>4. DesdeCola(d) = [n \in DOMAIN uso |-> uso[Len(uso) + 1 - n]]
      <3>1. DesdeCola(d) = Reves(uso) /\ uso \in Seq(Slots)
        BY <2>1, ColaBien, UsoDatos, Zenon
      <3> HIDE DEF uso
      <3>2. DOMAIN uso = 1 .. Len(uso)
        BY <3>1
      <3>3. QED
        BY <3>1, <3>2, Zenon DEF Reves
    <2>5. ASSUME NEW i \in Slots, NEW b \in Slots
          PROVE  Pertenece(cadenas[b], i) <=> Pertenece(uso, i) /\ Hash[d.slots[i].clave] = b
      <3>1. cadenas[b] = Cadena(d, b)
        BY Zenon
      <3>2. QED
        BY <2>1, <3>1, Zenon DEF EnSuCadena, EnUso
    <2>6. QED
      BY <2>1, <2>2, <2>3, <2>4, <2>5, Zenon DEF Estructura
  <1>2. CacheInvariante /\ SalidaBien => Estructura
    BY <1>1
  <1>3. QED
    BY <1>2, CacheSiempre, SalidaSiempre, PTL

\* Where the deadline of an answer comes from.
LEMMA MinTtlDatos ==
  ASSUME NEW m, EsMensaje(m), dns_wire_min_ttl(m) > 0
  PROVE  \/ /\ m.an > 0 /\ SeLlega(m, m.an) /\ 1 .. m.an \subseteq DOMAIN m.rr
            /\ \E x \in 1 .. m.an : /\ dns_wire_min_ttl(m) = m.rr[x].ttl
                                    /\ \A y \in 1 .. m.an : m.rr[x].ttl <= m.rr[y].ttl
         \/ LET soas == {i \in LosQueSon(m, SOA) : i <= m.ns}
            IN  /\ m.an = 0 /\ soas # {} /\ Min(soas) \in soas /\ Min(soas) \in DOMAIN m.rr
                /\ SeLlega(m, Min(soas)) /\ dns_wire_min_ttl(m) = m.rr[Min(soas)].ttl
  <1> DEFINE soas == {i \in LosQueSon(m, SOA) : i <= m.ns}
             ttls == {m.rr[i].ttl : i \in 1 .. m.an}
  <1>1. m.an \in Nat /\ DOMAIN m.rr = 1 .. Len(m.rr) /\ \A i \in DOMAIN m.rr : m.rr[i].ttl \in Nat
    BY RrTipo, Zenon
  <1>2. ~(SinTtl > 0)
    BY DEF SinTtl
  <1>3. CASE m.an # 0
    <2>1. SeLlega(m, m.an) /\ dns_wire_min_ttl(m) = Min(ttls)
      BY <1>2, <1>3, Zenon DEF dns_wire_min_ttl
    <2>2. \A i \in 1 .. m.an : i \in DOMAIN m.rr
      BY <2>1, Zenon DEF SeLlega, walk_record
    <2>3. \A i \in 1 .. m.an : m.rr[i].ttl \in Nat
      BY <1>1, <2>2, Zenon
    <2>4. 1 \in 1 .. m.an /\ m.an > 0
      BY <1>1, <1>3
    <2>5. ttls \in SUBSET Nat /\ m.rr[1].ttl \in ttls
      BY <2>3, <2>4, Zenon
    <2>6. Min(ttls) \in ttls /\ \A y \in ttls : Min(ttls) <= y
      <3> HIDE DEF ttls
      <3>1. QED
        BY <2>5, MinTipo
    <2>7. \E x \in 1 .. m.an : Min(ttls) = m.rr[x].ttl
      BY <2>6
    <2>8. \A y \in 1 .. m.an : Min(ttls) <= m.rr[y].ttl
      BY <2>6
    <2> HIDE DEF ttls
    <2>9. \E x \in 1 .. m.an : /\ dns_wire_min_ttl(m) = m.rr[x].ttl
                               /\ \A y \in 1 .. m.an : m.rr[x].ttl <= m.rr[y].ttl
      BY <2>1, <2>7, <2>8, Zenon
    <2>10. QED
      BY <2>1, <2>2, <2>4, <2>9
  <1>4. CASE m.an = 0
    <2>1. soas \in SUBSET DOMAIN m.rr /\ DOMAIN m.rr \in SUBSET Nat
      BY <1>1, RrTipo DEF LosQueSon
    <2>2. dns_wire_min_ttl(m) =
            IF soas # {} /\ SeLlega(m, Min(soas)) THEN m.rr[Min(soas)].ttl ELSE SinTtl
      BY <1>4, Zenon DEF dns_wire_min_ttl, TtlNegativo
    <2>3. soas # {} => Min(soas) \in soas
      <3> HIDE DEF soas
      <3>1. QED
        BY <2>1, MinTipo
    <2> DEFINE A == /\ m.an = 0 /\ soas # {} /\ Min(soas) \in soas /\ Min(soas) \in DOMAIN m.rr
                    /\ SeLlega(m, Min(soas)) /\ dns_wire_min_ttl(m) = m.rr[Min(soas)].ttl
    <2>4. A
      <3> HIDE DEF soas
      <3>1. soas # {} /\ SeLlega(m, Min(soas)) /\ dns_wire_min_ttl(m) = m.rr[Min(soas)].ttl
        BY <1>2, <2>2, Zenon
      <3>2. QED
        BY <1>4, <2>1, <2>3, <3>1, Zenon
    <2>5. QED
      BY <2>4, Zenon
  <1>5. QED
    BY <1>3, <1>4

LEMMA Decide ==
  ASSUME NEW m, EsMensaje(m), dns_wire_min_ttl(m) > 0, NEW j \in Decisivos(m)
  PROVE  /\ j \in DOMAIN m.rr /\ j <= Registros(m) /\ SeLlega(m, j) /\ m.rr[j].tipo # OPT
         /\ dns_wire_min_ttl(m) <= m.rr[j].ttl
  <1> DEFINE soas == {i \in LosQueSon(m, SOA) : i <= m.ns}
  <1>1. m.an \in Nat /\ m.ns \in Nat /\ m.ar \in Nat /\ \A i \in DOMAIN m.rr : m.rr[i].ttl \in Nat
    BY RrTipo, Zenon
  <1>2. CASE /\ m.an > 0 /\ SeLlega(m, m.an) /\ 1 .. m.an \subseteq DOMAIN m.rr
             /\ \E x \in 1 .. m.an : /\ dns_wire_min_ttl(m) = m.rr[x].ttl
                                     /\ \A y \in 1 .. m.an : m.rr[x].ttl <= m.rr[y].ttl
    <2>1. j \in 1 .. m.an /\ m.rr[j].tipo # OPT
      BY <1>2, Zenon DEF Decisivos
    <2>2. j \in DOMAIN m.rr /\ dns_wire_min_ttl(m) <= m.rr[j].ttl
      BY <1>2, <2>1, Zenon
    <2>3. j <= Registros(m) /\ 1 .. j \subseteq 1 .. m.an
      BY <1>1, <2>1 DEF Registros
    <2>4. SeLlega(m, j)
      BY <1>2, <2>3, Zenon DEF SeLlega
    <2>5. QED
      BY <2>1, <2>2, <2>3, <2>4
  <1>3. CASE /\ m.an = 0 /\ soas # {} /\ Min(soas) \in soas /\ Min(soas) \in DOMAIN m.rr
             /\ SeLlega(m, Min(soas)) /\ dns_wire_min_ttl(m) = m.rr[Min(soas)].ttl
    <2>1. ~(m.an > 0)
      BY <1>3
    <2>2. j = Min(soas)
      BY <2>1, Zenon DEF Decisivos
    <2>3. Min(soas) \in LosQueSon(m, SOA)
      BY <1>3, Zenon
    <2> HIDE DEF soas
    <2>4. j \in LosQueSon(m, SOA) /\ j \in DOMAIN m.rr /\ SeLlega(m, j) /\ dns_wire_min_ttl(m) = m.rr[j].ttl
      BY <1>3, <2>2, <2>3, Zenon
    <2>5. j <= Registros(m) /\ m.rr[j].tipo = SOA
      BY <2>4, Zenon DEF LosQueSon
    <2>6. SOA # OPT
      BY DEF SOA, OPT
    <2>7. dns_wire_min_ttl(m) <= m.rr[j].ttl
      BY <1>1, <2>4
    <2>8. QED
      BY <2>4, <2>5, <2>6, <2>7
  <1>4. QED
    BY <1>2, <1>3, MinTtlDatos, Zenon

\* An answer that has not expired has been there for less than its TTL, and than
\* ttl_cap.
LEMMA EdadCorta ==
  ASSUME NEW s, now \in Nat, Lleno(s, now), ~Caducado(s)
  PROVE  /\ now - s.inserted \in Nat
         /\ now - s.inserted < TTL_CAP
         /\ now - s.inserted < MinTtl[s.resp]
         /\ now < s.inserted + TtlEfectivo(MinTtl[s.resp])
  <1> DEFINE w == TtlEfectivo(MinTtl[s.resp])
             x == MinTtl[s.resp]
             a == s.inserted
  <1>1. s.resp \in SeGuardan /\ a \in 0 .. now /\ s.expiry = a + w
    BY Zenon DEF Lleno
  <1>2. x \in Nat \ {0} /\ w \in 0 .. TTL_CAP /\ w <= x
    BY <1>1, Guardables, Zenon
  <1>3. ~(s.expiry <= now)
    BY Zenon DEF Caducado
  <1>4. TTL_CAP \in Nat
    BY CacheAssumption
  <1> HIDE DEF w, x, a
  <1>5. now - a \in Nat /\ now - a < TTL_CAP /\ now - a < x /\ now < a + w
    BY ONLY now \in Nat, <1>1, <1>2, <1>3, <1>4
  <1>6. QED
    BY <1>5 DEF w, x, a

\* What a client is given, for answer m of the upstream.
Fiel(m, s, cl, edad) ==
  /\ s = [m EXCEPT !.id = cl, !.letras = cl, !.rr = s.rr]
  /\ DOMAIN s.rr = DOMAIN m.rr
  /\ \A j \in Decisivos(m) : s.rr[j].ttl > 0 /\ s.rr[j].ttl + edad = m.rr[j].ttl
  /\ \A j \in DOMAIN m.rr :
       /\ s.rr[j] = [m.rr[j] EXCEPT !.ttl = s.rr[j].ttl]
       /\ s.rr[j].ttl <= m.rr[j].ttl
       /\ m.rr[j].tipo = OPT => s.rr[j] = m.rr[j]
  /\ edad < TTL_CAP

LEMMA FielBien ==
  ASSUME NEW m, EsMensaje(m), NEW edad \in Nat, edad < TTL_CAP, edad < dns_wire_min_ttl(m),
         NEW cl, NEW s, s = [m EXCEPT !.id = cl, !.letras = cl, !.rr = s.rr], Descontado(m, s.rr, edad)
  PROVE  Fiel(m, s, cl, edad)
  <1>1. \A i \in DOMAIN m.rr : m.rr[i] \in Registro /\ m.rr[i].ttl \in Nat
    BY RrTipo, Zenon
  <1>2. dns_wire_min_ttl(m) \in Int /\ dns_wire_min_ttl(m) > 0
    <2>1. dns_wire_min_ttl(m) \in Int
      BY MinTtlTipo, Zenon
    <2>2. QED
      BY <2>1
  <1>3. DOMAIN s.rr = DOMAIN m.rr
    BY Zenon DEF Descontado
  <1>4. ASSUME NEW j \in DOMAIN m.rr
        PROVE  /\ s.rr[j] = [m.rr[j] EXCEPT !.ttl = s.rr[j].ttl]
               /\ s.rr[j].ttl \in Nat
               /\ s.rr[j].ttl =
                    IF j <= Registros(m) /\ SeLlega(m, j) /\ m.rr[j].tipo # OPT
                      THEN IF m.rr[j].ttl > edad THEN m.rr[j].ttl - edad ELSE 0
                      ELSE m.rr[j].ttl
    BY Zenon DEF Descontado
  <1>5. ASSUME NEW j \in Decisivos(m)
        PROVE  s.rr[j].ttl > 0 /\ s.rr[j].ttl + edad = m.rr[j].ttl
    <2>1. /\ j \in DOMAIN m.rr /\ j <= Registros(m) /\ SeLlega(m, j) /\ m.rr[j].tipo # OPT
          /\ dns_wire_min_ttl(m) <= m.rr[j].ttl
      BY <1>2, Decide, Zenon
    <2>2. s.rr[j].ttl = IF m.rr[j].ttl > edad THEN m.rr[j].ttl - edad ELSE 0
      BY <1>4, <2>1, Zenon
    <2>3. m.rr[j].ttl \in Nat
      BY <1>1, <2>1
    <2>4. QED
      BY ONLY <1>2, <2>1, <2>2, <2>3, edad \in Nat, edad < dns_wire_min_ttl(m)
  <1>6. ASSUME NEW j \in DOMAIN m.rr
        PROVE  s.rr[j].ttl <= m.rr[j].ttl /\ (m.rr[j].tipo = OPT => s.rr[j] = m.rr[j])
    <2> DEFINE x == s.rr[j].ttl
               y == m.rr[j].ttl
    <2>1. x = y \/ x = IF y > edad THEN y - edad ELSE 0
      BY <1>4, Zenon
    <2>2. x \in Nat /\ y \in Nat
      BY <1>1, <1>4
    <2>3. x <= y
      BY ONLY <2>1, <2>2, edad \in Nat
    <2>4. ASSUME m.rr[j].tipo = OPT
          PROVE  s.rr[j] = m.rr[j]
      <3>1. s.rr[j].ttl = m.rr[j].ttl
        BY <1>4, <2>4, Zenon
      <3>2. s.rr[j] = [m.rr[j] EXCEPT !.ttl = m.rr[j].ttl]
        BY <1>4, <3>1, Zenon
      <3>3. m.rr[j] \in Registro
        BY <1>1
      <3>4. [m.rr[j] EXCEPT !.ttl = m.rr[j].ttl] = m.rr[j]
        BY ONLY <3>3 DEF Registro
      <3>5. QED
        BY <3>2, <3>4
    <2>5. QED
      BY <2>3, <2>4
  <1>7. QED
    BY <1>3, <1>4, <1>5, <1>6, Zenon DEF Fiel

\* A client gets the answer that is kept for its question, and no other's, with
\* its own id and letters; what it lasts is what is left of it at the upstream,
\* and it has not expired (cache_get, dns_wire_decrement_ttls).
THEOREM RespuestaFielSiempre == CacheSpec => RespuestaFiel
  <1> DEFINE Buena(r) ==
        \A i \in Slots : s_cache.slots[i].clave = r.clave =>
          Fiel(Wire[s_cache.slots[i].resp], r.resp, r.cliente, now - s_cache.slots[i].inserted)
  <1>1. ASSUME CacheInvariante, NEW k \in Claves, NEW cl \in Pidientes, GetAcierto(k, cl)
        PROVE  \A r \in salida' : Buena(r)
    <2>1. PICK i \in Slots :
            /\ EnUso(s_cache, i) /\ s_cache.slots[i].clave = k /\ Lleno(s_cache.slots[i], now)
            /\ ~Caducado(s_cache.slots[i])
            /\ \E r : /\ salida' = {[clave |-> k, cliente |-> cl, resp |-> r]}
                      /\ Servido(Wire[s_cache.slots[i].resp], r, cl, now - s_cache.slots[i].inserted)
      BY <1>1, Acierta, Zenon
    <2> DEFINE m == Wire[s_cache.slots[i].resp]
               edad == now - s_cache.slots[i].inserted
    <2>2. PICK s : /\ salida' = {[clave |-> k, cliente |-> cl, resp |-> s]}
                   /\ s = [m EXCEPT !.id = cl, !.letras = cl, !.rr = s.rr]
                   /\ Descontado(m, s.rr, edad)
      BY <2>1, Zenon DEF Servido
    <2>3. now \in Nat /\ Entera(s_cache, now)
      BY <1>1 DEF CacheInvariante
    <2>4. /\ edad \in Nat /\ edad < TTL_CAP
          /\ edad < MinTtl[s_cache.slots[i].resp]
      BY <2>1, <2>3, EdadCorta, Zenon
    <2>5. s_cache.slots[i].resp \in SeGuardan
      BY <2>1, Zenon DEF Lleno
    <2>6. EsMensaje(m) /\ MinTtl[s_cache.slots[i].resp] = dns_wire_min_ttl(m)
      BY <2>5, Guardables, Zenon
    <2>7. Fiel(m, s, cl, edad)
      <3> HIDE DEF m, edad
      <3>1. edad < dns_wire_min_ttl(m)
        BY <2>4, <2>6
      <3>2. QED
        BY ONLY <2>2, <2>4, <2>6, <3>1, FielBien, Zenon
    <2>8. ASSUME NEW x \in Slots, s_cache.slots[x].clave = k
          PROVE  x = i
      <3>1. Guardado(s_cache, now) /\ (EnUso(s_cache, x) <=> ~EstaLibre(s_cache, x))
        BY <2>3, Zenon DEF Entera
      <3>2. k # Nada
        BY CacheAssumption
      <3>3. EnUso(s_cache, x)
        BY <2>8, <3>1, <3>2, Zenon DEF Guardado
      <3>4. QED
        BY <2>1, <2>8, <3>1, <3>3, Zenon DEF Guardado
    <2> DEFINE r == [clave |-> k, cliente |-> cl, resp |-> s]
    <2>9. r.clave = k /\ r.cliente = cl /\ r.resp = s /\ salida' = {r}
      BY <2>2
    <2>10. Buena(r)
      <3> HIDE DEF r
      <3>1. QED
        BY <2>7, <2>8, <2>9, Zenon
    <2> HIDE DEF r, Buena
    <2>11. QED
      BY <2>9, <2>10
  <1>2. ASSUME CacheInvariante, [CacheNext]_cacheVars
        PROVE  [\A r \in salida' : Buena(r)]_cacheVars
    <2>1. CASE UNCHANGED cacheVars
      BY <2>1
    <2>2. CASE salida' = {}
      BY <2>2
    <2>3. CASE CacheNext
      <3> HIDE DEF Buena
      <3>1. QED
        BY <1>1, <1>2, <2>2, <2>3, Zenon
        DEF CacheNext, GetCaducado, GetFallo, NoSeGuarda, PutReemplaza, PutLibre, PutDesaloja, Clear,
            PasaUnSegundo
    <2>4. QED
      BY <1>2, <2>1, <2>3
  <1>3. CacheInvariante /\ [CacheNext]_cacheVars => [\A r \in salida' : Buena(r)]_cacheVars
    BY <1>2
  <1>4. CacheSpec => [][\A r \in salida' : Buena(r)]_cacheVars
    BY <1>3, CacheSiempre, PTL DEF CacheSpec
  <1>5. QED
    BY <1>4, PTL DEF RespuestaFiel, Fiel

-----------------------------------------------------------------------------
(***************************************************************************)
(* The cache is a map with deadlines and an order of use                   *)
(***************************************************************************)

\* What the callers see of slot j, and of the slots of a list.
Entrada(d, j) ==
  [clave |-> d.slots[j].clave, ttl |-> MinTtl[d.slots[j].resp], inserted |-> d.slots[j].inserted]

Entradas(d, r) == [n \in 1 .. Len(r) |-> Entrada(d, r[n])]

LEMMA EntradasTipo ==
  ASSUME NEW d, NEW r \in Seq(Slots)
  PROVE  /\ Entradas(d, r) \in Seq({Entrada(d, j) : j \in Slots})
         /\ Len(Entradas(d, r)) = Len(r)
         /\ DOMAIN Entradas(d, r) = 1 .. Len(r)
         /\ \A n \in 1 .. Len(r) : Entradas(d, r)[n] = Entrada(d, r[n])
  <1> DEFINE E(j) == Entrada(d, j)
             S == {E(j) : j \in Slots}
             f == [n \in 1 .. Len(r) |-> E(r[n])]
  <1>1. Len(r) \in Nat /\ \A n \in 1 .. Len(r) : r[n] \in Slots
    OBVIOUS
  <1> HIDE DEF E
  <1>2. \A n \in 1 .. Len(r) : f[n] = E(r[n]) /\ f[n] \in S
    BY <1>1
  <1>3. f \in [1 .. Len(r) -> S]
    <2> HIDE DEF S
    <2>1. QED
      BY <1>2
  <1>4. f \in Seq(S) /\ Len(f) = Len(r) /\ DOMAIN f = 1 .. Len(r)
    <2> HIDE DEF S, f
    <2>1. QED
      BY <1>1, <1>3
  <1>5. QED
    BY <1>2, <1>4 DEF Entradas, E

LEMMA EntradasSaca ==
  ASSUME NEW d, NEW r \in Seq(Slots), NEW p \in 1 .. Len(r)
  PROVE  Entradas(d, Saca(r, p)) = Saca(Entradas(d, r), p)
  <1> DEFINE a == Entradas(d, Saca(r, p))
             o == Entradas(d, r)
             q == Saca(r, p)
  <1>1. Len(r) \in Nat /\ p \in Int
    OBVIOUS
  <1>2. /\ q \in Seq(Slots) /\ Len(q) = Len(r) - 1
        /\ \A n \in 1 .. Len(r) - 1 : q[n] = IF n < p THEN r[n] ELSE r[n + 1]
    BY SacaTipo, Zenon
  <1> HIDE DEF q
  <1>3. Len(o) = Len(r) /\ \A n \in 1 .. Len(r) : o[n] = Entrada(d, r[n])
    BY EntradasTipo, Zenon
  <1>4. Saca(o, p) = [n \in 1 .. Len(r) - 1 |-> IF n < p THEN o[n] ELSE o[n + 1]]
    BY <1>3, Zenon DEF Saca
  <1>5. Entradas(d, q) = [n \in 1 .. Len(r) - 1 |-> Entrada(d, q[n])]
    BY <1>2, Zenon DEF Entradas
  <1> HIDE DEF o
  <1>6. ASSUME NEW n \in 1 .. Len(r) - 1
        PROVE  Entrada(d, q[n]) = IF n < p THEN o[n] ELSE o[n + 1]
    <2>1. n \in 1 .. Len(r) /\ n + 1 \in 1 .. Len(r)
      BY <1>1
    <2>2. CASE n < p
      BY <1>2, <1>3, <2>1, <2>2, Zenon
    <2>3. CASE ~(n < p)
      BY <1>2, <1>3, <2>1, <2>3, Zenon
    <2>4. QED
      BY <2>2, <2>3
  <1>7. Entradas(d, q) = Saca(o, p)
    BY <1>4, <1>5, <1>6, Zenon
  <1>8. QED
    BY <1>7 DEF q, o

LEMMA EntradasPon ==
  ASSUME NEW d, NEW r \in Seq(Slots), NEW i \in Slots
  PROVE  Entradas(d, Pon(i, r)) = Pon(Entrada(d, i), Entradas(d, r))
  <1> DEFINE o == Entradas(d, r)
             q == Pon(i, r)
  <1>1. Len(r) \in Nat
    OBVIOUS
  <1>2. /\ q \in Seq(Slots) /\ Len(q) = Len(r) + 1
        /\ \A n \in 1 .. Len(r) + 1 : q[n] = IF n = 1 THEN i ELSE r[n - 1]
    BY PonTipo, ZenonT(60)
  <1> HIDE DEF q
  <1>3. Len(o) = Len(r) /\ \A n \in 1 .. Len(r) : o[n] = Entrada(d, r[n])
    BY EntradasTipo, Zenon
  <1>4. Pon(Entrada(d, i), o) = [n \in 1 .. Len(r) + 1 |-> IF n = 1 THEN Entrada(d, i) ELSE o[n - 1]]
    BY <1>3, Zenon DEF Pon
  <1>5. Entradas(d, q) = [n \in 1 .. Len(r) + 1 |-> Entrada(d, q[n])]
    BY <1>2, Zenon DEF Entradas
  <1> HIDE DEF o
  <1>6. ASSUME NEW n \in 1 .. Len(r) + 1
        PROVE  Entrada(d, q[n]) = IF n = 1 THEN Entrada(d, i) ELSE o[n - 1]
    <2>1. n # 1 => n - 1 \in 1 .. Len(r)
      BY <1>1
    <2>2. CASE n = 1
      BY <1>2, <2>2, Zenon
    <2>3. CASE n # 1
      BY <1>2, <1>3, <2>1, <2>3, Zenon
    <2>4. QED
      BY <2>2, <2>3
  <1>7. Entradas(d, q) = Pon(Entrada(d, i), o)
    BY <1>4, <1>5, <1>6, Zenon
  <1>8. QED
    BY <1>7 DEF q, o

LEMMA EntradasIgual ==
  ASSUME NEW d, NEW e, NEW i, OtrosDatos(d, e, i), NEW r \in Seq(Slots), ~Pertenece(r, i)
  PROVE  Entradas(e, r) = Entradas(d, r)
  <1>1. ASSUME NEW n \in 1 .. Len(r)
        PROVE  Entrada(e, r[n]) = Entrada(d, r[n])
    <2>1. r[n] \in Slots /\ r[n] # i
      <3>1. r[n] \in Slots /\ n \in DOMAIN r
        OBVIOUS
      <3>2. QED
        BY <3>1, Zenon DEF Pertenece
    <2>2. QED
      BY <2>1, Zenon DEF OtrosDatos, Entrada
  <1>2. QED
    BY <1>1, Zenon DEF Entradas

LEMMA Concatena ==
  ASSUME NEW S, NEW x \in S, NEW s \in Seq(S)
  PROVE  <<x>> \o s = Pon(x, s)
  <1> DEFINE a == <<x>> \o s
             b == Pon(x, s)
  <1>1. /\ a \in Seq(S) /\ Len(a) = Len(s) + 1
        /\ \A n \in 1 .. Len(s) + 1 : a[n] = IF n = 1 THEN x ELSE s[n - 1]
    OBVIOUS
  <1>2. /\ b \in Seq(S) /\ Len(b) = Len(s) + 1
        /\ \A n \in 1 .. Len(s) + 1 : b[n] = IF n = 1 THEN x ELSE s[n - 1]
    BY PonTipo, ZenonT(60)
  <1> HIDE DEF a, b
  <1>3. \A n \in 1 .. Len(a) : a[n] = b[n]
    BY <1>1, <1>2, Zenon
  <1>4. a = b
    BY <1>1, <1>2, <1>3, MismaLista, ZenonT(60)
  <1>5. QED
    BY <1>4 DEF a, b

\* The contents, as a list of entries.
LEMMA ContenidoEs ==
  ASSUME NEW d, Enlazado(d)
  PROVE  LET uso == Uso(d)
         IN  [n \in DOMAIN uso |->
               LET s == d.slots[uso[n]]
               IN  [clave |-> s.clave, ttl |-> MinTtl[s.resp], inserted |-> s.inserted]]
             = Entradas(d, uso)
  <1> DEFINE uso == Uso(d)
  <1>1. uso \in Seq(Slots)
    BY UsoDatos, Zenon
  <1> HIDE DEF uso
  <1>2. DOMAIN uso = 1 .. Len(uso)
    BY <1>1
  <1>3. [n \in DOMAIN uso |->
          LET s == d.slots[uso[n]]
          IN  [clave |-> s.clave, ttl |-> MinTtl[s.resp], inserted |-> s.inserted]]
        = Entradas(d, uso)
    BY <1>2, Zenon DEF Entradas, Entrada
  <1>4. QED
    BY <1>3 DEF uso

\* The entries of a cache that is whole: one at most for each question.
Ordenada(o, d) ==
  /\ o = Entradas(d, Uso(d))
  /\ o \in Seq({Entrada(d, j) : j \in Slots})
  /\ Len(o) = Len(Uso(d)) /\ DOMAIN o = 1 .. Len(o) /\ Len(o) \in 0 .. CAPACITY
  /\ \A n \in 1 .. Len(o) :
       /\ o[n] = Entrada(d, Uso(d)[n])
       /\ o[n].clave = d.slots[Uso(d)[n]].clave
       /\ Uso(d)[n] \in Slots
  /\ \A m, n \in 1 .. Len(o) : o[m].clave = o[n].clave => m = n

LEMMA EntradasBien ==
  ASSUME NEW d, NEW u, Entera(d, u), NEW o, o = Entradas(d, Uso(d))
  PROVE  Ordenada(o, d)
  <1> DEFINE s == Uso(d)
  <1>1. Enlazado(d) /\ Guardado(d, u)
    BY DEF Entera
  <1>2. /\ s \in Seq(Slots) /\ Len(s) \in 0 .. CAPACITY
        /\ \A m, n \in 1 .. Len(s) : s[m] = s[n] => m = n
        /\ \A n \in 1 .. Len(s) : s[n] \in Slots /\ EnUso(d, s[n])
    BY <1>1, UsoDatos, Zenon
  <1> HIDE DEF s
  <1>3. /\ o \in Seq({Entrada(d, j) : j \in Slots}) /\ Len(o) = Len(s) /\ DOMAIN o = 1 .. Len(s)
        /\ \A n \in 1 .. Len(s) : o[n] = Entrada(d, s[n])
    <2>1. o = Entradas(d, s)
      BY DEF s
    <2>2. s \in Seq(Slots)
      BY <1>2
    <2>3. Entradas(d, s) \in Seq({Entrada(d, j) : j \in Slots})
      BY ONLY <2>2, EntradasTipo, Zenon
    <2>4. Len(Entradas(d, s)) = Len(s) /\ DOMAIN Entradas(d, s) = 1 .. Len(s)
      BY ONLY <2>2, EntradasTipo, Zenon
    <2>5. \A n \in 1 .. Len(s) : Entradas(d, s)[n] = Entrada(d, s[n])
      BY ONLY <2>2, EntradasTipo, Zenon
    <2>6. QED
      BY <2>1, <2>3, <2>4, <2>5, Zenon
  <1>4. \A j : Entrada(d, j).clave = d.slots[j].clave
    BY DEF Entrada
  <1>5. \A n \in 1 .. Len(s) : o[n].clave = d.slots[s[n]].clave
    BY <1>3, <1>4, Zenon
  <1>6. ASSUME NEW m \in 1 .. Len(s), NEW n \in 1 .. Len(s), o[m].clave = o[n].clave
        PROVE  m = n
    <2>1. d.slots[s[m]].clave = d.slots[s[n]].clave
      BY <1>5, <1>6, Zenon
    <2>2. s[m] = s[n]
      BY <1>1, <1>2, <2>1, Zenon DEF Guardado
    <2>3. QED
      BY <1>2, <2>2, Zenon
  <1>7. QED
    BY <1>2, <1>3, <1>5, <1>6, Zenon DEF Ordenada, s

\* Lru!De and Lru!Sin, by the place of the answer.
LEMMA SinNada ==
  ASSUME NEW d, NEW o, Ordenada(o, d), Contenido = o, NEW k, \A n \in 1 .. Len(o) : o[n].clave # k
  PROVE  Promesa!De(k) = {} /\ Promesa!Sin(k) = o
  <1>1. DOMAIN o = 1 .. Len(o)
    BY DEF Ordenada
  <1>2. Promesa!De(k) = {}
    BY <1>1, Zenon DEF Promesa!De
  <1>3. QED
    BY <1>2, Zenon DEF Promesa!Sin

LEMMA SinSaca ==
  ASSUME NEW d, NEW o, Ordenada(o, d), Contenido = o, NEW k, NEW p \in 1 .. Len(o), o[p].clave = k
  PROVE  Promesa!De(k) = {o[p]} /\ Promesa!Sin(k) = Saca(o, p)
  <1>1. DOMAIN o = 1 .. Len(o) /\ \A m, n \in 1 .. Len(o) : o[m].clave = o[n].clave => m = n
    BY Zenon DEF Ordenada
  <1>2. \A j \in DOMAIN o : o[j].clave = k <=> j = p
    BY <1>1, Zenon
  <1>3. Promesa!De(k) = {o[j] : j \in {x \in DOMAIN o : o[x].clave = k}}
    BY Zenon DEF Promesa!De
  <1>4. {x \in DOMAIN o : o[x].clave = k} = {p}
    BY <1>1, <1>2, Zenon
  <1>5. {o[j] : j \in {p}} = {o[p]}
    BY Zenon
  <1>6. Promesa!De(k) = {o[p]}
    BY <1>3, <1>4, <1>5, Zenon
  <1> DEFINE n == CHOOSE j \in DOMAIN o : o[j].clave = k
  <1>7. n \in DOMAIN o /\ o[n].clave = k
    BY <1>1, Zenon
  <1>8. n = p
    BY <1>2, <1>7, Zenon
  <1>9. Promesa!Sin(k) =
          IF Promesa!De(k) = {} THEN o
          ELSE [i \in 1 .. Len(o) - 1 |-> IF i < n THEN o[i] ELSE o[i + 1]]
    BY Zenon DEF Promesa!Sin
  <1> HIDE DEF n
  <1>10. Promesa!De(k) # {}
    BY <1>6, Zenon
  <1>11. Promesa!Sin(k) = [i \in 1 .. Len(o) - 1 |-> IF i < p THEN o[i] ELSE o[i + 1]]
    BY <1>8, <1>9, <1>10, Zenon
  <1>12. QED
    BY <1>6, <1>11, Zenon DEF Saca

\* What is left of an answer's TTL is the TTL of what a client is given.
LEMMA TtlServido ==
  ASSUME NEW m, EsMensaje(m), NEW edad \in Nat, edad < dns_wire_min_ttl(m),
         \A i \in DOMAIN m.rr : m.rr[i].tipo = OPT => i > m.an,
         NEW cl, NEW r, Servido(m, r, cl, edad)
  PROVE  dns_wire_min_ttl(r) = dns_wire_min_ttl(m) - edad
  <1> DEFINE soas == {i \in LosQueSon(m, SOA) : i <= m.ns}
             v == dns_wire_min_ttl(m)
  <1>1. v \in Int /\ v > 0
    <2>1. v \in Int
      BY MinTtlTipo, Zenon
    <2> HIDE DEF v
    <2>2. edad < v
      BY DEF v
    <2>3. QED
      BY <2>1, <2>2
  <1>2. m.an \in Nat /\ m.ns \in Nat /\ m.ar \in Nat /\ \A i \in DOMAIN m.rr : m.rr[i].ttl \in Nat
    BY RrTipo, Zenon
  <1>3. MismaForma(m, r) /\ Descontado(m, r.rr, edad)
    BY Zenon DEF Servido
  <1>4. /\ Registros(r) = Registros(m) /\ \A i : SeLlega(r, i) <=> SeLlega(m, i)
        /\ LosQueSon(r, SOA) = LosQueSon(m, SOA) /\ r.an = m.an /\ r.ns = m.ns
    BY <1>3, MismaMarcha, Zenon DEF MismaForma
  <1>5. \A j \in DOMAIN m.rr :
          j <= Registros(m) /\ SeLlega(m, j) /\ m.rr[j].tipo # OPT /\ v <= m.rr[j].ttl
            => r.rr[j].ttl = m.rr[j].ttl - edad
    <2> SUFFICES ASSUME NEW j \in DOMAIN m.rr, j <= Registros(m), SeLlega(m, j), m.rr[j].tipo # OPT,
                        v <= m.rr[j].ttl
                 PROVE  r.rr[j].ttl = m.rr[j].ttl - edad
      BY Zenon
    <2>1. r.rr[j].ttl = IF m.rr[j].ttl > edad THEN m.rr[j].ttl - edad ELSE 0
      BY <1>3, Zenon DEF Descontado
    <2>2. m.rr[j].ttl \in Nat /\ edad < v
      BY <1>2
    <2> HIDE DEF v
    <2>3. m.rr[j].ttl > edad
      BY <1>1, <2>2
    <2>4. QED
      BY <2>1, <2>3
  <1> HIDE DEF soas
  <1>6. CASE /\ m.an > 0 /\ SeLlega(m, m.an) /\ 1 .. m.an \subseteq DOMAIN m.rr
             /\ \E x \in 1 .. m.an : v = m.rr[x].ttl /\ \A y \in 1 .. m.an : m.rr[x].ttl <= m.rr[y].ttl
    <2>1. PICK x \in 1 .. m.an : v = m.rr[x].ttl /\ \A y \in 1 .. m.an : m.rr[x].ttl <= m.rr[y].ttl
      BY <1>6
    <2> HIDE DEF v
    <2>2. ASSUME NEW j \in 1 .. m.an
          PROVE  r.rr[j].ttl = m.rr[j].ttl - edad /\ m.rr[j].ttl \in Nat
      <3>1. j \in DOMAIN m.rr /\ v <= m.rr[j].ttl
        BY <1>6, <2>1, Zenon
      <3>2. j <= Registros(m) /\ 1 .. j \subseteq 1 .. m.an /\ ~(j > m.an)
        BY <1>2 DEF Registros
      <3>3. SeLlega(m, j)
        BY <1>6, <3>2, Zenon DEF SeLlega
      <3>4. m.rr[j].tipo # OPT
        BY <3>1, <3>2, Zenon
      <3>5. QED
        BY <1>2, <1>5, <3>1, <3>2, <3>3, <3>4, Zenon
    <2> DEFINE ttls == {r.rr[i].ttl : i \in 1 .. m.an}
    <2>3. Min(ttls) = r.rr[x].ttl
      <3>1. r.rr[x].ttl \in ttls
        BY Zenon
      <3>2. ttls \in SUBSET Int
        BY <2>2
      <3>3. ASSUME NEW y \in ttls
            PROVE  r.rr[x].ttl <= y
        <4>1. PICK j \in 1 .. m.an : y = r.rr[j].ttl
          BY Zenon
        <4>2. m.rr[x].ttl <= m.rr[j].ttl
          BY <2>1, Zenon
        <4>3. /\ r.rr[x].ttl = m.rr[x].ttl - edad /\ m.rr[x].ttl \in Nat
              /\ r.rr[j].ttl = m.rr[j].ttl - edad /\ m.rr[j].ttl \in Nat
          BY <2>2, Zenon
        <4>4. QED
          BY ONLY <4>1, <4>2, <4>3, edad \in Nat
      <3> HIDE DEF ttls
      <3>4. QED
        BY <3>1, <3>2, <3>3, MinEs, Zenon
    <2>4. r.an # 0 /\ SeLlega(r, r.an)
      BY <1>2, <1>4, <1>6
    <2>5. dns_wire_min_ttl(r) = Min({r.rr[i].ttl : i \in 1 .. r.an})
      BY <2>4, Zenon DEF dns_wire_min_ttl
    <2>6. dns_wire_min_ttl(r) = r.rr[x].ttl
      BY <1>4, <2>3, <2>5, Zenon
    <2>7. QED
      BY <2>1, <2>2, <2>6, Zenon DEF v
  <1>7. CASE /\ m.an = 0 /\ soas # {} /\ Min(soas) \in soas /\ Min(soas) \in DOMAIN m.rr
             /\ SeLlega(m, Min(soas)) /\ v = m.rr[Min(soas)].ttl
    <2> DEFINE x == Min(soas)
    <2>1. x \in LosQueSon(m, SOA)
      BY <1>7, Zenon DEF soas
    <2> HIDE DEF x, v
    <2>2. x \in DOMAIN m.rr /\ x <= Registros(m) /\ m.rr[x].tipo = SOA /\ SeLlega(m, x) /\ v = m.rr[x].ttl
      BY <1>7, <2>1, Zenon DEF LosQueSon, x
    <2>3. SOA # OPT /\ v <= v
      BY <1>1 DEF SOA, OPT
    <2>4. r.rr[x].ttl = m.rr[x].ttl - edad
      BY <1>5, <2>2, <2>3, Zenon
    <2>5. soas = {i \in LosQueSon(r, SOA) : i <= r.ns}
      BY <1>4, Zenon DEF soas
    <2>6. SeLlega(r, x) /\ r.an = 0
      BY <1>4, <1>7, <2>2, Zenon
    <2>7. dns_wire_min_ttl(r) = r.rr[x].ttl
      <3>1. dns_wire_min_ttl(r) = TtlNegativo(r)
        BY <2>6, Zenon DEF dns_wire_min_ttl
      <3>2. TtlNegativo(r) = IF soas # {} /\ SeLlega(r, Min(soas)) THEN r.rr[Min(soas)].ttl ELSE SinTtl
        BY <2>5, Zenon DEF TtlNegativo
      <3>3. QED
        BY <1>7, <2>6, <3>1, <3>2, Zenon DEF x
    <2>8. QED
      BY <2>2, <2>4, <2>7, Zenon DEF v
  <1>8. QED
    BY <1>1, <1>6, <1>7, MinTtlDatos, Zenon DEF soas

\* The deadline of an answer, in Lru's words.
LEMMA PlazoBien ==
  ASSUME NEW d, NEW u, NEW j, Lleno(d.slots[j], u)
  PROVE  Promesa!Plazo(Entrada(d, j)) = d.slots[j].expiry
  <1>1. /\ Entrada(d, j).inserted = d.slots[j].inserted
        /\ Entrada(d, j).ttl = MinTtl[d.slots[j].resp]
    BY DEF Entrada
  <1>2. Promesa!Plazo(Entrada(d, j)) = d.slots[j].inserted + TtlEfectivo(MinTtl[d.slots[j].resp])
    BY <1>1, Zenon DEF Promesa!Plazo, TtlEfectivo
  <1>3. QED
    BY <1>2, Zenon DEF Lleno

\* A full cache forgets the same answer.
LEMMA VictimaFiel ==
  ASSUME Entera(s_cache, now), NEW o, Ordenada(o, s_cache), Contenido = o,
         NEW p \in 1 .. Len(o),
         LET n == Len(Uso(s_cache))
             viejas == {j \in 1 .. n : j > n - EVICT_SCAN /\ Caducado(s_cache.slots[Uso(s_cache)[j]])}
         IN  IF viejas = {} THEN p = n ELSE p \in viejas /\ \A j \in viejas : j <= p
  PROVE  Promesa!Victima = o[p]
  <1> DEFINE s == Uso(s_cache)
             n == Len(s)
             viejas == {j \in 1 .. n : j > n - EVICT_SCAN /\ Caducado(s_cache.slots[s[j]])}
             antiguas == {j \in 1 .. Len(o) : j > Len(o) - EVICT_SCAN /\ Promesa!Plazo(o[j]) <= now}
  <1>0. /\ Len(o) = n
        /\ \A j \in 1 .. Len(o) : o[j] = Entrada(s_cache, s[j]) /\ s[j] \in Slots
    BY Zenon DEF Ordenada
  <1>1. /\ Len(o) = n /\ n \in Nat
        /\ \A j \in 1 .. Len(o) : o[j] = Entrada(s_cache, s[j]) /\ s[j] \in Slots
    <2>1. s \in Seq(Slots)
      BY UsoDatos, Zenon DEF Entera
    <2> HIDE DEF s
    <2>2. n \in Nat
      BY <2>1
    <2>3. QED
      BY <1>0, <2>2
  <1>2. ASSUME NEW j \in 1 .. n
        PROVE  Promesa!Plazo(o[j]) <= now <=> Caducado(s_cache.slots[s[j]])
    <2>1. j \in 1 .. Len(s) /\ s[j] \in Slots
      BY <1>1
    <2>2. Guardado(s_cache, now) /\ EnUso(s_cache, s[j])
      BY <2>1, UsoDatos, Zenon DEF Entera
    <2>3. Lleno(s_cache.slots[s[j]], now)
      BY <2>1, <2>2, Zenon DEF Guardado
    <2>4. Promesa!Plazo(o[j]) = s_cache.slots[s[j]].expiry
      BY <1>1, <2>3, PlazoBien, Zenon
    <2>5. QED
      BY <2>4, Zenon DEF Caducado
  <1>3. antiguas = viejas
    BY <1>1, <1>2, Zenon
  <1>4. IF viejas = {} THEN p = n ELSE p \in viejas /\ \A j \in viejas : j <= p
    BY Zenon
  <1>5. Promesa!Victima =
          IF antiguas = {} THEN o[Len(o)] ELSE o[CHOOSE i \in antiguas : \A j \in antiguas : j <= i]
    BY DEF Promesa!Victima
  <1>6. viejas \subseteq 1 .. n
    BY Zenon
  <1> HIDE DEF viejas, antiguas
  <1>7. CASE viejas = {}
    BY <1>1, <1>3, <1>4, <1>5, <1>7, Zenon
  <1>8. CASE viejas # {}
    <2> DEFINE q == CHOOSE i \in viejas : \A j \in viejas : j <= i
    <2>1. p \in viejas /\ \A j \in viejas : j <= p
      BY <1>4, <1>8, Zenon
    <2>2. q \in viejas /\ \A j \in viejas : j <= q
      BY <2>1, Zenon
    <2> HIDE DEF q
    <2>3. p <= q /\ q <= p /\ p \in Nat /\ q \in Nat
      BY <1>1, <1>6, <2>1, <2>2
    <2>4. q = p
      BY <2>3
    <2>5. Promesa!Victima = o[q]
      BY <1>3, <1>5, <1>8, Zenon DEF q
    <2>6. QED
      BY <2>4, <2>5, Zenon
  <1>9. QED
    BY <1>7, <1>8

\* The contents, before and after a step.
LEMMA ContenidoHoy ==
  ASSUME CacheInvariante
  PROVE  Ordenada(Contenido, s_cache)
  <1>1. Enlazado(s_cache) /\ Entera(s_cache, now)
    BY Zenon DEF CacheInvariante, Entera
  <1>2. Contenido = Entradas(s_cache, Uso(s_cache))
    BY <1>1, ContenidoEs, Zenon DEF Contenido
  <1>3. QED
    BY <1>1, <1>2, EntradasBien, Zenon

LEMMA ContenidoLuego ==
  ASSUME Entera(s_cache', now')
  PROVE  Contenido' = Entradas(s_cache', Uso(s_cache'))
  <1> DEFINE d == s_cache'
  <1>1. Enlazado(d)
    BY Zenon DEF Entera
  <1>2. Contenido' =
          LET uso == Uso(d)
          IN  [n \in DOMAIN uso |->
                LET s == d.slots[uso[n]]
                IN  [clave |-> s.clave, ttl |-> MinTtl[s.resp], inserted |-> s.inserted]]
    BY DEF Contenido
  <1> HIDE DEF d
  <1>3. Contenido' = Entradas(d, Uso(d))
    BY <1>1, <1>2, ContenidoEs, Zenon
  <1>4. QED
    BY <1>3 DEF d

\* A slot is put at the head of the list of use, and no other changes.
LEMMA EntradasDelante ==
  ASSUME NEW d, NEW e, NEW i \in Slots, NEW r \in Seq(Slots), ~Pertenece(r, i), OtrosDatos(d, e, i)
  PROVE  Entradas(e, Pon(i, r)) = <<Entrada(e, i)>> \o Entradas(d, r)
  <1> DEFINE S == {Entrada(e, j) : j \in Slots}
             x == Entrada(e, i)
             o == Entradas(e, r)
  <1>1. x \in S
    BY Zenon
  <1>2. o \in Seq(S)
    BY EntradasTipo, Zenon
  <1>3. Entradas(e, Pon(i, r)) = Pon(x, o)
    BY EntradasPon, Zenon
  <1>4. o = Entradas(d, r)
    BY EntradasIgual, Zenon
  <1> HIDE DEF S, x, o
  <1>5. <<x>> \o o = Pon(x, o)
    BY <1>1, <1>2, Concatena, Zenon
  <1>6. Entradas(e, Pon(i, r)) = <<x>> \o Entradas(d, r)
    BY <1>3, <1>4, <1>5, Zenon
  <1>7. QED
    BY <1>6 DEF x

\* The slot at place p of the list of use is put at its head.
LEMMA EntradasFrente ==
  ASSUME NEW d, NEW u, Entera(d, u), NEW p \in 1 .. Len(Uso(d)), NEW i, i = Uso(d)[p],
         NEW e, OtrosDatos(d, e, i)
  PROVE  Entradas(e, Pon(i, Saca(Uso(d), p))) = <<Entrada(e, i)>> \o Saca(Entradas(d, Uso(d)), p)
  <1> DEFINE s == Uso(d)
             r == Saca(s, p)
  <1>1. /\ s \in Seq(Slots) /\ s[p] \in Slots
        /\ \A m, n \in 1 .. Len(s) : s[m] = s[n] => m = n
    BY UsoDatos, Zenon DEF Entera
  <1>2. i \in Slots /\ i = s[p] /\ p \in 1 .. Len(s)
    BY <1>1
  <1> HIDE DEF s
  <1>3. r \in Seq(Slots)
    BY <1>1, <1>2, SacaTipo, Zenon
  <1>4. ~Pertenece(r, i)
    BY <1>1, <1>2, PerteneceSaca, Zenon
  <1>5. Entradas(d, r) = Saca(Entradas(d, s), p)
    BY <1>1, <1>2, EntradasSaca, Zenon
  <1> HIDE DEF r
  <1>6. Entradas(e, Pon(i, r)) = <<Entrada(e, i)>> \o Entradas(d, r)
    BY <1>2, <1>3, <1>4, EntradasDelante, Zenon
  <1>7. QED
    BY <1>5, <1>6 DEF r, s

LEMMA OtrosMismos ==
  ASSUME NEW d, NEW e, MismosDatos(d, e), NEW i \in Slots
  PROVE  OtrosDatos(d, e, i) /\ Entrada(e, i) = Entrada(d, i)
  BY Zenon DEF OtrosDatos, MismosDatos, Entrada

-----------------------------------------------------------------------------
(***************************************************************************)
(* Each step of the cache is one of the map                                *)
(***************************************************************************)

LEMMA PasoSirve ==
  ASSUME CacheInvariante, NEW k \in Claves, NEW cl \in Pidientes, GetAcierto(k, cl),
         Entera(s_cache', now')
  PROVE  Promesa!Sirve(k)
  <1> DEFINE o == Contenido
             s == Uso(s_cache)
  <1>1. Ordenada(o, s_cache) /\ Contenido = o
    BY ContenidoHoy, Zenon
  <1>2. PICK i \in Slots :
          /\ EnUso(s_cache, i) /\ s_cache.slots[i].clave = k /\ Lleno(s_cache.slots[i], now)
          /\ now - s_cache.slots[i].inserted \in Nat
          /\ ~Caducado(s_cache.slots[i])
          /\ s_cache' = AlFrente(s_cache, i) /\ now' = now
          /\ \E r : /\ salida' = {[clave |-> k, cliente |-> cl, resp |-> r]}
                    /\ Servido(Wire[s_cache.slots[i].resp], r, cl, now - s_cache.slots[i].inserted)
    BY Acierta, Zenon
  <1>3. PICK r : /\ salida' = {[clave |-> k, cliente |-> cl, resp |-> r]}
                 /\ Servido(Wire[s_cache.slots[i].resp], r, cl, now - s_cache.slots[i].inserted)
    BY <1>2
  <1>4. Entera(s_cache, now) /\ Enlazado(s_cache)
    BY Zenon DEF CacheInvariante, Entera
  <1>5. PICK p \in 1 .. Len(s) : s[p] = i
    BY <1>2, <1>4, UsoDatos, Zenon
  <1>6. o = Entradas(s_cache, s) /\ Len(o) = Len(s) /\ o[p] = Entrada(s_cache, i)
        /\ o[p].clave = k /\ p \in 1 .. Len(o) /\ DOMAIN o = 1 .. Len(o)
    <2>1. /\ o = Entradas(s_cache, s) /\ Len(o) = Len(s) /\ DOMAIN o = 1 .. Len(o)
          /\ \A n \in 1 .. Len(o) : o[n] = Entrada(s_cache, s[n]) /\ o[n].clave = s_cache.slots[s[n]].clave
      BY <1>1, Zenon DEF Ordenada
    <2>2. p \in 1 .. Len(o)
      BY <1>5, <2>1
    <2>3. QED
      BY <1>2, <1>5, <2>1, <2>2, Zenon
  <1>7. Uso(s_cache') = Pon(i, Saca(s, p)) /\ MismosDatos(s_cache, s_cache')
    BY <1>2, <1>4, <1>5, AlFrenteBien
  <1>8. Contenido' = <<o[p]>> \o Saca(o, p)
    <2>1. OtrosDatos(s_cache, s_cache', i) /\ Entrada(s_cache', i) = Entrada(s_cache, i)
      BY <1>7, OtrosMismos, Zenon
    <2>2. Entradas(s_cache', Pon(i, Saca(s, p))) = <<Entrada(s_cache', i)>> \o Saca(Entradas(s_cache, s), p)
      BY <1>4, <1>5, <2>1, EntradasFrente
    <2>3. Contenido' = Entradas(s_cache', Uso(s_cache'))
      BY ContenidoLuego, Zenon
    <2>4. QED
      BY <1>6, <1>7, <2>1, <2>2, <2>3
  <1> HIDE DEF o, s
  <1>9. Promesa!De(k) = {o[p]} /\ Promesa!Sin(k) = Saca(o, p)
    BY <1>1, <1>6, SinSaca, Zenon
  <1> DEFINE w == s_cache.slots[i]
             m == Wire[w.resp]
             edad == now - w.inserted
  <1>10. now \in Nat /\ w.resp \in SeGuardan /\ w.resp \in Mensajes /\ w.inserted \in Int
    <2>1. now \in Nat
      BY DEF CacheInvariante
    <2>2. w.resp \in SeGuardan /\ w.inserted \in 0 .. now
      BY <1>2, Zenon DEF Lleno
    <2>3. QED
      BY <2>1, <2>2 DEF SeGuardan
  <1>11. edad \in Nat /\ edad < MinTtl[w.resp] /\ now < w.inserted + TtlEfectivo(MinTtl[w.resp])
    BY <1>2, <1>10, EdadCorta, Zenon
  <1>12. MinTtl[w.resp] = dns_wire_min_ttl(m)
    BY <1>10, Zenon DEF MinTtl
  <1>13. dns_wire_min_ttl(r) = dns_wire_min_ttl(m) - edad
    <2>1. EsMensaje(m)
      BY <1>10, Guardables, Zenon
    <2>2. \A j \in DOMAIN m.rr : m.rr[j].tipo = OPT => j > m.an
      BY <1>10, OptAssumption, Zenon
    <2>3. edad \in Nat /\ edad < dns_wire_min_ttl(m) /\ Servido(m, r, cl, edad)
      BY <1>3, <1>11, <1>12, Zenon
    <2> HIDE DEF m, edad
    <2>4. QED
      BY <2>1, <2>2, <2>3, TtlServido, Zenon
  <1>14. o[p].ttl = MinTtl[w.resp] /\ o[p].inserted = w.inserted
    <2>1. Entrada(s_cache, i).ttl = MinTtl[w.resp] /\ Entrada(s_cache, i).inserted = w.inserted
      BY DEF Entrada
    <2>2. QED
      BY <1>6, <2>1, Zenon
  <1>15. Servida' = {[clave |-> k, ttl |-> o[p].ttl - (now - o[p].inserted)]}
    <2> DEFINE f(x) == [clave |-> x.clave, ttl |-> dns_wire_min_ttl(x.resp)]
               y == [clave |-> k, cliente |-> cl, resp |-> r]
    <2>1. Servida' = {f(x) : x \in {y}}
      BY <1>3 DEF Servida
    <2>2. f(y) = [clave |-> k, ttl |-> dns_wire_min_ttl(r)]
      OBVIOUS
    <2>3. dns_wire_min_ttl(r) = o[p].ttl - (now - o[p].inserted)
      BY <1>12, <1>13, <1>14, Zenon
    <2> HIDE DEF f, y
    <2>4. Servida' = {f(y)}
      BY <2>1, Zenon
    <2>5. QED
      BY <2>2, <2>3, <2>4, Zenon
  <1>16. now < Promesa!Plazo(o[p])
    <2>1. Promesa!Plazo(o[p]) = w.expiry
      BY <1>2, <1>6, PlazoBien, Zenon
    <2>2. w.expiry = w.inserted + TtlEfectivo(MinTtl[w.resp])
      BY <1>2, Zenon DEF Lleno
    <2>3. QED
      BY <1>11, <2>1, <2>2, Zenon
  <1>17. o[p] \in Promesa!De(k) /\ Contenido' = <<o[p]>> \o Promesa!Sin(k) /\ UNCHANGED now
    BY <1>2, <1>8, <1>9, Zenon
  <1>18. QED
    BY <1>15, <1>16, <1>17, Zenon DEF Promesa!Sirve

LEMMA EntradasNinguna ==
  ASSUME NEW d
  PROVE  Entradas(d, <<>>) = <<>>
  <1> DEFINE S == {Entrada(d, j) : j \in Slots}
             o == Entradas(d, <<>>)
             r == <<>>
  <1>1. r \in Seq(Slots) /\ Len(r) = 0 /\ r \in Seq(S)
    OBVIOUS
  <1>2. o \in Seq(S) /\ Len(o) = 0
    BY <1>1, EntradasTipo, Zenon
  <1> HIDE DEF S, o
  <1>3. o = <<>>
    BY <1>2
  <1>4. QED
    BY <1>3 DEF o

\* The place in the contents of the slot that is found, if one is.
LEMMA LugarBien ==
  ASSUME NEW d, NEW u, Entera(d, u), NEW k \in Claves, NEW o, Ordenada(o, d), Contenido = o
  PROVE  \/ /\ Busca(d, k) = SLOT_NONE
            /\ Promesa!De(k) = {} /\ Promesa!Sin(k) = o
         \/ /\ Busca(d, k) \in Slots /\ Busca(d, k) # SLOT_NONE
            /\ EnUso(d, Busca(d, k)) /\ d.slots[Busca(d, k)].clave = k
            /\ \E p \in 1 .. Len(Uso(d)) :
                 /\ Uso(d)[p] = Busca(d, k) /\ p \in 1 .. Len(o)
                 /\ o[p] = Entrada(d, Busca(d, k))
                 /\ Promesa!De(k) = {o[p]} /\ Promesa!Sin(k) = Saca(o, p)
  <1> DEFINE i == Busca(d, k)
             s == Uso(d)
  <1>1. /\ i = SLOT_NONE => \A j \in Slots : EnUso(d, j) => d.slots[j].clave # k
        /\ i # SLOT_NONE =>
             /\ i \in Slots /\ EnUso(d, i) /\ d.slots[i].clave = k
             /\ \E p \in 1 .. Len(s) : s[p] = i
    <2>1. i = Busca(d, k)
      OBVIOUS
    <2> HIDE DEF i
    <2>2. QED
      BY <2>1, HallaBien
  <1>2. \A n \in 1 .. Len(s) : s[n] \in Slots /\ EnUso(d, s[n])
    BY UsoDatos, Zenon DEF Entera
  <1>3. /\ Len(o) = Len(s)
        /\ \A n \in 1 .. Len(o) : o[n] = Entrada(d, s[n]) /\ o[n].clave = d.slots[s[n]].clave
    BY Zenon DEF Ordenada
  <1> HIDE DEF i, s
  <1>4. CASE i = SLOT_NONE
    <2>1. \A n \in 1 .. Len(o) : o[n].clave # k
      BY <1>1, <1>2, <1>3, <1>4, Zenon
    <2>2. Promesa!De(k) = {} /\ Promesa!Sin(k) = o
      BY <2>1, SinNada, Zenon
    <2>3. QED
      BY <1>4, <2>2, Zenon DEF i
  <1>5. CASE i # SLOT_NONE
    <2>1. PICK p \in 1 .. Len(s) : s[p] = i
      BY <1>1, <1>5, Zenon
    <2>2. p \in 1 .. Len(o) /\ o[p] = Entrada(d, i) /\ o[p].clave = k
      BY <1>1, <1>3, <1>5, <2>1, Zenon
    <2>3. Promesa!De(k) = {o[p]} /\ Promesa!Sin(k) = Saca(o, p)
      BY <2>2, SinSaca, Zenon
    <2>4. i \in Slots /\ EnUso(d, i) /\ d.slots[i].clave = k
      BY <1>1, <1>5, Zenon
    <2>5. QED
      BY <1>5, <2>1, <2>2, <2>3, <2>4, Zenon DEF i, s
  <1>6. QED
    BY <1>4, <1>5, Zenon

LEMMA PasoFalla ==
  ASSUME CacheInvariante, NEW k \in Claves, GetCaducado(k), Entera(s_cache', now')
  PROVE  Promesa!Falla(k)
  <1> DEFINE o == Contenido
             i == Busca(s_cache, k)
             s == Uso(s_cache)
  <1>1. Ordenada(o, s_cache) /\ Contenido = o
    BY ContenidoHoy, Zenon
  <1>2. /\ i # SLOT_NONE /\ Caducado(s_cache.slots[i]) /\ s_cache' = Libera(s_cache, i)
        /\ salida' = {} /\ now' = now
    BY Zenon DEF GetCaducado
  <1>3. Entera(s_cache, now) /\ s \in Seq(Slots)
    BY UsoDatos, Zenon DEF CacheInvariante, Entera
  <1>4. o = Entradas(s_cache, s)
    BY <1>1, Zenon DEF Ordenada
  <1> HIDE DEF o
  <1>5. /\ i \in Slots /\ EnUso(s_cache, i)
        /\ \E p \in 1 .. Len(s) :
             /\ s[p] = i /\ p \in 1 .. Len(o) /\ o[p] = Entrada(s_cache, i)
             /\ Promesa!De(k) = {o[p]} /\ Promesa!Sin(k) = Saca(o, p)
    <2>1. i = Busca(s_cache, k)
      OBVIOUS
    <2> HIDE DEF i
    <2>2. QED
      BY <1>1, <1>2, <1>3, <2>1, LugarBien
  <1> HIDE DEF i, s
  <1>6. PICK p \in 1 .. Len(s) :
             /\ s[p] = i /\ p \in 1 .. Len(o) /\ o[p] = Entrada(s_cache, i)
             /\ Promesa!De(k) = {o[p]} /\ Promesa!Sin(k) = Saca(o, p)
    BY <1>5
  <1>7. Uso(s_cache') = Saca(s, p) /\ OtrosDatos(s_cache, s_cache', i)
    BY <1>2, <1>3, <1>6, LiberaBien DEF s
  <1>8. Contenido' = Saca(o, p)
    <2>1. Contenido' = Entradas(s_cache', Uso(s_cache'))
      BY ContenidoLuego, Zenon
    <2>2. Saca(s, p) \in Seq(Slots)
      BY <1>3, <1>6, SacaTipo, Zenon
    <2>3. \A m, n \in 1 .. Len(s) : s[m] = s[n] => m = n
      BY <1>3, UsoDatos, Zenon DEF s, Entera
    <2>4. ~Pertenece(Saca(s, p), i)
      BY <1>3, <1>6, <2>3, PerteneceSaca, Zenon
    <2>5. Entradas(s_cache', Saca(s, p)) = Entradas(s_cache, Saca(s, p))
      BY <1>7, <2>2, <2>4, EntradasIgual, Zenon
    <2>6. Entradas(s_cache, Saca(s, p)) = Saca(o, p)
      BY <1>3, <1>4, <1>6, EntradasSaca, Zenon
    <2>7. QED
      BY <1>7, <2>1, <2>5, <2>6, Zenon
  <1>9. Promesa!Plazo(o[p]) <= now
    <2>1. Lleno(s_cache.slots[i], now)
      BY <1>3, <1>5, Zenon DEF Entera, Guardado
    <2>2. Promesa!Plazo(o[p]) = s_cache.slots[i].expiry
      BY <1>6, <2>1, PlazoBien, Zenon
    <2>3. QED
      BY <1>2, <2>2, Zenon DEF Caducado
  <1>10. \A e \in Promesa!De(k) : now >= Promesa!Plazo(e)
    <2>1. now >= Promesa!Plazo(o[p])
      BY <1>9
    <2>2. QED
      BY <1>6, <2>1, Zenon
  <1>11. Servida' = {}
    BY <1>2 DEF Servida
  <1>12. QED
    BY <1>2, <1>6, <1>8, <1>10, <1>11, Zenon DEF Promesa!Falla

\* cache_get that finds nothing, and a message that is not kept.
LEMMA PasoNada ==
  ASSUME salida' = {}, UNCHANGED <<now, s_cache>>
  PROVE  Promesa!Ignora
  <1>1. Servida' = {} /\ Contenido' = Contenido /\ now' = now
    BY DEF Servida, Contenido
  <1>2. QED
    BY <1>1, Zenon DEF Promesa!Ignora

\* What every cache_put has in common.
LEMMA PasoPone ==
  ASSUME now' = now, salida' = {}, NEW k \in Claves, NEW m \in SeGuardan, NEW i \in Slots,
         Puesto(s_cache', i, k, m), NEW resto,
         Contenido' = <<Entrada(s_cache', i)>> \o resto,
         resto = IF Promesa!De(k) = {} /\ Len(Contenido) = CAPACITY
                   THEN Promesa!Sin(Promesa!Victima.clave) ELSE Promesa!Sin(k)
  PROVE  \E ttl \in TtlsDe : Promesa!Guarda(k, ttl)
  <1> DEFINE v == MinTtl[m]
  <1>1. v \in TtlsDe
    BY Zenon DEF TtlsDe
  <1>2. v > 0
    BY Guardables
  <1>3. Entrada(s_cache', i) = [clave |-> k, ttl |-> v, inserted |-> now]
    BY Zenon DEF Entrada, Puesto
  <1>4. Servida' = {}
    BY DEF Servida
  <1> HIDE DEF v
  <1>5. Contenido' = <<[clave |-> k, ttl |-> v, inserted |-> now]>> \o resto
    BY <1>3, Zenon
  <1>6. Promesa!Guarda(k, v)
    BY <1>2, <1>4, <1>5, Zenon DEF Promesa!Guarda
  <1>7. QED
    BY <1>1, <1>6, Zenon

LEMMA PasoReemplaza ==
  ASSUME CacheInvariante, NEW k \in Claves, NEW m \in Mensajes, PutReemplaza(k, m),
         Entera(s_cache', now')
  PROVE  \E ttl \in TtlsDe : Promesa!Guarda(k, ttl)
  <1> DEFINE o == Contenido
             i == Busca(s_cache, k)
             s == Uso(s_cache)
  <1>1. Ordenada(o, s_cache) /\ Contenido = o
    BY ContenidoHoy, Zenon
  <1>2. /\ i # SLOT_NONE /\ m \in SeGuardan /\ s_cache' = Rellena(AlFrente(s_cache, i), i, m)
        /\ salida' = {} /\ now' = now
    BY Zenon DEF PutReemplaza
  <1>3. Entera(s_cache, now) /\ now \in 0 .. MaxNow
    BY Zenon DEF CacheInvariante
  <1>4. o = Entradas(s_cache, s)
    BY <1>1, Zenon DEF Ordenada
  <1> HIDE DEF o
  <1>5. /\ i \in Slots /\ s_cache.slots[i].clave = k
        /\ \E p \in 1 .. Len(s) :
             s[p] = i /\ Promesa!De(k) = {o[p]} /\ Promesa!Sin(k) = Saca(o, p)
    <2>1. i = Busca(s_cache, k)
      OBVIOUS
    <2> HIDE DEF i
    <2>2. QED
      BY <1>1, <1>2, <1>3, <2>1, LugarBien
  <1> HIDE DEF i, s
  <1>6. PICK p \in 1 .. Len(s) :
             s[p] = i /\ Promesa!De(k) = {o[p]} /\ Promesa!Sin(k) = Saca(o, p)
    BY <1>5
  <1>7. /\ Uso(s_cache') = Pon(i, Saca(s, p)) /\ OtrosDatos(s_cache, s_cache', i)
        /\ Puesto(s_cache', i, k, m)
    BY <1>2, <1>3, <1>5, <1>6, ReemplazaBien DEF s
  <1>8. Entradas(s_cache', Pon(i, Saca(s, p))) = <<Entrada(s_cache', i)>> \o Saca(o, p)
    BY <1>3, <1>4, <1>6, <1>7, EntradasFrente DEF s
  <1>9. Contenido' = <<Entrada(s_cache', i)>> \o Promesa!Sin(k)
    BY <1>6, <1>7, <1>8, ContenidoLuego, Zenon
  <1> DEFINE resto == Promesa!Sin(k)
  <1>10. resto = IF Promesa!De(k) = {} /\ Len(Contenido) = CAPACITY
                   THEN Promesa!Sin(Promesa!Victima.clave) ELSE Promesa!Sin(k)
    BY <1>6, Zenon
  <1>11. Contenido' = <<Entrada(s_cache', i)>> \o resto
    BY <1>9, Zenon
  <1> HIDE DEF resto
  <1>12. QED
    BY <1>2, <1>5, <1>7, <1>10, <1>11, PasoPone, Zenon

LEMMA PasoEnLibre ==
  ASSUME CacheInvariante, NEW k \in Claves, NEW m \in Mensajes, PutLibre(k, m),
         Entera(s_cache', now')
  PROVE  \E ttl \in TtlsDe : Promesa!Guarda(k, ttl)
  <1> DEFINE o == Contenido
             i == s_cache.free_head
             s == Uso(s_cache)
  <1>1. Ordenada(o, s_cache) /\ Contenido = o
    BY ContenidoHoy, Zenon
  <1>2. /\ i # SLOT_NONE /\ m \in SeGuardan /\ Busca(s_cache, k) = SLOT_NONE
        /\ i = s_cache.free_head
        /\ s_cache' = Rellena(Engancha(SacaLibre(s_cache), i, k), i, m)
        /\ salida' = {} /\ now' = now
    BY Zenon DEF PutLibre
  <1>3. Entera(s_cache, now) /\ now \in 0 .. MaxNow /\ s \in Seq(Slots)
    BY UsoDatos, Zenon DEF CacheInvariante, Entera
  <1>4. o = Entradas(s_cache, s) /\ Len(o) = Len(s)
    BY <1>1, Zenon DEF Ordenada
  <1> HIDE DEF o, i
  <1>5. Promesa!De(k) = {} /\ Promesa!Sin(k) = o
    BY <1>1, <1>2, <1>3, LugarBien, Zenon
  <1>6. \A j \in Slots : EnUso(s_cache, j) => s_cache.slots[j].clave # k
    BY <1>2, <1>3, HallaBien, Zenon
  <1>7. /\ i \in Slots /\ ~EnUso(s_cache, i) /\ Len(s) < CAPACITY
        /\ Uso(s_cache') = Pon(i, s) /\ OtrosDatos(s_cache, s_cache', i)
        /\ Puesto(s_cache', i, k, m)
    BY <1>2, <1>3, <1>6, GuardaEnLibre
  <1>8. ~Pertenece(s, i)
    BY <1>7, Zenon DEF EnUso
  <1> HIDE DEF s
  <1>9. Entradas(s_cache', Pon(i, s)) = <<Entrada(s_cache', i)>> \o o
    BY <1>3, <1>4, <1>7, <1>8, EntradasDelante, Zenon
  <1>10. Contenido' = <<Entrada(s_cache', i)>> \o o
    BY <1>7, <1>9, ContenidoLuego, Zenon
  <1>11. Len(Contenido) # CAPACITY
    <2>1. Len(s) \in Nat /\ CAPACITY \in Nat
      BY <1>3, Numeros
    <2>2. Len(s) # CAPACITY
      BY <1>7, <2>1
    <2>3. QED
      BY <1>1, <1>4, <2>2, Zenon
  <1>12. o = IF Promesa!De(k) = {} /\ Len(Contenido) = CAPACITY
               THEN Promesa!Sin(Promesa!Victima.clave) ELSE Promesa!Sin(k)
    BY <1>5, <1>11, Zenon
  <1>13. QED
    BY <1>2, <1>7, <1>10, <1>12, PasoPone, Zenon

LEMMA PasoDesaloja ==
  ASSUME CacheInvariante, NEW k \in Claves, NEW m \in Mensajes, PutDesaloja(k, m),
         Entera(s_cache', now')
  PROVE  \E ttl \in TtlsDe : Promesa!Guarda(k, ttl)
  <1> DEFINE o == Contenido
             i == Desalojable(s_cache)
             s == Uso(s_cache)
             n == Len(s)
             viejas == {j \in 1 .. n : j > n - EVICT_SCAN /\ Caducado(s_cache.slots[s[j]])}
  <1>1. Ordenada(o, s_cache) /\ Contenido = o
    BY ContenidoHoy, Zenon
  <1>2. /\ m \in SeGuardan /\ Busca(s_cache, k) = SLOT_NONE /\ s_cache.free_head = SLOT_NONE
        /\ s_cache' = Rellena(Engancha(LruUnlink(HashUnlink(s_cache, i), i), i, k), i, m)
        /\ salida' = {} /\ now' = now
    BY Zenon DEF PutDesaloja
  <1>3. Entera(s_cache, now) /\ now \in 0 .. MaxNow
    BY Zenon DEF CacheInvariante
  <1>4. /\ o = Entradas(s_cache, s) /\ Len(o) = Len(s)
        /\ \A j \in 1 .. Len(o) : o[j] = Entrada(s_cache, s[j]) /\ s[j] \in Slots
    BY <1>1, Zenon DEF Ordenada
  <1> HIDE DEF o
  <1>5. Promesa!De(k) = {} /\ Promesa!Sin(k) = o
    BY <1>1, <1>2, <1>3, LugarBien, Zenon
  <1>6. \A j \in Slots : EnUso(s_cache, j) => s_cache.slots[j].clave # k
    BY <1>2, <1>3, HallaBien, Zenon
  <1>7. Len(s) = CAPACITY
    BY <1>2, <1>3, LibreCabeza, Zenon
  <1>8. PICK p \in 1 .. Len(s) :
          i = s[p] /\ IF viejas = {} THEN p = n ELSE p \in viejas /\ \A j \in viejas : j <= p
    <2>1. \E p \in 1 .. Len(Uso(s_cache)) :
           /\ Desalojable(s_cache) = Uso(s_cache)[p]
           /\ LET n1 == Len(Uso(s_cache))
                  v1 == {j \in 1 .. n1 : j > n1 - EVICT_SCAN /\ Caducado(s_cache.slots[Uso(s_cache)[j]])}
              IN  IF v1 = {} THEN p = n1 ELSE p \in v1 /\ \A j \in v1 : j <= p
      BY <1>3, <1>7, DesalojableBien
    <2>2. QED
      BY <2>1
  <1>9. p \in 1 .. Len(o) /\ i \in Slots
    BY <1>4, <1>8
  <1>10. Promesa!Victima = o[p]
    BY <1>1, <1>3, <1>8, <1>9, VictimaFiel
  <1>11. Promesa!Sin(Promesa!Victima.clave) = Saca(o, p)
    BY <1>1, <1>9, <1>10, SinSaca, Zenon
  <1>12. /\ Uso(s_cache') = Pon(i, Saca(s, p)) /\ OtrosDatos(s_cache, s_cache', i)
         /\ Puesto(s_cache', i, k, m)
    <2> DEFINE e == s_cache'
    <2>1. e = Rellena(Engancha(LruUnlink(HashUnlink(s_cache, i), i), i, k), i, m) /\ i = s[p]
      BY <1>2, <1>8
    <2> HIDE DEF e, i
    <2>2. Uso(e) = Pon(i, Saca(s, p)) /\ OtrosDatos(s_cache, e, i) /\ Puesto(e, i, k, m)
      BY <1>2, <1>3, <1>6, <1>8, <2>1, GuardaDesalojando
    <2>3. QED
      BY <2>2 DEF e
  <1>13. Entradas(s_cache', Pon(i, Saca(s, p))) = <<Entrada(s_cache', i)>> \o Saca(o, p)
    <2> HIDE DEF i
    <2>1. i = s[p]
      BY <1>8
    <2>2. QED
      BY <1>3, <1>4, <1>12, <2>1, EntradasFrente
  <1> DEFINE resto == Saca(o, p)
  <1> HIDE DEF i, s, n, viejas
  <1>14. Contenido' = <<Entrada(s_cache', i)>> \o resto
    BY <1>12, <1>13, ContenidoLuego, Zenon
  <1>15. resto = IF Promesa!De(k) = {} /\ Len(Contenido) = CAPACITY
                   THEN Promesa!Sin(Promesa!Victima.clave) ELSE Promesa!Sin(k)
    BY <1>1, <1>4, <1>5, <1>7, <1>11, Zenon
  <1> HIDE DEF resto
  <1>16. QED
    BY <1>2, <1>9, <1>12, <1>14, <1>15, PasoPone, Zenon

LEMMA PasoVacia ==
  ASSUME Clear, Entera(s_cache', now')
  PROVE  Promesa!Vacia
  <1>1. s_cache' = Vaciada /\ salida' = {} /\ now' = now
    BY DEF Clear
  <1>2. Contenido' = <<>>
    <2>1. Uso(s_cache') = <<>>
      BY <1>1, VaciadaBien, Zenon, 0 \in Nat
    <2>2. Contenido' = Entradas(s_cache', <<>>)
      BY <2>1, ContenidoLuego, Zenon
    <2>3. Entradas(s_cache', <<>>) = <<>>
      BY EntradasNinguna, Zenon
    <2>4. QED
      BY <2>2, <2>3, Zenon
  <1>3. Servida' = {}
    BY <1>1 DEF Servida
  <1>4. QED
    BY <1>1, <1>2, <1>3, Zenon DEF Promesa!Vacia

LEMMA PasoSegundo ==
  ASSUME PasaUnSegundo
  PROVE  Promesa!Tick
  <1>1. now < MaxNow /\ now' = now + 1 /\ Servida' = {} /\ Contenido' = Contenido
    BY DEF PasaUnSegundo, Servida, Contenido
  <1>2. QED
    BY <1>1, Zenon DEF Promesa!Tick

\* The cache, link by link, is the map with deadlines and order of use of Lru: it
\* answers what that would answer and forgets what that would forget (cache_get,
\* cache_put, cache_clear).
THEOREM ImplementaLruSiempre == CacheSpec => ImplementaLru
  <1>1. CacheInit => Promesa!Init
    <2> SUFFICES ASSUME CacheInit
                 PROVE  Promesa!Init
      OBVIOUS
    <2>1. now = 0 /\ s_cache = Vaciada /\ salida = {}
      BY DEF CacheInit
    <2>2. Contenido = <<>>
      <3>1. CacheInvariante
        BY CacheInicio
      <3>2. Contenido = Entradas(s_cache, Uso(s_cache))
        BY <3>1, ContenidoHoy, Zenon DEF Ordenada
      <3>3. Uso(s_cache) = <<>>
        BY <2>1, VaciadaBien, Zenon, 0 \in Nat
      <3>4. QED
        BY <3>2, <3>3, EntradasNinguna, Zenon
    <2>3. Servida = {}
      BY <2>1 DEF Servida
    <2>4. QED
      BY <2>1, <2>2, <2>3, Zenon DEF Promesa!Init
  <1>2. ASSUME CacheInvariante, CacheInvariante', [CacheNext]_cacheVars
        PROVE  [Promesa!Next]_(Promesa!vars)
    <2>1. Entera(s_cache', now')
      BY <1>2, Zenon DEF CacheInvariante
    <2>2. CASE UNCHANGED cacheVars
      <3>1. now' = now /\ Contenido' = Contenido /\ Servida' = Servida
        BY <2>2 DEF cacheVars, Contenido, Servida
      <3>2. UNCHANGED Promesa!vars
        BY <3>1, Zenon DEF Promesa!vars
      <3>3. QED
        BY <3>2, Zenon
    <2>3. CASE CacheNext
      <3>1. ASSUME NEW k \in Claves, NEW cl \in Pidientes, GetAcierto(k, cl)
            PROVE  Promesa!Next
        <4>1. Promesa!Sirve(k)
          BY <1>2, <2>1, <3>1, PasoSirve, Zenon
        <4>2. QED
          BY <4>1, Zenon DEF Promesa!Next
      <3>2. ASSUME NEW k \in Claves, GetCaducado(k)
            PROVE  Promesa!Next
        <4>1. Promesa!Falla(k)
          BY <1>2, <2>1, <3>2, PasoFalla, Zenon
        <4>2. QED
          BY <4>1, Zenon DEF Promesa!Next
      <3>3. ASSUME NEW k \in Claves, GetFallo(k)
            PROVE  Promesa!Next
        <4>1. salida' = {} /\ UNCHANGED <<now, s_cache>>
          BY <3>3, Zenon DEF GetFallo
        <4>2. QED
          BY <4>1, PasoNada, Zenon DEF Promesa!Next
      <3>4. ASSUME NEW m \in Mensajes, NoSeGuarda(m)
            PROVE  Promesa!Next
        <4>1. salida' = {} /\ UNCHANGED <<now, s_cache>>
          BY <3>4, Zenon DEF NoSeGuarda
        <4>2. QED
          BY <4>1, PasoNada, Zenon DEF Promesa!Next
      <3>5. ASSUME NEW k \in Claves, \E ttl \in TtlsDe : Promesa!Guarda(k, ttl)
            PROVE  Promesa!Next
        BY <3>5, Zenon DEF Promesa!Next
      <3>6. ASSUME NEW k \in Claves, NEW m \in Mensajes, PutReemplaza(k, m)
            PROVE  Promesa!Next
        BY <1>2, <2>1, <3>5, <3>6, PasoReemplaza, Zenon
      <3>7. ASSUME NEW k \in Claves, NEW m \in Mensajes, PutLibre(k, m)
            PROVE  Promesa!Next
        BY <1>2, <2>1, <3>5, <3>7, PasoEnLibre, Zenon
      <3>8. ASSUME NEW k \in Claves, NEW m \in Mensajes, PutDesaloja(k, m)
            PROVE  Promesa!Next
        BY <1>2, <2>1, <3>5, <3>8, PasoDesaloja, Zenon
      <3>9. ASSUME Clear
            PROVE  Promesa!Next
        BY <2>1, <3>9, PasoVacia, Zenon DEF Promesa!Next
      <3>10. ASSUME PasaUnSegundo
             PROVE  Promesa!Next
        BY <3>10, PasoSegundo, Zenon DEF Promesa!Next
      <3>11. QED
        BY <2>3, <3>1, <3>2, <3>3, <3>4, <3>6, <3>7, <3>8, <3>9, <3>10, Zenon DEF CacheNext
    <2>4. QED
      BY <1>2, <2>2, <2>3
  <1>3. QED
    BY <1>1, <1>2, CacheSiempre, PTL DEF CacheSpec, ImplementaLru, Promesa!Spec
=============================================================================
