----------------------------- MODULE WebProofs ------------------------------
(***************************************************************************)
(* Who enters the web and who doesn't: sessions, proofs of a password and  *)
(* failed logins.  The tables hold no more than the history says: each     *)
(* entry is of one token or challenge, with the deadline that its last use *)
(* gave it.  A session that is put out with a right to stay was the oldest *)
(* of a full table, so there is one in use for every entry that remains,   *)
(* and one more.                                                           *)
(***************************************************************************)
EXTENDS Web, FiniteSetTheorems, WellFoundedInduction, TLAPS

USE WebAssumption

-----------------------------------------------------------------------------
(***************************************************************************)
(* The invariant                                                           *)
(***************************************************************************)

\* The history keeps its types, and the hash in NVS is never older than the
\* last change that was answered with a 200.
Historia ==
  /\ vigente \in 0 .. contras /\ adm.hash \in vigente .. contras
  /\ sesion \in [Token -> [contra : 0 .. contras, uso : 0 .. now, cerrada : BOOLEAN]]
  /\ reto \in [Nonce -> [emitido : 0 .. now, contra : 0 .. contras, veces : Nat]]
  /\ fallidos \in [0 .. MaxNow -> Nat]
  /\ ~config_get_admin => tokens = 0 /\ vigente = 0

EnTabla(t) == \E i \in DOMAIN s_sessions : s_sessions[i].id = t

Entradas ==
  /\ \A i \in DOMAIN s_sessions :
       LET e == s_sessions[i]
       IN  e.id # 0 => /\ e.id \in Abiertas
                       /\ e.expira = sesion[e.id].uso + WEBAPI_SESSION_TTL_S
                       /\ sesion[e.id].contra >= vigente /\ ~sesion[e.id].cerrada
  /\ \A i, j \in DOMAIN s_sessions :
       s_sessions[i].id # 0 /\ s_sessions[i].id = s_sessions[j].id => i = j

Desalojos == \A t \in Abiertas : ConDerecho(t) /\ ~EnTabla(t) => Desalojada(t)

Desafios ==
  /\ \A i \in DOMAIN s_nonces :
       LET e == s_nonces[i]
       IN  e.id # 0 => /\ e.id \in Retos
                       /\ e.expira = reto[e.id].emitido + WEBAPI_NONCE_TTL_S
                       /\ reto[e.id].veces = 0
  /\ \A n \in Nonce : n > nonces => reto[n].veces = 0

\* The failed logins before second i.
Antes(i) == IF i <= 0 THEN 0 ELSE fallidos[i - 1]

\* Those of the window in course are counted in fails, the stretch before it
\* saw one window at most, and there are none after its end.
Ventanas ==
  /\ \A i, j \in 0 .. MaxNow : i <= j => fallidos[i] <= fallidos[j]
  /\ \A i \in now .. MaxNow : fallidos[i] = fallidos[now]
  /\ fallidos[now] - Antes(win_start) <= fails
  /\ Antes(win_start) - Antes(win_start - LOGIN_WIN_S + 1) <= LOGIN_MAX_FAILS
  /\ VentanaPasada => fallidos[now] = fallidos[win_start + LOGIN_WIN_S - 1]

Invariante == TypeOK /\ Historia /\ Entradas /\ Desalojos /\ Desafios /\ Ventanas

DS == 0 .. WEBAPI_SESSIONS - 1
DN == 0 .. WEBAPI_NONCES - 1

-----------------------------------------------------------------------------
(***************************************************************************)
(* Facts about sets                                                        *)
(***************************************************************************)
LEMMA Minimo ==
  ASSUME NEW S \in SUBSET Nat, S # {}
  PROVE  \E x \in S : \A y \in S : x <= y
  <1> DEFINE R == OpToRel(<, Nat)
  <1>1. IsWellFoundedOn(R, Nat)
    BY NatLessThanWellFounded
  <1>2. \A x, y \in Nat : <<y, x>> \in R <=> y < x
    BY DEF OpToRel
  <1> HIDE DEF R
  <1>3. PICK x \in S : \A y \in S : <<y, x>> \notin R
    BY <1>1, WFMin
  <1>4. ASSUME NEW y \in S
        PROVE  x <= y
    <2>1. x \in Nat /\ y \in Nat /\ <<y, x>> \notin R
      BY <1>3
    <2>2. ~(y < x)
      BY <1>2, <2>1, Zenon
    <2>3. QED
      BY <2>1, <2>2
  <1>5. QED
    BY <1>4

LEMMA SinRepetir ==
  ASSUME NEW n \in Nat, NEW S, IsFiniteSet(S), NEW f \in [0 .. n - 1 -> S],
         \A i, j \in 0 .. n - 1 : f[i] = f[j] => i = j
  PROVE  Cardinality(S) >= n
  <1>1. f \in Injection(0 .. n - 1, S)
    BY DEF Injection, IsInjective
  <1>2. Cardinality(0 .. n - 1) <= Cardinality(S)
    BY <1>1, FS_Injection
  <1>3. Cardinality(0 .. n - 1) = n
    <2>1. 0 \in Int /\ n - 1 \in Int
      OBVIOUS
    <2>2. Cardinality(0 .. n - 1) = IF 0 > n - 1 THEN 0 ELSE n - 1 - 0 + 1
      BY <2>1, FS_Interval
    <2>3. QED
      BY <2>2
  <1>4. Cardinality(S) \in Nat
    BY FS_CardinalityType
  <1>5. QED
    BY <1>2, <1>3, <1>4

-----------------------------------------------------------------------------
(***************************************************************************)
(* The tables                                                              *)
(***************************************************************************)
LEMMA HuecoBien ==
  ASSUME NEW n \in Nat \ {0}, NEW t,
         DOMAIN t = 0 .. n - 1, \A i \in 0 .. n - 1 : t[i].expira \in Nat
  PROVE  /\ Hueco(t) \in 0 .. n - 1
         /\ t[Hueco(t)].id # 0 =>
              \A j \in 0 .. n - 1 : t[j].id # 0 /\ t[Hueco(t)].expira <= t[j].expira
  <1> DEFINE C == IF Libres(t) # {} THEN Libres(t) ELSE Victimas(t)
  <1>1. Victimas(t) # {}
    <2> DEFINE E == {t[i].expira : i \in 0 .. n - 1}
    <2>1. E \in SUBSET Nat /\ E # {}
      <3>1. 0 \in 0 .. n - 1
        OBVIOUS
      <3>2. QED
        BY <3>1
    <2>2. PICK x \in E : \A y \in E : x <= y
      BY <2>1, Minimo
    <2>3. PICK i \in 0 .. n - 1 : t[i].expira = x
      BY <2>2
    <2>4. \A j \in 0 .. n - 1 : t[i].expira <= t[j].expira
      BY <2>2, <2>3
    <2>5. i \in Victimas(t)
      BY <2>4 DEF Victimas
    <2>6. QED
      BY <2>5
  <1>2. C \in SUBSET Nat /\ C # {} /\ C \subseteq 0 .. n - 1
    <2>1. Libres(t) \subseteq 0 .. n - 1 /\ Victimas(t) \subseteq 0 .. n - 1 /\ 0 .. n - 1 \subseteq Nat
      BY DEF Libres, Victimas
    <2>2. QED
      BY <1>1, <2>1
  <1>3. Hueco(t) = CHOOSE i \in C : \A j \in C : i <= j
    BY DEF Hueco
  <1> HIDE DEF C
  <1>4. \E i \in C : \A j \in C : i <= j
    BY <1>2, Minimo
  <1>5. Hueco(t) \in C
    BY <1>3, <1>4, Zenon
  <1>6. Hueco(t) \in 0 .. n - 1
    BY <1>2, <1>5
  <1>7. ASSUME t[Hueco(t)].id # 0
        PROVE  Hueco(t) \in Victimas(t) /\ Libres(t) = {}
    <2>1. Hueco(t) \notin Libres(t)
      BY <1>7 DEF Libres
    <2>2. QED
      BY <1>5, <2>1 DEF C
  <1>8. QED
    BY <1>6, <1>7 DEF Victimas, Libres

\* What a new entry finds, and leaves as it was.
LEMMA ColocaBien ==
  ASSUME NEW n \in Nat \ {0}, NEW t, NEW id, NEW ttl \in Nat, TypeOK,
         t \in [0 .. n - 1 -> [id : Nat, expira : Nat]]
  PROVE  \E i \in 0 .. n - 1 :
           /\ Coloca(t, id, ttl) = [t EXCEPT ![i] = [id |-> id, expira |-> now + ttl]]
           /\ t[i].id # 0 => \A j \in 0 .. n - 1 : t[j].id # 0 /\ t[i].expira <= t[j].expira
  <1>1. DOMAIN t = 0 .. n - 1 /\ \A i \in 0 .. n - 1 : t[i].expira \in Nat
    OBVIOUS
  <1>2. /\ Hueco(t) \in 0 .. n - 1
        /\ t[Hueco(t)].id # 0 =>
             \A j \in 0 .. n - 1 : t[j].id # 0 /\ t[Hueco(t)].expira <= t[j].expira
    BY <1>1, HuecoBien
  <1>3. QED
    BY <1>2, Zenon DEF Coloca

\* The tables of a state that keeps its types.
LEMMA Tipos ==
  ASSUME TypeOK, Historia
  PROVE  /\ s_sessions \in [DS -> Entrada(Token, WEBAPI_SESSION_TTL_S)] /\ DOMAIN s_sessions = DS
         /\ s_nonces \in [DN -> Entrada(Nonce, WEBAPI_NONCE_TTL_S)] /\ DOMAIN s_nonces = DN
         /\ \A i \in DS : s_sessions[i].id \in Nat /\ s_sessions[i].expira \in Nat
         /\ \A i \in DN : s_nonces[i].id \in Nat /\ s_nonces[i].expira \in Nat
         /\ Abiertas \subseteq Token /\ 0 \notin Abiertas /\ Retos \subseteq Nonce /\ 0 \notin Retos
         /\ \A u \in Token : sesion[u].uso \in Nat /\ sesion[u].uso <= now /\ sesion[u].contra \in Nat
                             /\ sesion[u].contra <= contras
         /\ now \in Nat /\ vigente \in Nat /\ contras \in Nat /\ vigente <= contras
         /\ tokens \in Nat /\ nonces \in Nat
  <1>1. /\ s_sessions \in [DS -> Entrada(Token, WEBAPI_SESSION_TTL_S)] /\ DOMAIN s_sessions = DS
        /\ s_nonces \in [DN -> Entrada(Nonce, WEBAPI_NONCE_TTL_S)] /\ DOMAIN s_nonces = DN
    BY DEF TypeOK, DS, DN
  <1>2. /\ \A i \in DS : s_sessions[i].id \in Nat /\ s_sessions[i].expira \in Nat
        /\ \A i \in DN : s_nonces[i].id \in Nat /\ s_nonces[i].expira \in Nat
    BY <1>1 DEF Entrada, Token, Nonce
  <1>3. now \in Nat /\ contras \in Nat /\ tokens \in Nat /\ nonces \in Nat
        /\ tokens <= MaxTokens /\ nonces <= MaxNonces
    BY DEF TypeOK
  <1>4. Abiertas \subseteq Token /\ 0 \notin Abiertas /\ Retos \subseteq Nonce /\ 0 \notin Retos
    BY <1>3 DEF Abiertas, Token, Retos, Nonce
  <1>5. /\ \A u \in Token : sesion[u].uso \in Nat /\ sesion[u].uso <= now
                            /\ sesion[u].contra \in Nat /\ sesion[u].contra <= contras
        /\ vigente \in Nat /\ vigente <= contras
    BY <1>3 DEF Historia
  <1>6. QED
    BY <1>1, <1>2, <1>3, <1>4, <1>5

-----------------------------------------------------------------------------
(***************************************************************************)
(* Sessions                                                                *)
(***************************************************************************)

\* Who had no room doesn't get it by being left alone.
LEMMA DesalojadaCrece ==
  ASSUME TypeOK, Historia, NEW t \in Abiertas, Desalojada(t),
         tokens' \in Nat, tokens <= tokens',
         \A u \in Abiertas : sesion'[u].uso \in Nat /\ sesion[u].uso <= sesion'[u].uso,
         sesion'[t].uso = sesion[t].uso
  PROVE  Desalojada(t)'
  <1> DEFINE A == {u \in Abiertas \ {t} : sesion[u].uso >= sesion[t].uso}
             B == {u \in Abiertas' \ {t} : sesion'[u].uso >= sesion'[t].uso}
  <1>1. tokens \in Nat /\ Abiertas \subseteq Abiertas' /\ \A u \in Abiertas : sesion[u].uso \in Nat
    BY Tipos DEF Abiertas
  <1>2. A \subseteq B
    <2> SUFFICES ASSUME NEW u \in A PROVE u \in B
      OBVIOUS
    <2>1. sesion[u].uso \in Nat /\ sesion[t].uso \in Nat /\ sesion'[u].uso \in Nat
      BY <1>1
    <2>2. QED
      BY <1>1, <2>1
  <1>3. IsFiniteSet(B)
    <2>1. IsFiniteSet(1 .. tokens')
      BY FS_Interval
    <2>2. B \in SUBSET (1 .. tokens')
      BY DEF Abiertas
    <2>3. QED
      BY <2>1, <2>2, FS_Subset
  <1>4. IsFiniteSet(A) /\ Cardinality(A) <= Cardinality(B)
    <2> HIDE DEF A, B
    <2>1. QED
      BY <1>2, <1>3, FS_Subset
  <1>5. Cardinality(A) \in Nat /\ Cardinality(B) \in Nat
    <2> HIDE DEF A, B
    <2>1. QED
      BY <1>3, <1>4, FS_CardinalityType
  <1>6. Cardinality(A) >= WEBAPI_SESSIONS
    BY DEF Desalojada
  <1>7. Cardinality(B) >= WEBAPI_SESSIONS
    <2> HIDE DEF A, B
    <2>1. QED
      BY <1>4, <1>5, <1>6
  <1>8. QED
    BY <1>7 DEF Desalojada

LEMMA UsaBien ==
  ASSUME TypeOK, Historia, NEW t \in Token
  PROVE  /\ Usa(t) \in [Token -> [contra : 0 .. contras, uso : 0 .. now, cerrada : BOOLEAN]]
         /\ Usa(t)[t].uso = now /\ Usa(t)[t].contra = sesion[t].contra
         /\ Usa(t)[t].cerrada = sesion[t].cerrada
         /\ \A u \in Token : u # t => Usa(t)[u] = sesion[u]
  <1> DEFINE r == [sesion[t] EXCEPT !.uso = now]
  <1>1. /\ sesion \in [Token -> [contra : 0 .. contras, uso : 0 .. now, cerrada : BOOLEAN]]
        /\ now \in 0 .. now
    BY DEF Historia, TypeOK
  <1>2. /\ r \in [contra : 0 .. contras, uso : 0 .. now, cerrada : BOOLEAN]
        /\ r.uso = now /\ r.contra = sesion[t].contra /\ r.cerrada = sesion[t].cerrada
    BY <1>1
  <1>3. Usa(t) = [sesion EXCEPT ![t] = r]
    BY <1>1 DEF Usa
  <1> HIDE DEF r
  <1>4. QED
    BY <1>1, <1>2, <1>3

\* The steps that leave the sessions alone.
LEMMA SesionesIgual ==
  ASSUME TypeOK, Historia, Entradas, Desalojos,
         UNCHANGED <<s_sessions, sesion, tokens, vigente>>, now' \in Nat, now <= now'
  PROVE  Entradas' /\ Desalojos'
  <1>1. Entradas'
    BY DEF Entradas, Abiertas
  <1>2. ASSUME NEW t \in Abiertas, ConDerecho(t)', ~EnTabla(t)'
        PROVE  Desalojada(t)'
    <2>1. ConDerecho(t)
      BY <1>2, Tipos DEF ConDerecho
    <2>2. ~EnTabla(t)
      BY <1>2 DEF EnTabla
    <2>3. Desalojada(t)
      BY <2>1, <2>2 DEF Desalojos
    <2>4. QED
      BY <2>3 DEF Desalojada, Abiertas
  <1>3. QED
    BY <1>1, <1>2 DEF Desalojos, Abiertas

\* The steps that open none: the entries that stay follow their sessions, and
\* those that go had no right to stay.
LEMMA SesionesMenos ==
  ASSUME TypeOK, Historia, Entradas, Desalojos,
         UNCHANGED <<now, tokens>>, vigente' \in Nat, vigente <= vigente',
         DOMAIN s_sessions' = DS,
         \A i \in DS : s_sessions'[i].id # 0 =>
           LET u == s_sessions[i].id
           IN  /\ s_sessions'[i].id = u
               /\ s_sessions'[i].expira = sesion'[u].uso + WEBAPI_SESSION_TTL_S
               /\ sesion'[u].contra >= vigente' /\ ~sesion'[u].cerrada,
         \A u \in Abiertas : /\ sesion'[u].uso \in Nat /\ sesion[u].uso <= sesion'[u].uso
                             /\ sesion'[u].contra = sesion[u].contra
                             /\ sesion[u].cerrada => sesion'[u].cerrada
                             /\ ~EnTabla(u) => sesion'[u] = sesion[u],
         \A i \in DS : \A u \in Abiertas :
           s_sessions[i].id = u /\ s_sessions'[i].id = 0 => ~ConDerecho(u)'
  PROVE  Entradas' /\ Desalojos'
  <1>1. DOMAIN s_sessions = DS /\ Abiertas' = Abiertas
    BY Tipos DEF Abiertas
  <1>2. \A i \in DS : s_sessions[i].id # 0 => s_sessions[i].id \in Abiertas
    BY <1>1 DEF Entradas
  <1>3. Entradas'
    <2>1. \A i, j \in DS : s_sessions'[i].id # 0 /\ s_sessions'[i].id = s_sessions'[j].id => i = j
      BY <1>1 DEF Entradas
    <2>2. \A i \in DS : s_sessions'[i].id # 0 =>
             /\ s_sessions'[i].id \in Abiertas
             /\ s_sessions'[i].expira = sesion'[s_sessions'[i].id].uso + WEBAPI_SESSION_TTL_S
             /\ sesion'[s_sessions'[i].id].contra >= vigente' /\ ~sesion'[s_sessions'[i].id].cerrada
      BY <1>2
    <2>3. QED
      BY <1>1, <2>1, <2>2 DEF Entradas
  <1>4. ASSUME NEW t \in Abiertas, ConDerecho(t)', ~EnTabla(t)'
        PROVE  Desalojada(t)'
    <2>1. CASE EnTabla(t)
      <3>1. PICK i \in DS : s_sessions[i].id = t
        BY <1>1, <2>1 DEF EnTabla
      <3>2. t # 0
        BY Tipos
      <3>3. s_sessions'[i].id = 0
        BY <1>4, <3>1, <3>2 DEF EnTabla
      <3>4. QED
        BY <1>4, <3>1, <3>2, <3>3
    <2>2. CASE ~EnTabla(t)
      <3>1. sesion'[t] = sesion[t] /\ t \in Token /\ sesion[t].contra \in Nat /\ vigente \in Nat
        BY <2>2, Tipos
      <3>2. ConDerecho(t)
        BY <1>4, <3>1 DEF ConDerecho
      <3>3. Desalojada(t) /\ tokens \in Nat
        BY <2>2, <3>2, Tipos DEF Desalojos
      <3>4. QED
        BY <3>1, <3>3, DesalojadaCrece
    <2>3. QED
      BY <2>1, <2>2
  <1>5. QED
    BY <1>1, <1>3, <1>4 DEF Desalojos

LEMMA RefrescaPasa ==
  ASSUME TypeOK, Historia, Entradas, Desalojos, NEW t \in Abiertas \cup {0},
         UNCHANGED <<now, tokens, vigente>>,
         s_sessions' = Refresca(s_sessions, t),
         sesion' = IF Autenticado(t) THEN Usa(t) ELSE sesion
  PROVE  Entradas' /\ Desalojos'
  <1>1. /\ DOMAIN s_sessions = DS /\ now \in Nat /\ vigente \in Nat /\ Abiertas \subseteq Token
        /\ 0 \notin Abiertas
        /\ \A i \in DS : s_sessions[i].id \in Nat /\ s_sessions[i].expira \in Nat
        /\ \A u \in Token : sesion[u].uso \in Nat /\ sesion[u].uso <= now
    BY Tipos
  <1>2. Autenticado(t) => t # 0 /\ t \in Token
    BY <1>1 DEF Autenticado, Vigente, Quien
  <1>3. \A u \in Token : /\ u = t /\ Autenticado(t) =>
                              /\ sesion'[u].uso = now /\ sesion'[u].contra = sesion[u].contra
                              /\ sesion'[u].cerrada = sesion[u].cerrada
                         /\ u # t \/ ~Autenticado(t) => sesion'[u] = sesion[u]
    BY <1>2 DEF Usa, Historia
  <1>4. DOMAIN s_sessions' = DS
    BY <1>1 DEF Refresca
  <1>5. ASSUME NEW i \in DS, s_sessions[i].id # t
        PROVE  s_sessions'[i] = s_sessions[i]
    BY <1>1, <1>5 DEF Refresca, Quien
  <1>6. ASSUME NEW i \in DS, s_sessions[i].id = t, t # 0
        PROVE  /\ Autenticado(t) => /\ s_sessions'[i].id = t
                                    /\ s_sessions'[i].expira = now + WEBAPI_SESSION_TTL_S
               /\ ~Autenticado(t) => s_sessions'[i].id = 0
    <2>1. i \in Quien(s_sessions, t)
      BY <1>1, <1>6 DEF Quien
    <2>2. s_sessions'[i] = IF Autenticado(t)
                             THEN [s_sessions[i] EXCEPT !.expira = now + WEBAPI_SESSION_TTL_S]
                             ELSE Libre
      BY <1>1, <2>1 DEF Refresca, Autenticado
    <2>3. s_sessions[i] \in Entrada(Token, WEBAPI_SESSION_TTL_S)
      BY Tipos
    <2>4. QED
      BY <1>6, <2>2, <2>3 DEF Entrada, Libre
  <1>7. \A u \in Abiertas : /\ sesion'[u].uso \in Nat /\ sesion[u].uso <= sesion'[u].uso
                            /\ sesion'[u].contra = sesion[u].contra
                            /\ sesion[u].cerrada => sesion'[u].cerrada
                            /\ ~EnTabla(u) => sesion'[u] = sesion[u]
    <2> SUFFICES ASSUME NEW u \in Abiertas
                 PROVE  /\ sesion'[u].uso \in Nat /\ sesion[u].uso <= sesion'[u].uso
                        /\ sesion'[u].contra = sesion[u].contra
                        /\ sesion[u].cerrada => sesion'[u].cerrada
                        /\ ~EnTabla(u) => sesion'[u] = sesion[u]
      OBVIOUS
    <2>1. u \in Token /\ sesion[u].uso \in Nat /\ sesion[u].uso <= now
      BY <1>1
    <2>2. CASE u = t /\ Autenticado(t)
      <3>1. EnTabla(u)
        BY <2>2 DEF EnTabla, Autenticado, Vigente, Quien
      <3>2. QED
        BY <1>1, <1>3, <2>1, <2>2, <3>1
    <2>3. CASE u # t \/ ~Autenticado(t)
      BY <1>3, <2>1, <2>3
    <2>4. QED
      BY <2>2, <2>3
  <1>8. ASSUME NEW i \in DS, s_sessions'[i].id # 0
        PROVE  /\ s_sessions'[i].id = s_sessions[i].id
               /\ s_sessions'[i].expira = sesion'[s_sessions[i].id].uso + WEBAPI_SESSION_TTL_S
               /\ sesion'[s_sessions[i].id].contra >= vigente'
               /\ ~sesion'[s_sessions[i].id].cerrada
    <2>1. CASE s_sessions[i].id # t
      <3>1. s_sessions'[i] = s_sessions[i] /\ s_sessions[i].id # 0
        BY <1>5, <1>8, <2>1
      <3>2. /\ s_sessions[i].id \in Abiertas
            /\ s_sessions[i].expira = sesion[s_sessions[i].id].uso + WEBAPI_SESSION_TTL_S
            /\ sesion[s_sessions[i].id].contra >= vigente /\ ~sesion[s_sessions[i].id].cerrada
        BY <1>1, <3>1 DEF Entradas
      <3>3. sesion'[s_sessions[i].id] = sesion[s_sessions[i].id]
        BY <1>1, <1>3, <2>1, <3>2
      <3>4. QED
        BY <3>1, <3>2, <3>3
    <2>2. CASE s_sessions[i].id = t /\ t # 0
      <3>1. /\ t \in Token /\ sesion[t].contra >= vigente /\ ~sesion[t].cerrada
        BY <1>1, <2>2 DEF Entradas
      <3>2. Autenticado(t)
        BY <1>6, <1>8, <2>2
      <3>3. QED
        BY <1>3, <1>6, <2>2, <3>1, <3>2
    <2>3. CASE s_sessions[i].id = t /\ t = 0
      <3>1. i \notin Quien(s_sessions, t)
        BY <2>3 DEF Quien
      <3>2. s_sessions'[i] = s_sessions[i]
        BY <1>1, <3>1 DEF Refresca
      <3>3. QED
        BY <1>8, <2>3, <3>2
    <2>4. QED
      BY <2>1, <2>2, <2>3
  <1>9. ASSUME NEW i \in DS, NEW u \in Abiertas, s_sessions[i].id = u, s_sessions'[i].id = 0
        PROVE  ~ConDerecho(u)'
    <2>1. u = t /\ u # 0 /\ ~Autenticado(t)
      BY <1>1, <1>5, <1>6, <1>9
    <2>2. t \in Token /\ s_sessions[i].expira = sesion[t].uso + WEBAPI_SESSION_TTL_S /\ sesion'[t] = sesion[t]
      BY <1>1, <1>3, <1>9, <2>1 DEF Entradas
    <2>3. i \in Quien(s_sessions, t)
      BY <1>1, <1>9, <2>1 DEF Quien
    <2>4. ~(s_sessions[i].expira > now)
      BY <2>1, <2>3 DEF Autenticado, Vigente
    <2>5. ~(now' < sesion'[t].uso + WEBAPI_SESSION_TTL_S)
      BY <1>1, <2>2, <2>4
    <2>6. ~ConDerecho(t)'
      BY <2>5 DEF ConDerecho
    <2>7. QED
      BY <2>1, <2>6
  <1>10. vigente <= vigente' /\ vigente' \in Nat
    BY <1>1
  <1>11. QED
    BY <1>4, <1>7, <1>8, <1>9, <1>10, SesionesMenos

LEMMA LogoutSesiones ==
  ASSUME TypeOK, Historia, Entradas, Desalojos, NEW t \in Abiertas, h_logout(t)
  PROVE  Entradas' /\ Desalojos'
  <1>1. /\ DOMAIN s_sessions = DS /\ now \in Nat /\ vigente \in Nat /\ t \in Token /\ t # 0
        /\ Abiertas \subseteq Token /\ 0 \notin Abiertas
        /\ \A i \in DS : s_sessions[i].id \in Nat
        /\ \A u \in Token : sesion[u].uso \in Nat /\ sesion[u].uso <= now
    BY Tipos
  <1>2. /\ Autenticado(t) /\ s_sessions' = Quita(s_sessions, t)
        /\ sesion' = [Usa(t) EXCEPT ![t].cerrada = TRUE]
        /\ UNCHANGED <<now, tokens, vigente>>
    BY DEF h_logout
  <1>3. \A u \in Token : /\ u = t => /\ sesion'[u].uso = now /\ sesion'[u].contra = sesion[u].contra
                                     /\ sesion'[u].cerrada = TRUE
                         /\ u # t => sesion'[u] = sesion[u]
    <2> DEFINE h == Usa(t)
    <2>1. /\ h \in [Token -> [contra : 0 .. contras, uso : 0 .. now, cerrada : BOOLEAN]]
          /\ h[t].uso = now /\ h[t].contra = sesion[t].contra
          /\ \A u \in Token : u # t => h[u] = sesion[u]
      BY <1>1, UsaBien
    <2>2. sesion' = [h EXCEPT ![t].cerrada = TRUE]
      BY <1>2
    <2> HIDE DEF h
    <2>3. QED
      BY <1>1, <2>1, <2>2
  <1>4. /\ DOMAIN s_sessions' = DS
        /\ \A i \in DS : /\ s_sessions[i].id # t => s_sessions'[i] = s_sessions[i]
                         /\ s_sessions[i].id = t => s_sessions'[i].id = 0
    BY <1>1, <1>2 DEF Quita, Quien, Libre
  <1>5. EnTabla(t)
    BY <1>2 DEF EnTabla, Autenticado, Vigente, Quien
  <1>6. \A u \in Abiertas : /\ sesion'[u].uso \in Nat /\ sesion[u].uso <= sesion'[u].uso
                            /\ sesion'[u].contra = sesion[u].contra
                            /\ sesion[u].cerrada => sesion'[u].cerrada
                            /\ ~EnTabla(u) => sesion'[u] = sesion[u]
    <2> SUFFICES ASSUME NEW u \in Abiertas
                 PROVE  /\ sesion'[u].uso \in Nat /\ sesion[u].uso <= sesion'[u].uso
                        /\ sesion'[u].contra = sesion[u].contra
                        /\ sesion[u].cerrada => sesion'[u].cerrada
                        /\ ~EnTabla(u) => sesion'[u] = sesion[u]
      OBVIOUS
    <2>1. CASE u = t
      BY <1>1, <1>3, <1>5, <2>1
    <2>2. CASE u # t
      BY <1>1, <1>3, <2>2
    <2>3. QED
      BY <2>1, <2>2
  <1>7. ASSUME NEW i \in DS, s_sessions'[i].id # 0
        PROVE  /\ s_sessions'[i].id = s_sessions[i].id
               /\ s_sessions'[i].expira = sesion'[s_sessions[i].id].uso + WEBAPI_SESSION_TTL_S
               /\ sesion'[s_sessions[i].id].contra >= vigente'
               /\ ~sesion'[s_sessions[i].id].cerrada
    <2>1. s_sessions[i].id # t /\ s_sessions'[i] = s_sessions[i] /\ s_sessions[i].id # 0
      BY <1>4, <1>7
    <2>2. /\ s_sessions[i].id \in Abiertas
          /\ s_sessions[i].expira = sesion[s_sessions[i].id].uso + WEBAPI_SESSION_TTL_S
          /\ sesion[s_sessions[i].id].contra >= vigente /\ ~sesion[s_sessions[i].id].cerrada
      BY <1>1, <2>1 DEF Entradas
    <2>3. sesion'[s_sessions[i].id] = sesion[s_sessions[i].id]
      BY <1>1, <1>3, <2>1, <2>2
    <2>4. QED
      BY <1>2, <2>1, <2>2, <2>3
  <1>8. ASSUME NEW i \in DS, NEW u \in Abiertas, s_sessions[i].id = u, s_sessions'[i].id = 0
        PROVE  ~ConDerecho(u)'
    <2>1. u = t
      BY <1>1, <1>4, <1>8
    <2>2. sesion'[u].cerrada
      BY <1>1, <1>3, <2>1
    <2>3. QED
      BY <2>2 DEF ConDerecho
  <1>9. vigente <= vigente' /\ vigente' \in Nat
    BY <1>1, <1>2
  <1>10. QED
    BY <1>2, <1>4, <1>6, <1>7, <1>8, <1>9, SesionesMenos

\* After a change of password no session is left, nor has the right to be.
LEMMA PasswordSesiones ==
  ASSUME TypeOK, Historia, NEW t \in Abiertas, tokens' = tokens, Autenticado(t),
         s_sessions' = TrasCambio, sesion' = Usa(t), vigente' = contras + 1
  PROVE  Entradas' /\ Desalojos'
  <1>1. \A u \in Token : sesion'[u].contra \in Nat /\ sesion'[u].contra <= contras
    <2>1. t \in Token /\ \A u \in Token : sesion[u].contra \in Nat /\ sesion[u].contra <= contras
      BY Tipos
    <2>2. \A u \in Token : sesion'[u].contra = sesion[u].contra
      BY <2>1 DEF Usa, Historia
    <2>3. QED
      BY <2>1, <2>2
  <1>2. contras \in Nat /\ Abiertas' \subseteq Token
    BY Tipos DEF Abiertas
  <1>3. \A u \in Abiertas' : ~ConDerecho(u)'
    <2> SUFFICES ASSUME NEW u \in Abiertas'
                 PROVE  ~ConDerecho(u)'
      OBVIOUS
    <2>1. ~(sesion'[u].contra >= vigente')
      BY <1>1, <1>2
    <2>2. QED
      BY <2>1 DEF ConDerecho
  <1>4. DOMAIN s_sessions' = DS /\ \A i \in DS : s_sessions'[i].id = 0
    BY DEF TrasCambio, Vacia, Libre, DS
  <1>5. Entradas'
    BY <1>4 DEF Entradas
  <1>6. QED
    BY <1>3, <1>5 DEF Desalojos

\* A session is opened, with the password in force or a later one.
LEMMA AbrePasa ==
  ASSUME TypeOK, Historia, Entradas, Desalojos, NEW c \in 0 .. contras', Abre(s_sessions, c),
         UNCHANGED now, vigente' \in Nat, vigente' <= c, vigente' = vigente \/ tokens = 0
  PROVE  Entradas' /\ Desalojos'
  <1> DEFINE k == tokens + 1
  <1>1. /\ tokens < MaxTokens /\ tokens' = k
        /\ s_sessions' = Coloca(s_sessions, k, WEBAPI_SESSION_TTL_S)
        /\ sesion' = [sesion EXCEPT ![k] = [contra |-> c, uso |-> now, cerrada |-> FALSE]]
    BY DEF Abre
  <1>2. /\ DOMAIN s_sessions = DS /\ now \in Nat /\ vigente \in Nat /\ tokens \in Nat
        /\ Abiertas \subseteq Token /\ 0 \notin Abiertas
        /\ \A i \in DS : s_sessions[i].id \in Nat /\ s_sessions[i].expira \in Nat
        /\ \A u \in Token : sesion[u].uso \in Nat /\ sesion[u].uso <= now
    BY Tipos
  <1>3. /\ k \in Token /\ k \notin Abiertas /\ k # 0 /\ k \in Nat
        /\ Abiertas' = Abiertas \cup {k} /\ tokens <= tokens' /\ tokens' \in Nat
    BY <1>1, <1>2 DEF Abiertas, Token
  <1>4. PICK i \in DS :
          /\ s_sessions' = [s_sessions EXCEPT ![i] = [id |-> k, expira |-> now + WEBAPI_SESSION_TTL_S]]
          /\ s_sessions[i].id # 0 =>
               \A j \in DS : s_sessions[j].id # 0 /\ s_sessions[i].expira <= s_sessions[j].expira
    <2>1. s_sessions \in [0 .. WEBAPI_SESSIONS - 1 -> [id : Nat, expira : Nat]]
      <3>1. s_sessions \in [DS -> Entrada(Token, WEBAPI_SESSION_TTL_S)]
        BY Tipos
      <3>2. Entrada(Token, WEBAPI_SESSION_TTL_S) \subseteq [id : Nat, expira : Nat]
        BY DEF Entrada, Token
      <3>3. QED
        BY <3>1, <3>2 DEF DS
    <2>2. WEBAPI_SESSION_TTL_S \in Nat /\ WEBAPI_SESSIONS \in Nat \ {0}
      OBVIOUS
    <2> HIDE DEF k
    <2>3. QED
      BY <1>1, <2>1, <2>2, ColocaBien DEF DS
  <1>5. /\ DOMAIN s_sessions' = DS
        /\ s_sessions'[i].id = k /\ s_sessions'[i].expira = now + WEBAPI_SESSION_TTL_S
        /\ \A j \in DS : j # i => s_sessions'[j] = s_sessions[j]
    BY <1>2, <1>4
  <1>6. /\ sesion'[k].contra = c /\ sesion'[k].uso = now /\ sesion'[k].cerrada = FALSE
        /\ \A u \in Token : u # k => sesion'[u] = sesion[u]
    BY <1>1, <1>3 DEF Historia
  <1>7. \A u \in Abiertas : u \in Token /\ u # k /\ sesion'[u] = sesion[u]
    BY <1>2, <1>3, <1>6
  <1> HIDE DEF k
  <1>8. \A j \in DS : s_sessions[j].id # 0 =>
          /\ s_sessions[j].id \in Abiertas /\ tokens # 0
          /\ s_sessions[j].expira = sesion[s_sessions[j].id].uso + WEBAPI_SESSION_TTL_S
          /\ sesion[s_sessions[j].id].contra >= vigente /\ ~sesion[s_sessions[j].id].cerrada
    <2>1. tokens = 0 => Abiertas = {}
      BY DEF Abiertas
    <2>2. QED
      BY <1>2, <2>1 DEF Entradas
  <1>9. Entradas'
    <2>1. ASSUME NEW j \in DS, s_sessions'[j].id # 0
          PROVE  /\ s_sessions'[j].id \in Abiertas'
                 /\ s_sessions'[j].expira = sesion'[s_sessions'[j].id].uso + WEBAPI_SESSION_TTL_S
                 /\ sesion'[s_sessions'[j].id].contra >= vigente'
                 /\ ~sesion'[s_sessions'[j].id].cerrada
      <3>1. CASE j = i
        BY <1>3, <1>5, <1>6, <3>1
      <3>2. CASE j # i
        <4>1. s_sessions'[j] = s_sessions[j] /\ s_sessions[j].id # 0
          BY <1>5, <2>1, <3>2
        <4>2. vigente' = vigente /\ sesion'[s_sessions[j].id] = sesion[s_sessions[j].id]
          BY <1>7, <1>8, <4>1
        <4>3. QED
          BY <1>3, <1>8, <4>1, <4>2
      <3>3. QED
        BY <3>1, <3>2
    <2>2. ASSUME NEW j \in DS, NEW l \in DS, s_sessions'[j].id # 0, s_sessions'[j].id = s_sessions'[l].id
          PROVE  j = l
      <3>1. \A m \in DS : m # i => s_sessions'[m] = s_sessions[m] /\ s_sessions[m].id # k
        BY <1>3, <1>5, <1>8
      <3>2. QED
        BY <1>2, <1>5, <2>2, <3>1 DEF Entradas
    <2>3. QED
      BY <1>5, <2>1, <2>2 DEF Entradas
  <1>10. ASSUME NEW t \in Abiertas', ConDerecho(t)', ~EnTabla(t)'
         PROVE  Desalojada(t)'
    <2>1. t # k
      BY <1>5, <1>10 DEF EnTabla
    <2>2. t \in Abiertas /\ t \in Token /\ sesion'[t] = sesion[t] /\ tokens # 0 /\ t # 0
      <3>1. t \in Abiertas
        BY <1>3, <2>1
      <3>2. QED
        BY <1>2, <1>7, <3>1 DEF Abiertas
    <2>3. vigente' = vigente
      BY <2>2
    <2>4. CASE ~EnTabla(t)
      <3>1. ConDerecho(t)
        BY <1>10, <2>2, <2>3 DEF ConDerecho
      <3>2. Desalojada(t)
        BY <2>2, <2>4, <3>1 DEF Desalojos
      <3>3. \A u \in Abiertas : sesion'[u].uso \in Nat /\ sesion[u].uso <= sesion'[u].uso
        BY <1>2, <1>7
      <3>4. QED
        BY <1>3, <2>2, <3>2, <3>3, DesalojadaCrece
    <2>5. CASE EnTabla(t)
      <3>1. s_sessions[i].id = t
        BY <1>2, <1>5, <1>10, <2>5 DEF EnTabla
      <3>2. \A j \in DS : s_sessions[j].id # 0 /\ s_sessions[i].expira <= s_sessions[j].expira
        BY <1>4, <2>2, <3>1
      <3> DEFINE f == [j \in 0 .. WEBAPI_SESSIONS - 1 |-> s_sessions'[j].id]
                 B == {u \in Abiertas' \ {t} : sesion'[u].uso >= sesion'[t].uso}
      <3>3. ASSUME NEW j \in DS
            PROVE  s_sessions'[j].id \in B /\ s_sessions'[j].id # 0
        <4>1. CASE j = i
          BY <1>2, <1>3, <1>5, <1>6, <2>1, <2>2, <4>1
        <4>2. CASE j # i
          <5> DEFINE u == s_sessions[j].id
          <5>1. s_sessions'[j].id = u /\ u # 0 /\ u \in Abiertas /\ sesion'[u] = sesion[u] /\ u \in Token
            BY <1>5, <1>7, <1>8, <3>2, <4>2
          <5>2. u # t
            BY <1>2, <2>2, <3>1, <4>2 DEF Entradas
          <5>3. /\ s_sessions[i].expira = sesion[t].uso + WEBAPI_SESSION_TTL_S
                /\ s_sessions[j].expira = sesion[u].uso + WEBAPI_SESSION_TTL_S
                /\ s_sessions[i].expira <= s_sessions[j].expira
            BY <1>8, <2>2, <3>1, <3>2
          <5> HIDE DEF u
          <5>4. sesion[u].uso \in Nat /\ sesion[t].uso \in Nat
            BY <1>2, <2>2, <5>1
          <5>5. sesion[u].uso >= sesion[t].uso
            BY <5>3, <5>4
          <5>6. QED
            BY <1>3, <2>2, <5>1, <5>2, <5>5
        <4>3. QED
          BY <4>1, <4>2
      <3>4. f \in [0 .. WEBAPI_SESSIONS - 1 -> B]
        BY <3>3 DEF DS
      <3>5. \A j, l \in 0 .. WEBAPI_SESSIONS - 1 : f[j] = f[l] => j = l
        BY <1>5, <1>9, <3>3 DEF DS, Entradas
      <3>6. IsFiniteSet(B)
        <4>1. IsFiniteSet(1 .. tokens')
          BY <1>3, FS_Interval
        <4>2. B \in SUBSET (1 .. tokens')
          BY DEF Abiertas
        <4>3. QED
          BY <4>1, <4>2, FS_Subset
      <3>7. Cardinality(B) >= WEBAPI_SESSIONS
        <4> HIDE DEF B, f
        <4>1. WEBAPI_SESSIONS \in Nat
          OBVIOUS
        <4>2. QED
          BY <3>4, <3>5, <3>6, <4>1, SinRepetir
      <3>8. QED
        BY <3>7 DEF Desalojada
    <2>6. QED
      BY <2>4, <2>5
  <1>11. QED
    BY <1>9, <1>10 DEF Desalojos

-----------------------------------------------------------------------------
(***************************************************************************)
(* Challenges                                                              *)
(***************************************************************************)

\* A challenge that comes is spent, and then its proof may be accepted.
LEMMA GastaPasa ==
  ASSUME TypeOK, Historia, Desafios, NEW n \in Retos \cup {0}, Gasta(n), UNCHANGED nonces,
         UNCHANGED reto \/ (n \in Retos /\ Acepta(n))
  PROVE  /\ Desafios'
         /\ s_nonces' \in [DN -> Entrada(Nonce, WEBAPI_NONCE_TTL_S)]
         /\ reto' \in [Nonce -> [emitido : 0 .. now, contra : 0 .. contras, veces : Nat]]
  <1>1. /\ s_nonces \in [DN -> Entrada(Nonce, WEBAPI_NONCE_TTL_S)] /\ DOMAIN s_nonces = DN
        /\ Retos \subseteq Nonce /\ 0 \notin Retos /\ nonces \in Nat
        /\ \A i \in DN : s_nonces[i].id \in Nat
    BY Tipos
  <1>2. Libre \in Entrada(Nonce, WEBAPI_NONCE_TTL_S) /\ Libre.id = 0
    BY DEF Libre, Entrada, TypeOK
  <1>3. s_nonces' = [i \in DN |-> IF i \in Quien(s_nonces, n) THEN Libre ELSE s_nonces[i]]
    BY <1>1 DEF Gasta, Quita
  <1>4. s_nonces' \in [DN -> Entrada(Nonce, WEBAPI_NONCE_TTL_S)]
    BY <1>1, <1>2, <1>3
  <1>5. ASSUME NEW m \in Nonce
        PROVE  /\ reto'[m].emitido = reto[m].emitido
               /\ m # n => reto'[m] = reto[m]
    <2>1. CASE UNCHANGED reto
      BY <2>1
    <2>2. CASE n \in Retos /\ Acepta(n)
      <3> DEFINE r == [reto[n] EXCEPT !.veces = @ + 1]
      <3>1. /\ n \in Nonce
            /\ reto \in [Nonce -> [emitido : 0 .. now, contra : 0 .. contras, veces : Nat]]
        BY <1>1, <2>2 DEF Historia
      <3>2. r.emitido = reto[n].emitido
        BY <3>1
      <3>3. reto' = [reto EXCEPT ![n] = r]
        BY <2>2, <3>1 DEF Acepta
      <3> HIDE DEF r
      <3>4. QED
        BY <3>1, <3>2, <3>3
    <2>3. QED
      BY <2>1, <2>2
  <1>6. reto' \in [Nonce -> [emitido : 0 .. now, contra : 0 .. contras, veces : Nat]]
    <2>1. CASE UNCHANGED reto
      BY <2>1 DEF Historia
    <2>2. CASE n \in Retos /\ Acepta(n)
      <3> DEFINE r == [reto[n] EXCEPT !.veces = @ + 1]
      <3>1. n \in Nonce /\ reto[n] \in [emitido : 0 .. now, contra : 0 .. contras, veces : Nat]
        BY <1>1, <2>2 DEF Historia
      <3>2. reto[n].veces + 1 \in Nat
        BY <3>1
      <3>3. r \in [emitido : 0 .. now, contra : 0 .. contras, veces : Nat]
        BY <3>1, <3>2
      <3>4. reto' = [reto EXCEPT ![n] = r]
        BY <2>2, <3>1 DEF Acepta, Historia
      <3> HIDE DEF r
      <3>5. QED
        BY <3>1, <3>3, <3>4 DEF Historia
    <2>3. QED
      BY <2>1, <2>2
  <1>7. ASSUME NEW i \in DN, s_nonces'[i].id # 0
        PROVE  s_nonces'[i] = s_nonces[i] /\ s_nonces[i].id # n
    BY <1>1, <1>2, <1>3, <1>7 DEF Quien
  <1>8. ASSUME NEW i \in DN, s_nonces'[i].id # 0
        PROVE  /\ s_nonces'[i].id \in Retos
               /\ s_nonces'[i].expira = reto'[s_nonces'[i].id].emitido + WEBAPI_NONCE_TTL_S
               /\ reto'[s_nonces'[i].id].veces = 0
    <2>1. s_nonces'[i] = s_nonces[i] /\ s_nonces[i].id # n /\ s_nonces[i].id # 0
      BY <1>7, <1>8
    <2>2. /\ s_nonces[i].id \in Retos /\ reto[s_nonces[i].id].veces = 0
          /\ s_nonces[i].expira = reto[s_nonces[i].id].emitido + WEBAPI_NONCE_TTL_S
      BY <1>1, <2>1 DEF Desafios
    <2>3. QED
      BY <1>1, <1>5, <2>1, <2>2
  <1>9. ASSUME NEW m \in Nonce, m > nonces
        PROVE  reto'[m].veces = 0
    <2>1. m # n
      BY <1>1, <1>9 DEF Retos, Nonce
    <2>2. QED
      BY <1>5, <1>9, <2>1 DEF Desafios
  <1>10. DOMAIN s_nonces' = DN /\ Retos' = Retos
    BY <1>4 DEF Retos
  <1>11. Desafios'
    BY <1>8, <1>9, <1>10 DEF Desafios
  <1>12. QED
    BY <1>4, <1>6, <1>11

LEMMA ChallengeDesafios ==
  ASSUME TypeOK, Historia, Desafios, h_challenge
  PROVE  /\ Desafios'
         /\ s_nonces' \in [DN -> Entrada(Nonce, WEBAPI_NONCE_TTL_S)]
         /\ reto' \in [Nonce -> [emitido : 0 .. now, contra : 0 .. contras, veces : Nat]]
         /\ nonces' \in 0 .. MaxNonces
  <1> DEFINE k == nonces + 1
             r == [emitido |-> now, contra |-> IF adm.hash = adm.salt THEN adm.hash ELSE 0, veces |-> 0]
             e == [id |-> k, expira |-> now + WEBAPI_NONCE_TTL_S]
  <1>1. /\ nonces < MaxNonces /\ nonces' = k /\ s_nonces' = Coloca(s_nonces, k, WEBAPI_NONCE_TTL_S)
        /\ reto' = [reto EXCEPT ![k] = r] /\ UNCHANGED now
    BY DEF h_challenge
  <1>2. /\ s_nonces \in [DN -> Entrada(Nonce, WEBAPI_NONCE_TTL_S)] /\ DOMAIN s_nonces = DN
        /\ Retos \subseteq Nonce /\ 0 \notin Retos /\ nonces \in Nat /\ now \in Nat /\ now <= MaxNow
    <2>1. now <= MaxNow
      BY DEF TypeOK
    <2>2. QED
      BY <2>1, Tipos, Zenon
  <1>3. k \in Nonce /\ k \notin Retos /\ k # 0 /\ k \in Nat /\ Retos' = Retos \cup {k} /\ k \in 0 .. MaxNonces
    BY <1>1, <1>2 DEF Retos, Nonce
  <1>4. PICK i \in DN : s_nonces' = [s_nonces EXCEPT ![i] = e]
    <2>1. s_nonces \in [0 .. WEBAPI_NONCES - 1 -> [id : Nat, expira : Nat]]
      <3>1. Entrada(Nonce, WEBAPI_NONCE_TTL_S) \subseteq [id : Nat, expira : Nat]
        BY DEF Entrada, Nonce
      <3>2. QED
        BY <1>2, <3>1 DEF DN
    <2>2. WEBAPI_NONCE_TTL_S \in Nat /\ WEBAPI_NONCES \in Nat \ {0}
      OBVIOUS
    <2> HIDE DEF k, e
    <2>3. \E i \in 0 .. WEBAPI_NONCES - 1 :
            /\ Coloca(s_nonces, k, WEBAPI_NONCE_TTL_S)
                 = [s_nonces EXCEPT ![i] = [id |-> k, expira |-> now + WEBAPI_NONCE_TTL_S]]
            /\ s_nonces[i].id # 0 =>
                 \A j \in 0 .. WEBAPI_NONCES - 1 :
                   s_nonces[j].id # 0 /\ s_nonces[i].expira <= s_nonces[j].expira
      BY <2>1, <2>2, ColocaBien
    <2>4. QED
      BY <1>1, <2>3, Zenon DEF DN, e
  <1>5. e \in Entrada(Nonce, WEBAPI_NONCE_TTL_S) /\ e.id = k /\ e.expira = now + WEBAPI_NONCE_TTL_S
    BY <1>2, <1>3 DEF Entrada
  <1>6. /\ r \in [emitido : 0 .. now, contra : 0 .. contras, veces : Nat]
        /\ r.emitido = now /\ r.veces = 0
    <2>1. adm.hash \in 0 .. contras
      BY DEF Historia, TypeOK
    <2>2. 0 \in 0 .. contras /\ now \in 0 .. now
      BY <1>2 DEF TypeOK
    <2>3. QED
      BY <2>1, <2>2
  <1> HIDE DEF k, r, e
  <1>7. s_nonces' \in [DN -> Entrada(Nonce, WEBAPI_NONCE_TTL_S)] /\ DOMAIN s_nonces' = DN
        /\ s_nonces'[i] = e /\ \A j \in DN : j # i => s_nonces'[j] = s_nonces[j]
    BY <1>2, <1>4, <1>5
  <1>8. /\ reto' \in [Nonce -> [emitido : 0 .. now, contra : 0 .. contras, veces : Nat]]
        /\ reto'[k] = r /\ \A m \in Nonce : m # k => reto'[m] = reto[m]
    BY <1>1, <1>3, <1>6 DEF Historia
  <1>9. ASSUME NEW j \in DN, s_nonces'[j].id # 0
        PROVE  /\ s_nonces'[j].id \in Retos'
               /\ s_nonces'[j].expira = reto'[s_nonces'[j].id].emitido + WEBAPI_NONCE_TTL_S
               /\ reto'[s_nonces'[j].id].veces = 0
    <2>1. CASE j = i
      BY <1>3, <1>5, <1>6, <1>7, <1>8, <2>1
    <2>2. CASE j # i
      <3>1. s_nonces'[j] = s_nonces[j]
        BY <1>7, <2>2
      <3>2. /\ s_nonces[j].id \in Retos /\ reto[s_nonces[j].id].veces = 0
            /\ s_nonces[j].expira = reto[s_nonces[j].id].emitido + WEBAPI_NONCE_TTL_S
        BY <1>2, <1>9, <3>1 DEF Desafios
      <3>3. QED
        BY <1>2, <1>3, <1>8, <3>1, <3>2
    <2>3. QED
      BY <2>1, <2>2
  <1>10. ASSUME NEW m \in Nonce, m > nonces'
         PROVE  reto'[m].veces = 0
    <2>1. m # k /\ m > nonces
      BY <1>1, <1>2, <1>10 DEF k, Nonce
    <2>2. QED
      BY <1>8, <2>1 DEF Desafios
  <1>11. Desafios'
    BY <1>7, <1>9, <1>10 DEF Desafios
  <1>12. QED
    BY <1>1, <1>3, <1>7, <1>8, <1>11

-----------------------------------------------------------------------------
(***************************************************************************)
(* Failed logins                                                           *)
(***************************************************************************)
LEMMA VentanasTipos ==
  ASSUME TypeOK, Historia
  PROVE  /\ now \in Nat /\ win_start \in Nat /\ win_start <= now /\ now <= MaxNow
         /\ fails \in Nat /\ fails <= LOGIN_MAX_FAILS
         /\ \A i \in 0 .. MaxNow : fallidos[i] \in Nat
         /\ Fallos \in Nat /\ Fallos <= LOGIN_MAX_FAILS
         /\ VentanaPasada <=> now >= win_start + LOGIN_WIN_S
  <1>1. /\ now \in Nat /\ win_start \in Nat /\ win_start <= now /\ now <= MaxNow
        /\ fails \in Nat /\ fails <= LOGIN_MAX_FAILS
    BY DEF TypeOK
  <1>2. \A i \in 0 .. MaxNow : fallidos[i] \in Nat
    BY DEF Historia
  <1>3. QED
    BY <1>1, <1>2 DEF Fallos, VentanaPasada

\* A second goes by.
LEMMA TickVentanas ==
  ASSUME TypeOK, Historia, Ventanas, Tick
  PROVE  Ventanas'
  <1>1. /\ now' = now + 1 /\ now < MaxNow
        /\ UNCHANGED <<win_start, fails, fallidos>>
    BY DEF Tick, historia
  <1>2. /\ now \in Nat /\ win_start \in Nat /\ win_start <= now
        /\ \A i \in 0 .. MaxNow : fallidos[i] \in Nat
        /\ VentanaPasada <=> now >= win_start + LOGIN_WIN_S
    BY VentanasTipos
  <1>3. fallidos[now'] = fallidos[now]
    BY <1>1, <1>2 DEF Ventanas
  <1>4. \A i \in now' .. MaxNow : fallidos[i] = fallidos[now']
    BY <1>1, <1>2, <1>3 DEF Ventanas
  <1>5. ASSUME VentanaPasada'
        PROVE  fallidos[now'] = fallidos[win_start + LOGIN_WIN_S - 1]
    <2>1. now + 1 >= win_start + LOGIN_WIN_S
      BY <1>1, <1>2, <1>5 DEF VentanaPasada
    <2>2. CASE now >= win_start + LOGIN_WIN_S
      BY <1>2, <1>3, <2>2 DEF Ventanas
    <2>3. CASE now + 1 = win_start + LOGIN_WIN_S
      <3>1. now = win_start + LOGIN_WIN_S - 1
        BY <1>2, <2>3
      <3>2. QED
        BY <1>3, <3>1
    <2>4. QED
      BY <1>2, <2>1, <2>2, <2>3
  <1>6. Antes(win_start)' = Antes(win_start)
    BY <1>1 DEF Antes
  <1>7. Antes(win_start - LOGIN_WIN_S + 1)' = Antes(win_start - LOGIN_WIN_S + 1)
    BY <1>1 DEF Antes
  <1>8. QED
    BY <1>1, <1>3, <1>4, <1>5, <1>6, <1>7 DEF Ventanas

\* A window that starts now comes after one that saw no more failures than the
\* limit, and no failure is left to count.
LEMMA VentanaNueva ==
  ASSUME TypeOK, Historia, Ventanas, VentanaPasada
  PROVE  /\ fallidos[now] = Antes(now)
         /\ Antes(now) - Antes(now - LOGIN_WIN_S + 1) <= LOGIN_MAX_FAILS
  <1> DEFINE W == win_start + LOGIN_WIN_S - 1
             P == now - LOGIN_WIN_S
  <1>1. /\ now \in Nat /\ win_start \in Nat /\ win_start <= now /\ now <= MaxNow
        /\ fails \in Nat /\ fails <= LOGIN_MAX_FAILS
        /\ \A i \in 0 .. MaxNow : fallidos[i] \in Nat
        /\ now >= win_start + LOGIN_WIN_S
    BY VentanasTipos
  <1>2. /\ W \in 0 .. MaxNow /\ now - 1 \in 0 .. MaxNow /\ W <= now - 1 /\ now \in 0 .. MaxNow
        /\ P \in 0 .. MaxNow /\ win_start <= P
    BY <1>1
  <1>3. fallidos[now] = fallidos[W] /\ fallidos[W] <= fallidos[now - 1] /\ fallidos[now - 1] <= fallidos[now]
    BY <1>1, <1>2 DEF Ventanas
  <1>4. fallidos[now] = fallidos[now - 1]
    <2>1. fallidos[now] \in Nat /\ fallidos[now - 1] \in Nat
      BY <1>1, <1>2
    <2>2. QED
      BY <1>3, <2>1
  <1>5. Antes(now) = fallidos[now - 1]
    BY <1>1 DEF Antes
  <1>6. Antes(now - LOGIN_WIN_S + 1) = fallidos[P]
    BY <1>2 DEF Antes
  <1>7. Antes(win_start) \in Nat /\ Antes(win_start) <= fallidos[P]
    <2>1. CASE win_start = 0
      BY <1>1, <1>2, <2>1 DEF Antes
    <2>2. CASE win_start # 0
      <3>1. win_start - 1 \in 0 .. MaxNow /\ win_start - 1 <= P
        BY <1>1, <1>2, <2>2
      <3>2. Antes(win_start) = fallidos[win_start - 1]
        BY <1>1, <2>2 DEF Antes
      <3>3. QED
        BY <1>1, <1>2, <3>1, <3>2 DEF Ventanas
    <2>3. QED
      BY <2>1, <2>2
  <1>8. fallidos[now] - Antes(win_start) <= fails
    BY DEF Ventanas
  <1>9. fallidos[now] - fallidos[P] <= LOGIN_MAX_FAILS
    <2> DEFINE a == fallidos[now]
               b == fallidos[P]
               c == Antes(win_start)
    <2>1. a \in Nat /\ b \in Nat /\ c \in Nat /\ c <= b /\ a - c <= fails
      BY <1>1, <1>2, <1>7, <1>8
    <2> HIDE DEF a, b, c
    <2>2. a - b <= LOGIN_MAX_FAILS
      BY <1>1, <2>1
    <2>3. QED
      BY <2>2 DEF a, b
  <1>10. QED
    BY <1>4, <1>5, <1>6, <1>9

\* A login that isn't a failure may start a window.
LEMMA IntentoVentanas ==
  ASSUME TypeOK, Historia, Ventanas, Ventana, fails' = Fallos, UNCHANGED <<now, fallidos>>
  PROVE  Ventanas' /\ win_start' \in 0 .. now /\ fails' \in 0 .. LOGIN_MAX_FAILS
  <1>1. /\ now \in Nat /\ win_start \in Nat /\ win_start <= now /\ now <= MaxNow
        /\ fails \in Nat /\ fails <= LOGIN_MAX_FAILS
        /\ \A i \in 0 .. MaxNow : fallidos[i] \in Nat
    BY VentanasTipos
  <1>2. /\ \A i, j \in 0 .. MaxNow : i <= j => fallidos'[i] <= fallidos'[j]
        /\ \A i \in now' .. MaxNow : fallidos'[i] = fallidos'[now']
    BY DEF Ventanas
  <1>3. CASE VentanaPasada
    <2>1. win_start' = now /\ fails' = 0 /\ now' = now /\ fallidos' = fallidos
      BY <1>3 DEF Ventana, Fallos
    <2>2. /\ fallidos[now] = Antes(now)
          /\ Antes(now) - Antes(now - LOGIN_WIN_S + 1) <= LOGIN_MAX_FAILS
      BY <1>3, VentanaNueva
    <2>3. /\ Antes(win_start)' = Antes(now)
          /\ Antes(win_start - LOGIN_WIN_S + 1)' = Antes(now - LOGIN_WIN_S + 1)
      BY <2>1 DEF Antes
    <2>4. ~VentanaPasada'
      BY <1>1, <2>1 DEF VentanaPasada
    <2>5. fallidos[now] - Antes(now) <= 0
      <3>1. fallidos[now] \in Nat
        BY <1>1
      <3>2. QED
        BY <2>2, <3>1
    <2>6. Ventanas'
      BY <1>2, <2>1, <2>2, <2>3, <2>4, <2>5 DEF Ventanas
    <2>7. QED
      BY <1>1, <2>1, <2>6
  <1>4. CASE ~VentanaPasada
    <2>1. win_start' = win_start /\ fails' = fails /\ now' = now /\ fallidos' = fallidos
      BY <1>4 DEF Ventana, Fallos
    <2>2. QED
      BY <1>1, <1>2, <2>1 DEF Ventanas, Antes, VentanaPasada
  <1>5. QED
    BY <1>3, <1>4

\* A failure is one more from this second on.
LEMMA FallaVentanas ==
  ASSUME TypeOK, Historia, Ventanas, Ventana, ~Bloqueado, fails' = Fallos + 1, UNCHANGED now,
         fallidos' = [i \in 0 .. MaxNow |-> IF i < now THEN fallidos[i] ELSE fallidos[i] + 1]
  PROVE  /\ Ventanas' /\ win_start' \in 0 .. now /\ fails' \in 0 .. LOGIN_MAX_FAILS
         /\ fallidos' \in [0 .. MaxNow -> Nat]
  <1>1. /\ now \in Nat /\ win_start \in Nat /\ win_start <= now /\ now <= MaxNow
        /\ fails \in Nat /\ fails <= LOGIN_MAX_FAILS /\ Fallos \in Nat
        /\ \A i \in 0 .. MaxNow : fallidos[i] \in Nat
    BY VentanasTipos
  <1>2. fails' \in 0 .. LOGIN_MAX_FAILS
    BY <1>1 DEF Bloqueado
  <1>3. /\ \A i \in 0 .. MaxNow : fallidos'[i] = IF i < now THEN fallidos[i] ELSE fallidos[i] + 1
        /\ fallidos' \in [0 .. MaxNow -> Nat]
    BY <1>1
  <1>4. ASSUME NEW i \in 0 .. MaxNow, NEW j \in 0 .. MaxNow, i <= j
        PROVE  fallidos'[i] <= fallidos'[j]
    <2> DEFINE a == fallidos[i]
               b == fallidos[j]
    <2>1. a <= b /\ a \in Nat /\ b \in Nat
      BY <1>1, <1>4 DEF Ventanas
    <2>2. /\ fallidos'[i] = IF i < now THEN a ELSE a + 1
          /\ fallidos'[j] = IF j < now THEN b ELSE b + 1
      BY <1>3
    <2>3. i \in Nat /\ j \in Nat /\ i <= j /\ now \in Nat
      BY <1>1, <1>4
    <2> DEFINE x == fallidos'[i]
               y == fallidos'[j]
    <2>4. x = (IF i < now THEN a ELSE a + 1) /\ y = (IF j < now THEN b ELSE b + 1)
      BY <2>2
    <2> HIDE DEF a, b, x, y
    <2>5. x <= y
      BY ONLY <2>1, <2>3, <2>4
    <2>6. QED
      BY <2>5 DEF x, y
  <1>5. fallidos'[now] = fallidos[now] + 1
    BY <1>1, <1>3
  <1>6. \A i \in now .. MaxNow : fallidos'[i] = fallidos'[now]
    <2> SUFFICES ASSUME NEW i \in now .. MaxNow
                 PROVE  fallidos'[i] = fallidos'[now]
      OBVIOUS
    <2>1. i \in 0 .. MaxNow /\ ~(i < now) /\ fallidos[i] = fallidos[now]
      BY <1>1 DEF Ventanas
    <2>2. QED
      BY <1>3, <1>5, <2>1
  <1>7. ASSUME NEW w \in Int, w <= now
        PROVE  (IF w <= 0 THEN 0 ELSE fallidos'[w - 1]) = Antes(w)
    <2>1. CASE w <= 0
      BY <2>1 DEF Antes
    <2>2. CASE ~(w <= 0)
      <3>1. w - 1 \in 0 .. MaxNow /\ w - 1 < now
        BY <1>1, <1>7, <2>2
      <3>2. QED
        BY <1>3, <2>2, <3>1 DEF Antes
    <2>3. QED
      BY <2>1, <2>2
  <1>8. ASSUME NEW w \in Nat, w <= now, win_start' = w,
               (fallidos[now] + 1) - Antes(w) <= fails',
               Antes(w) - Antes(w - LOGIN_WIN_S + 1) <= LOGIN_MAX_FAILS,
               now - w < LOGIN_WIN_S
        PROVE  Ventanas'
    <2>1. w \in Int /\ w - LOGIN_WIN_S + 1 \in Int /\ w - LOGIN_WIN_S + 1 <= now
      <3>1. LOGIN_WIN_S \in Nat /\ now \in Nat /\ now - w < LOGIN_WIN_S /\ LOGIN_WIN_S >= 1
        BY <1>1, <1>8
      <3>2. QED
        BY ONLY <1>8, <3>1
    <2>2. Antes(win_start)' = Antes(w)
      BY <1>7, <1>8, <2>1 DEF Antes
    <2>3. Antes(win_start - LOGIN_WIN_S + 1)' = Antes(w - LOGIN_WIN_S + 1)
      <3>1. Antes(win_start - LOGIN_WIN_S + 1)'
              = IF w - LOGIN_WIN_S + 1 <= 0 THEN 0 ELSE fallidos'[w - LOGIN_WIN_S + 1 - 1]
        BY <1>8 DEF Antes
      <3> DEFINE z == w - LOGIN_WIN_S + 1
      <3>2. z \in Int /\ z <= now
        BY <2>1
      <3>3. Antes(win_start - LOGIN_WIN_S + 1)' = IF z <= 0 THEN 0 ELSE fallidos'[z - 1]
        BY <3>1
      <3>4. Antes(z) = IF z <= 0 THEN 0 ELSE fallidos'[z - 1]
        <4> HIDE DEF z
        <4>1. QED
          BY <1>7, <3>2
      <3>5. QED
        BY <3>3, <3>4
    <2>4. ~VentanaPasada'
      BY <1>1, <1>8 DEF VentanaPasada
    <2>5. fallidos'[now'] - Antes(win_start)' <= fails'
      <3>1. fallidos'[now'] = fallidos[now] + 1
        BY <1>5
      <3>2. QED
        BY <1>8, <2>2, <3>1
    <2>6. Antes(win_start)' - Antes(win_start - LOGIN_WIN_S + 1)' <= LOGIN_MAX_FAILS
      BY <1>8, <2>2, <2>3
    <2>7. /\ \A i, j \in 0 .. MaxNow : i <= j => fallidos'[i] <= fallidos'[j]
          /\ \A i \in now' .. MaxNow : fallidos'[i] = fallidos'[now']
      BY <1>4, <1>6
    <2>8. QED
      BY <2>4, <2>5, <2>6, <2>7 DEF Ventanas
  <1>9. CASE VentanaPasada
    <2>1. win_start' = now /\ fails' = 1
      BY <1>9 DEF Ventana, Fallos
    <2>2. /\ fallidos[now] = Antes(now)
          /\ Antes(now) - Antes(now - LOGIN_WIN_S + 1) <= LOGIN_MAX_FAILS
      BY <1>9, VentanaNueva
    <2>3. (fallidos[now] + 1) - Antes(now) <= fails' /\ now - now < LOGIN_WIN_S
      <3>1. fallidos[now] \in Nat
        BY <1>1
      <3>2. QED
        BY <1>1, <2>1, <2>2, <3>1
    <2>4. Ventanas'
      BY <1>1, <1>8, <2>1, <2>2, <2>3
    <2>5. QED
      BY <1>1, <1>2, <1>3, <2>1, <2>4
  <1>10. CASE ~VentanaPasada
    <2>1. win_start' = win_start /\ fails' = fails + 1
      BY <1>10 DEF Ventana, Fallos
    <2>2. /\ fallidos[now] - Antes(win_start) <= fails
          /\ Antes(win_start) - Antes(win_start - LOGIN_WIN_S + 1) <= LOGIN_MAX_FAILS
      BY DEF Ventanas
    <2>3. now - win_start < LOGIN_WIN_S
      BY <1>1, <1>10 DEF VentanaPasada
    <2>4. fallidos[now] \in Nat /\ Antes(win_start) \in Nat
      <3>1. CASE win_start = 0
        BY <1>1, <3>1 DEF Antes
      <3>2. CASE win_start # 0
        <4>1. win_start - 1 \in 0 .. MaxNow /\ ~(win_start <= 0)
          BY <1>1, <3>2
        <4>2. QED
          BY <1>1, <4>1 DEF Antes
      <3>3. QED
        BY <3>1, <3>2
    <2>5. (fallidos[now] + 1) - Antes(win_start) <= fails'
      <3> DEFINE a == fallidos[now]
                 b == Antes(win_start)
      <3>1. a \in Nat /\ b \in Nat /\ a - b <= fails
        BY <2>2, <2>4
      <3> HIDE DEF a, b
      <3>2. (a + 1) - b <= fails'
        BY <1>1, <2>1, <3>1
      <3>3. QED
        BY <3>2 DEF a, b
    <2>6. Ventanas'
      BY <1>1, <1>8, <2>1, <2>2, <2>3, <2>5
    <2>7. QED
      BY <1>1, <1>2, <1>3, <2>1, <2>6
  <1>11. QED
    BY <1>9, <1>10

\* The limit is of two windows' worth in any stretch of their length.
LEMMA FuerzaBrutaDeVentanas ==
  ASSUME TypeOK, Historia, Ventanas
  PROVE  FuerzaBruta
  <1>1. /\ now \in Nat /\ win_start \in Nat /\ win_start <= now /\ now <= MaxNow
        /\ fails \in Nat /\ fails <= LOGIN_MAX_FAILS
        /\ \A i \in 0 .. MaxNow : fallidos[i] \in Nat
        /\ LOGIN_WIN_S \in Nat /\ LOGIN_MAX_FAILS \in Nat
        /\ VentanaPasada <=> now >= win_start + LOGIN_WIN_S
    BY VentanasTipos
  <1> DEFINE F == fallidos[now]
             G == IF now < LOGIN_WIN_S THEN 0 ELSE fallidos[now - LOGIN_WIN_S]
             A == Antes(win_start)
             B == Antes(win_start - LOGIN_WIN_S + 1)
  <1>2. F \in Nat
    BY <1>1
  <1>3. G \in Nat
    <2>1. CASE now < LOGIN_WIN_S
      BY <2>1
    <2>2. CASE ~(now < LOGIN_WIN_S)
      <3>1. now - LOGIN_WIN_S \in 0 .. MaxNow
        BY <1>1, <2>2
      <3>2. QED
        BY <1>1, <2>2, <3>1
    <2>3. QED
      BY <2>1, <2>2
  <1>4. A \in Nat
    <2>1. CASE win_start = 0
      BY <1>1, <2>1 DEF Antes
    <2>2. CASE win_start # 0
      <3>1. win_start - 1 \in 0 .. MaxNow /\ ~(win_start <= 0)
        BY <1>1, <2>2
      <3>2. QED
        BY <1>1, <3>1 DEF Antes
    <2>3. QED
      BY <2>1, <2>2
  <1>5. F - A <= fails
    BY DEF Ventanas
  <1>6. CASE ~VentanaPasada
    <2>1. B \in Nat /\ B <= G
      <3>1. CASE win_start - LOGIN_WIN_S + 1 <= 0
        BY <1>1, <1>3, <3>1 DEF Antes
      <3>2. CASE ~(win_start - LOGIN_WIN_S + 1 <= 0)
        <4>1. /\ win_start - LOGIN_WIN_S + 1 - 1 = win_start - LOGIN_WIN_S
              /\ win_start - LOGIN_WIN_S \in 0 .. MaxNow /\ now - LOGIN_WIN_S \in 0 .. MaxNow
              /\ win_start - LOGIN_WIN_S <= now - LOGIN_WIN_S /\ ~(now < LOGIN_WIN_S)
          BY <1>1, <3>2
        <4>2. B = fallidos[win_start - LOGIN_WIN_S]
          BY <3>2, <4>1 DEF Antes
        <4>3. G = fallidos[now - LOGIN_WIN_S]
          BY <4>1
        <4>4. fallidos[win_start - LOGIN_WIN_S] <= fallidos[now - LOGIN_WIN_S]
          BY <4>1 DEF Ventanas
        <4>5. QED
          BY <1>1, <4>1, <4>2, <4>3, <4>4
      <3>3. QED
        BY <3>1, <3>2
    <2>2. A - B <= LOGIN_MAX_FAILS
      BY DEF Ventanas
    <2> HIDE DEF F, G, A, B
    <2>3. F - G <= 2 * LOGIN_MAX_FAILS
      BY <1>1, <1>2, <1>3, <1>4, <1>5, <2>1, <2>2
    <2>4. QED
      BY <2>3 DEF FuerzaBruta, F, G
  <1>7. CASE VentanaPasada
    <2>1. /\ now - LOGIN_WIN_S \in 0 .. MaxNow /\ win_start <= now - LOGIN_WIN_S
          /\ ~(now < LOGIN_WIN_S)
      BY <1>1, <1>7
    <2>2. G = fallidos[now - LOGIN_WIN_S]
      BY <2>1
    <2>3. A <= G
      <3>1. CASE win_start = 0
        BY <1>1, <1>3, <3>1 DEF Antes
      <3>2. CASE win_start # 0
        <4>1. /\ win_start - 1 \in 0 .. MaxNow /\ ~(win_start <= 0)
              /\ win_start - 1 <= now - LOGIN_WIN_S
          BY <1>1, <2>1, <3>2
        <4>2. A = fallidos[win_start - 1]
          BY <4>1 DEF Antes
        <4>3. QED
          BY <2>1, <2>2, <4>1, <4>2 DEF Ventanas
      <3>3. QED
        BY <3>1, <3>2
    <2> HIDE DEF F, G, A, B
    <2>4. F - G <= 2 * LOGIN_MAX_FAILS
      BY <1>1, <1>2, <1>3, <1>4, <1>5, <2>3
    <2>5. QED
      BY <2>4 DEF FuerzaBruta, F, G
  <1>8. QED
    BY <1>6, <1>7

-----------------------------------------------------------------------------
(***************************************************************************)
(* Types                                                                   *)
(***************************************************************************)
LEMMA Crece ==
  ASSUME TypeOK, Historia, NEW c \in Nat, contras <= c, NEW m \in Nat, now <= m
  PROVE  /\ sesion \in [Token -> [contra : 0 .. c, uso : 0 .. m, cerrada : BOOLEAN]]
         /\ reto \in [Nonce -> [emitido : 0 .. m, contra : 0 .. c, veces : Nat]]
  <1>1. 0 .. contras \subseteq 0 .. c /\ 0 .. now \subseteq 0 .. m
    BY DEF TypeOK
  <1>2. /\ [contra : 0 .. contras, uso : 0 .. now, cerrada : BOOLEAN]
             \subseteq [contra : 0 .. c, uso : 0 .. m, cerrada : BOOLEAN]
        /\ [emitido : 0 .. now, contra : 0 .. contras, veces : Nat]
             \subseteq [emitido : 0 .. m, contra : 0 .. c, veces : Nat]
    BY <1>1
  <1>3. QED
    BY <1>2 DEF Historia

LEMMA TablaTipos ==
  ASSUME TypeOK, Historia, NEW t
  PROVE  /\ Refresca(s_sessions, t) \in [DS -> Entrada(Token, WEBAPI_SESSION_TTL_S)]
         /\ Quita(s_sessions, t) \in [DS -> Entrada(Token, WEBAPI_SESSION_TTL_S)]
         /\ TrasCambio \in [DS -> Entrada(Token, WEBAPI_SESSION_TTL_S)]
  <1> DEFINE S == Entrada(Token, WEBAPI_SESSION_TTL_S)
  <1>1. s_sessions \in [DS -> S] /\ DOMAIN s_sessions = DS /\ now \in Nat /\ now <= MaxNow
    BY Tipos DEF TypeOK
  <1>2. Libre \in S
    BY DEF Libre, Entrada
  <1>3. ASSUME NEW i \in DS
        PROVE  [s_sessions[i] EXCEPT !.expira = now + WEBAPI_SESSION_TTL_S] \in S
    <2>1. now + WEBAPI_SESSION_TTL_S \in 0 .. MaxNow + WEBAPI_SESSION_TTL_S
      BY <1>1
    <2>2. s_sessions[i] \in [id : Token \cup {0}, expira : 0 .. MaxNow + WEBAPI_SESSION_TTL_S]
      BY <1>1 DEF Entrada
    <2>3. QED
      BY <2>1, <2>2 DEF Entrada
  <1> HIDE DEF S
  <1>4. Refresca(s_sessions, t) \in [DS -> S]
    <2> DEFINE g(i) == IF i \notin Quien(s_sessions, t) THEN s_sessions[i]
                       ELSE IF Vigente(s_sessions, t)
                            THEN [s_sessions[i] EXCEPT !.expira = now + WEBAPI_SESSION_TTL_S]
                            ELSE Libre
    <2>1. \A i \in DS : g(i) \in S
      BY <1>1, <1>2, <1>3
    <2>2. Refresca(s_sessions, t) = [i \in DS |-> g(i)]
      BY <1>1 DEF Refresca
    <2> HIDE DEF g
    <2>3. QED
      BY <2>1, <2>2
  <1>5. Quita(s_sessions, t) \in [DS -> S]
    BY <1>1, <1>2 DEF Quita
  <1>6. TrasCambio \in [DS -> S]
    BY <1>2 DEF TrasCambio, Vacia, DS
  <1>7. QED
    BY <1>4, <1>5, <1>6 DEF S

LEMMA AbreTipos ==
  ASSUME TypeOK, Historia, NEW d \in Nat, contras <= d, NEW c \in 0 .. d, Abre(s_sessions, c)
  PROVE  /\ tokens' \in 0 .. MaxTokens
         /\ s_sessions' \in [DS -> Entrada(Token, WEBAPI_SESSION_TTL_S)]
         /\ sesion' \in [Token -> [contra : 0 .. d, uso : 0 .. now, cerrada : BOOLEAN]]
  <1> DEFINE k == tokens + 1
             r == [contra |-> c, uso |-> now, cerrada |-> FALSE]
             e == [id |-> k, expira |-> now + WEBAPI_SESSION_TTL_S]
  <1>1. /\ tokens < MaxTokens /\ tokens' = k
        /\ s_sessions' = Coloca(s_sessions, k, WEBAPI_SESSION_TTL_S)
        /\ sesion' = [sesion EXCEPT ![k] = r]
    BY DEF Abre
  <1>2. /\ s_sessions \in [DS -> Entrada(Token, WEBAPI_SESSION_TTL_S)]
        /\ now \in Nat /\ now <= MaxNow /\ tokens \in Nat
    <2>1. now <= MaxNow
      BY DEF TypeOK
    <2>2. QED
      BY <2>1, Tipos, Zenon
  <1>3. k \in Token /\ k \in 0 .. MaxTokens
    BY <1>1, <1>2 DEF Token
  <1>4. /\ e \in Entrada(Token, WEBAPI_SESSION_TTL_S)
        /\ r \in [contra : 0 .. d, uso : 0 .. now, cerrada : BOOLEAN]
    BY <1>2, <1>3 DEF Entrada
  <1>5. PICK i \in DS : s_sessions' = [s_sessions EXCEPT ![i] = e]
    <2>1. s_sessions \in [0 .. WEBAPI_SESSIONS - 1 -> [id : Nat, expira : Nat]]
      <3>1. Entrada(Token, WEBAPI_SESSION_TTL_S) \subseteq [id : Nat, expira : Nat]
        BY DEF Entrada, Token
      <3>2. QED
        BY <1>2, <3>1 DEF DS
    <2>2. WEBAPI_SESSION_TTL_S \in Nat /\ WEBAPI_SESSIONS \in Nat \ {0}
      OBVIOUS
    <2> HIDE DEF k, e
    <2>3. \E i \in 0 .. WEBAPI_SESSIONS - 1 :
            /\ Coloca(s_sessions, k, WEBAPI_SESSION_TTL_S)
                 = [s_sessions EXCEPT ![i] = [id |-> k, expira |-> now + WEBAPI_SESSION_TTL_S]]
            /\ s_sessions[i].id # 0 =>
                 \A j \in 0 .. WEBAPI_SESSIONS - 1 :
                   s_sessions[j].id # 0 /\ s_sessions[i].expira <= s_sessions[j].expira
      BY <2>1, <2>2, ColocaBien
    <2>4. QED
      BY <1>1, <2>3, Zenon DEF DS, e
  <1>6. sesion \in [Token -> [contra : 0 .. d, uso : 0 .. now, cerrada : BOOLEAN]]
    BY <1>2, Crece
  <1> HIDE DEF k, r, e
  <1>7. QED
    BY <1>1, <1>2, <1>3, <1>4, <1>5, <1>6

\* What a proof that fails leaves of the challenges.
LEMMA DesafiosIgual ==
  ASSUME Desafios, UNCHANGED <<s_nonces, reto, nonces>>
  PROVE  Desafios'
  BY DEF Desafios, Retos

LEMMA VentanasIgual ==
  ASSUME Ventanas, UNCHANGED <<now, win_start, fails, fallidos>>
  PROVE  Ventanas'
  BY DEF Ventanas, Antes, VentanaPasada

\* The two keys of the administrator, stored or half stored.
LEMMA GuardaBien ==
  ASSUME TypeOK, Historia, NEW exito \in BOOLEAN, contras < MaxContras, Guarda(contras + 1, exito)
  PROVE  /\ contras' = contras + 1 /\ contras' \in 0 .. MaxContras
         /\ adm' \in [hash : Contra \cup {0}, salt : Contra \cup {0}]
         /\ adm'.hash \in vigente .. contras'
         /\ exito => adm' = [hash |-> contras + 1, salt |-> contras + 1]
         /\ config_get_admin => config_get_admin'
  <1> DEFINE p == contras + 1
  <1>1. /\ contras' = p
        /\ \/ exito /\ adm' = [hash |-> p, salt |-> p]
           \/ ~exito /\ adm' \in {adm, [adm EXCEPT !.hash = p], [hash |-> p, salt |-> p]}
    BY DEF Guarda
  <1>2. /\ contras \in Nat /\ contras <= MaxContras /\ vigente \in Nat /\ vigente <= contras
        /\ adm \in [hash : Contra \cup {0}, salt : Contra \cup {0}]
        /\ adm.hash \in vigente .. contras
    BY Tipos DEF TypeOK, Historia
  <1>3. p \in Contra /\ p # 0 /\ p \in Nat /\ vigente <= p /\ p \in 0 .. MaxContras
    BY <1>2 DEF Contra
  <1>4. p \in vigente .. p /\ adm.hash \in vigente .. p
    BY <1>2
  <1> HIDE DEF p
  <1>5. CASE adm' = adm /\ ~exito
    BY <1>1, <1>2, <1>3, <1>4, <1>5 DEF config_get_admin, p
  <1>6. CASE adm' = [adm EXCEPT !.hash = p] /\ ~exito
    BY <1>1, <1>2, <1>3, <1>4, <1>6 DEF config_get_admin, p
  <1>7. CASE adm' = [hash |-> p, salt |-> p]
    BY <1>1, <1>2, <1>3, <1>4, <1>7 DEF config_get_admin, p
  <1>8. QED
    BY <1>1, <1>5, <1>6, <1>7

-----------------------------------------------------------------------------
(***************************************************************************)
(* The invariant is kept                                                   *)
(***************************************************************************)

LEMMA TickPasa ==
  ASSUME Invariante, Tick
  PROVE  Invariante'
  <1> USE DEF Invariante
  <1>1. /\ now < MaxNow /\ now' = now + 1
        /\ UNCHANGED <<adm, s_sessions, s_nonces, win_start, fails, contras, tokens, nonces,
                       vigente, sesion, reto, fallidos>>
    BY DEF Tick, historia
  <1>2. now \in Nat /\ now' \in Nat /\ now <= now' /\ now' \in 0 .. MaxNow /\ contras \in Nat
    BY <1>1, Tipos
  <1>3. TypeOK'
    <2>1. win_start' \in 0 .. now'
      BY <1>1, <1>2 DEF TypeOK
    <2>2. QED
      BY <1>1, <1>2, <2>1 DEF TypeOK
  <1>4. /\ sesion \in [Token -> [contra : 0 .. contras, uso : 0 .. now', cerrada : BOOLEAN]]
        /\ reto \in [Nonce -> [emitido : 0 .. now', contra : 0 .. contras, veces : Nat]]
    <2> DEFINE m == now'
    <2>1. m \in Nat /\ now <= m
      BY <1>2
    <2> HIDE DEF m
    <2>2. /\ sesion \in [Token -> [contra : 0 .. contras, uso : 0 .. m, cerrada : BOOLEAN]]
          /\ reto \in [Nonce -> [emitido : 0 .. m, contra : 0 .. contras, veces : Nat]]
      BY <1>2, <2>1, Crece
    <2>3. QED
      BY <2>2 DEF m
  <1>5. Historia'
    BY <1>1, <1>4 DEF Historia, config_get_admin
  <1>6. Entradas' /\ Desalojos'
    BY <1>1, <1>2, SesionesIgual
  <1>7. Desafios'
    BY <1>1, DesafiosIgual
  <1>8. QED
    BY <1>3, <1>5, <1>6, <1>7, TickVentanas

LEMMA SetupPasa ==
  ASSUME Invariante, h_setup
  PROVE  Invariante'
  <1> USE DEF Invariante
  <1>1. /\ ~config_get_admin /\ contras < MaxContras
        /\ Guarda(contras + 1, TRUE) /\ Abre(s_sessions, contras + 1)
        /\ vigente' = contras + 1
        /\ UNCHANGED <<now, s_nonces, win_start, fails, nonces, reto, fallidos>>
    BY DEF h_setup
  <1>2. /\ contras' = contras + 1 /\ contras' \in 0 .. MaxContras
        /\ adm' \in [hash : Contra \cup {0}, salt : Contra \cup {0}]
        /\ adm' = [hash |-> contras + 1, salt |-> contras + 1]
    BY <1>1, GuardaBien
  <1>3. tokens = 0 /\ contras \in Nat /\ now \in Nat
    BY <1>1, Tipos DEF Historia
  <1> DEFINE c == contras + 1
  <1>4. /\ c \in Nat /\ c \in 0 .. c /\ contras <= c /\ c # 0 /\ c \in 0 .. contras'
        /\ contras' = c /\ vigente' = c /\ vigente' \in Nat
    BY <1>1, <1>2, <1>3
  <1>5. /\ tokens' \in 0 .. MaxTokens
        /\ s_sessions' \in [DS -> Entrada(Token, WEBAPI_SESSION_TTL_S)]
        /\ sesion' \in [Token -> [contra : 0 .. c, uso : 0 .. now, cerrada : BOOLEAN]]
    <2>1. Abre(s_sessions, c)
      BY <1>1
    <2> HIDE DEF c
    <2>2. QED
      BY <1>4, <2>1, AbreTipos
  <1>6. Entradas' /\ Desalojos'
    <2>1. Abre(s_sessions, c)
      BY <1>1
    <2> HIDE DEF c
    <2>2. QED
      BY <1>1, <1>3, <1>4, <2>1, AbrePasa
  <1>7. Historia'
    <2>1. reto \in [Nonce -> [emitido : 0 .. now, contra : 0 .. c, veces : Nat]]
      <3> HIDE DEF c
      <3>1. QED
        BY <1>3, <1>4, Crece
    <2>2. adm'.hash = c /\ adm'.salt = c
      BY <1>2
    <2> HIDE DEF c
    <2>3. /\ vigente' \in 0 .. contras' /\ adm'.hash \in vigente' .. contras'
          /\ config_get_admin'
      BY <1>4, <2>2 DEF config_get_admin
    <2>4. QED
      BY <1>1, <1>4, <1>5, <2>1, <2>3 DEF Historia
  <1>8. TypeOK'
    BY <1>1, <1>2, <1>5 DEF TypeOK, DS
  <1>9. Desafios'
    BY <1>1, DesafiosIgual
  <1>10. Ventanas'
    BY <1>1, VentanasIgual
  <1>11. QED
    BY <1>6, <1>7, <1>8, <1>9, <1>10

LEMMA SetupFallaPasa ==
  ASSUME Invariante, SetupFalla
  PROVE  Invariante'
  <1> USE DEF Invariante
  <1>1. /\ ~config_get_admin /\ contras < MaxContras /\ Guarda(contras + 1, FALSE)
        /\ UNCHANGED <<now, s_sessions, s_nonces, win_start, fails, tokens, nonces, vigente,
                       sesion, reto, fallidos>>
    BY DEF SetupFalla, historia
  <1>2. /\ contras' = contras + 1 /\ contras' \in 0 .. MaxContras
        /\ adm' \in [hash : Contra \cup {0}, salt : Contra \cup {0}]
        /\ adm'.hash \in vigente .. contras'
    BY <1>1, GuardaBien
  <1>3. tokens = 0 /\ vigente = 0 /\ contras \in Nat /\ now \in Nat
    BY <1>1, Tipos DEF Historia
  <1>4. contras' \in Nat /\ contras <= contras'
    BY <1>2, <1>3
  <1>5. /\ sesion \in [Token -> [contra : 0 .. contras', uso : 0 .. now, cerrada : BOOLEAN]]
        /\ reto \in [Nonce -> [emitido : 0 .. now, contra : 0 .. contras', veces : Nat]]
    <2> DEFINE c == contras'
    <2>1. c \in Nat /\ contras <= c
      BY <1>4
    <2> HIDE DEF c
    <2>2. /\ sesion \in [Token -> [contra : 0 .. c, uso : 0 .. now, cerrada : BOOLEAN]]
          /\ reto \in [Nonce -> [emitido : 0 .. now, contra : 0 .. c, veces : Nat]]
      BY <1>3, <2>1, Crece
    <2>3. QED
      BY <2>2 DEF c
  <1>6. Historia'
    BY <1>1, <1>2, <1>3, <1>4, <1>5 DEF Historia
  <1>7. TypeOK'
    BY <1>1, <1>2 DEF TypeOK
  <1>8. Entradas' /\ Desalojos'
    BY <1>1, <1>3, SesionesIgual
  <1>9. QED
    BY <1>1, <1>6, <1>7, <1>8, DesafiosIgual, VentanasIgual

LEMMA ChallengePasa ==
  ASSUME Invariante, h_challenge
  PROVE  Invariante'
  <1> USE DEF Invariante
  <1>1. UNCHANGED <<now, adm, s_sessions, win_start, fails, contras, tokens, vigente, sesion,
                    fallidos>>
    BY DEF h_challenge
  <1>2. /\ Desafios'
        /\ s_nonces' \in [DN -> Entrada(Nonce, WEBAPI_NONCE_TTL_S)]
        /\ reto' \in [Nonce -> [emitido : 0 .. now, contra : 0 .. contras, veces : Nat]]
        /\ nonces' \in 0 .. MaxNonces
    BY ChallengeDesafios
  <1>3. TypeOK'
    BY <1>1, <1>2 DEF TypeOK, DN
  <1>4. Historia'
    BY <1>1, <1>2 DEF Historia, config_get_admin
  <1>5. Entradas' /\ Desalojos'
    BY <1>1, Tipos, SesionesIgual
  <1>6. QED
    BY <1>1, <1>2, <1>3, <1>4, <1>5, VentanasIgual

LEMMA IncompletoPasa ==
  ASSUME Invariante, LoginIncompleto
  PROVE  Invariante'
  <1> USE DEF Invariante
  <1>1. /\ Ventana /\ fails' = Fallos
        /\ UNCHANGED <<now, adm, s_sessions, s_nonces, contras, tokens, nonces,
                       vigente, sesion, reto, fallidos>>
    BY DEF LoginIncompleto, historia
  <1>2. Ventanas' /\ win_start' \in 0 .. now /\ fails' \in 0 .. LOGIN_MAX_FAILS
    BY <1>1, IntentoVentanas
  <1>3. TypeOK' /\ Historia'
    BY <1>1, <1>2 DEF TypeOK, Historia, config_get_admin
  <1>4. Entradas' /\ Desalojos'
    BY <1>1, Tipos, SesionesIgual
  <1>5. QED
    BY <1>1, <1>2, <1>3, <1>4, DesafiosIgual

LEMMA LoginPasa ==
  ASSUME Invariante, NEW n \in Retos, h_login(n)
  PROVE  Invariante'
  <1> USE DEF Invariante
  <1>1. /\ config_get_admin /\ Ventana /\ fails' = Fallos /\ Gasta(n) /\ Acepta(n)
        /\ Abre(s_sessions, adm.hash)
        /\ UNCHANGED <<now, adm, contras, nonces, vigente, fallidos>>
    BY DEF h_login
  <1>2. Ventanas' /\ win_start' \in 0 .. now /\ fails' \in 0 .. LOGIN_MAX_FAILS
    BY <1>1, IntentoVentanas
  <1>3. /\ Desafios'
        /\ s_nonces' \in [DN -> Entrada(Nonce, WEBAPI_NONCE_TTL_S)]
        /\ reto' \in [Nonce -> [emitido : 0 .. now, contra : 0 .. contras, veces : Nat]]
    BY <1>1, GastaPasa
  <1> DEFINE c == adm.hash
  <1>4. /\ contras \in Nat /\ c \in 0 .. contras /\ c \in 0 .. contras' /\ vigente <= c
        /\ vigente' = vigente /\ vigente' \in Nat /\ contras <= contras
    <2>1. c \in vigente .. contras
      BY DEF Historia
    <2>2. vigente \in Nat /\ contras \in Nat /\ contras' = contras /\ vigente' = vigente
      BY <1>1, Tipos
    <2> HIDE DEF c
    <2>3. QED
      BY <2>1, <2>2
  <1>5. Abre(s_sessions, c)
    BY <1>1
  <1> HIDE DEF c
  <1>6. /\ tokens' \in 0 .. MaxTokens
        /\ s_sessions' \in [DS -> Entrada(Token, WEBAPI_SESSION_TTL_S)]
        /\ sesion' \in [Token -> [contra : 0 .. contras, uso : 0 .. now, cerrada : BOOLEAN]]
    BY <1>4, <1>5, AbreTipos
  <1>7. Entradas' /\ Desalojos'
    BY <1>1, <1>4, <1>5, AbrePasa
  <1>8. TypeOK'
    BY <1>1, <1>2, <1>3, <1>6 DEF TypeOK, DS, DN
  <1>9. Historia'
    BY <1>1, <1>3, <1>6 DEF Historia, config_get_admin
  <1>10. QED
    BY <1>2, <1>3, <1>7, <1>8, <1>9

LEMMA LoginFallaPasa ==
  ASSUME Invariante, NEW n \in Retos \cup {0}, NEW bien \in BOOLEAN, LoginFalla(n, bien)
  PROVE  Invariante'
  <1> USE DEF Invariante
  <1>1. /\ ~Bloqueado /\ Ventana /\ Gasta(n) /\ fails' = Fallos + 1
        /\ fallidos' = [i \in 0 .. MaxNow |-> IF i < now THEN fallidos[i] ELSE fallidos[i] + 1]
        /\ UNCHANGED <<now, adm, s_sessions, contras, tokens, nonces, vigente, sesion, reto>>
    BY DEF LoginFalla
  <1>2. /\ Ventanas' /\ win_start' \in 0 .. now /\ fails' \in 0 .. LOGIN_MAX_FAILS
        /\ fallidos' \in [0 .. MaxNow -> Nat]
    BY <1>1, FallaVentanas
  <1>3. /\ Desafios'
        /\ s_nonces' \in [DN -> Entrada(Nonce, WEBAPI_NONCE_TTL_S)]
    BY <1>1, GastaPasa
  <1>4. TypeOK'
    BY <1>1, <1>2, <1>3 DEF TypeOK, DN
  <1>5. Historia'
    BY <1>1, <1>2 DEF Historia, config_get_admin
  <1>6. Entradas' /\ Desalojos'
    BY <1>1, Tipos, SesionesIgual
  <1>7. QED
    BY <1>2, <1>3, <1>4, <1>5, <1>6

LEMMA GuardPasa ==
  ASSUME Invariante, NEW t \in Abiertas \cup {0}, guard(t)
  PROVE  Invariante'
  <1> USE DEF Invariante
  <1>1. /\ s_sessions' = Refresca(s_sessions, t)
        /\ sesion' = IF Autenticado(t) THEN Usa(t) ELSE sesion
        /\ UNCHANGED <<now, adm, s_nonces, win_start, fails, contras, tokens, nonces, vigente,
                       reto, fallidos>>
    BY DEF guard
  <1>2. Entradas' /\ Desalojos'
    BY <1>1, RefrescaPasa
  <1>3. s_sessions' \in [DS -> Entrada(Token, WEBAPI_SESSION_TTL_S)]
    BY <1>1, TablaTipos
  <1>4. sesion' \in [Token -> [contra : 0 .. contras, uso : 0 .. now, cerrada : BOOLEAN]]
    <2>1. CASE Autenticado(t)
      <3>1. t \in Token
        BY <2>1, Tipos DEF Autenticado, Vigente, Quien, Entradas
      <3>2. QED
        BY <1>1, <2>1, <3>1, UsaBien
    <2>2. CASE ~Autenticado(t)
      BY <1>1, <2>2 DEF Historia
    <2>3. QED
      BY <2>1, <2>2
  <1>5. TypeOK'
    BY <1>1, <1>3 DEF TypeOK, DS
  <1>6. Historia'
    BY <1>1, <1>4 DEF Historia, config_get_admin
  <1>7. QED
    BY <1>1, <1>2, <1>5, <1>6, DesafiosIgual, VentanasIgual

LEMMA LogoutPasa ==
  ASSUME Invariante, NEW t \in Abiertas, h_logout(t)
  PROVE  Invariante'
  <1> USE DEF Invariante
  <1>1. /\ s_sessions' = Quita(s_sessions, t)
        /\ sesion' = [Usa(t) EXCEPT ![t].cerrada = TRUE]
        /\ UNCHANGED <<now, adm, s_nonces, win_start, fails, contras, tokens, nonces, vigente,
                       reto, fallidos>>
    BY DEF h_logout
  <1>2. Entradas' /\ Desalojos'
    BY LogoutSesiones
  <1>3. s_sessions' \in [DS -> Entrada(Token, WEBAPI_SESSION_TTL_S)]
    BY <1>1, TablaTipos
  <1>4. sesion' \in [Token -> [contra : 0 .. contras, uso : 0 .. now, cerrada : BOOLEAN]]
    <2> DEFINE f == Usa(t)
               r == [f[t] EXCEPT !.cerrada = TRUE]
    <2>1. t \in Token
      BY Tipos
    <2>2. f \in [Token -> [contra : 0 .. contras, uso : 0 .. now, cerrada : BOOLEAN]]
      BY <2>1, UsaBien
    <2>3. sesion' = [f EXCEPT ![t].cerrada = TRUE]
      BY <1>1
    <2> HIDE DEF f
    <2>4. r \in [contra : 0 .. contras, uso : 0 .. now, cerrada : BOOLEAN]
      BY <2>1, <2>2
    <2>5. sesion' = [f EXCEPT ![t] = r]
      BY <2>1, <2>2, <2>3
    <2> HIDE DEF r
    <2>6. QED
      BY <2>1, <2>2, <2>4, <2>5
  <1>5. TypeOK'
    BY <1>1, <1>3 DEF TypeOK, DS
  <1>6. Historia'
    BY <1>1, <1>4 DEF Historia, config_get_admin
  <1>7. QED
    BY <1>1, <1>2, <1>5, <1>6, DesafiosIgual, VentanasIgual

LEMMA PasswordPasa ==
  ASSUME Invariante, NEW t \in Abiertas, NEW n \in Retos, h_password(t, n)
  PROVE  Invariante'
  <1> USE DEF Invariante
  <1>1. /\ Autenticado(t) /\ contras < MaxContras /\ Gasta(n) /\ Acepta(n)
        /\ Guarda(contras + 1, TRUE) /\ s_sessions' = TrasCambio /\ vigente' = contras + 1
        /\ sesion' = Usa(t)
        /\ UNCHANGED <<now, win_start, fails, tokens, nonces, fallidos>>
    BY DEF h_password
  <1>2. /\ Desafios'
        /\ s_nonces' \in [DN -> Entrada(Nonce, WEBAPI_NONCE_TTL_S)]
        /\ reto' \in [Nonce -> [emitido : 0 .. now, contra : 0 .. contras, veces : Nat]]
    BY <1>1, GastaPasa
  <1>3. Entradas' /\ Desalojos'
    BY <1>1, PasswordSesiones
  <1>4. s_sessions' \in [DS -> Entrada(Token, WEBAPI_SESSION_TTL_S)]
    BY <1>1, TablaTipos
  <1>5. sesion' \in [Token -> [contra : 0 .. contras, uso : 0 .. now, cerrada : BOOLEAN]]
    BY <1>1, Tipos, UsaBien
  <1> DEFINE c == contras + 1
  <1>6. /\ contras' = c /\ c \in 0 .. MaxContras /\ c \in Nat /\ c # 0 /\ vigente' = c
        /\ contras \in Nat /\ contras <= c
        /\ adm' \in [hash : Contra \cup {0}, salt : Contra \cup {0}]
        /\ adm'.hash = c /\ adm'.salt = c
    <2>1. /\ contras' = contras + 1 /\ contras' \in 0 .. MaxContras
          /\ adm' \in [hash : Contra \cup {0}, salt : Contra \cup {0}]
          /\ adm' = [hash |-> contras + 1, salt |-> contras + 1]
      BY <1>1, GuardaBien
    <2>2. contras \in Nat
      BY Tipos
    <2>3. QED
      BY <1>1, <2>1, <2>2
  <1> HIDE DEF c
  <1>7. TypeOK'
    BY <1>1, <1>2, <1>4, <1>6 DEF TypeOK, DS, DN
  <1>8. Historia'
    <2>1. 0 .. contras \subseteq 0 .. c
      BY <1>6
    <2>2. /\ [contra : 0 .. contras, uso : 0 .. now, cerrada : BOOLEAN]
               \subseteq [contra : 0 .. c, uso : 0 .. now, cerrada : BOOLEAN]
          /\ [emitido : 0 .. now, contra : 0 .. contras, veces : Nat]
               \subseteq [emitido : 0 .. now, contra : 0 .. c, veces : Nat]
      BY <2>1
    <2>3. /\ sesion' \in [Token -> [contra : 0 .. c, uso : 0 .. now, cerrada : BOOLEAN]]
          /\ reto' \in [Nonce -> [emitido : 0 .. now, contra : 0 .. c, veces : Nat]]
      BY <1>2, <1>5, <2>2
    <2>4. vigente' \in 0 .. contras' /\ adm'.hash \in vigente' .. contras' /\ config_get_admin'
      BY <1>6 DEF config_get_admin
    <2>5. QED
      BY <1>1, <1>6, <2>3, <2>4 DEF Historia
  <1>9. QED
    BY <1>1, <1>2, <1>3, <1>7, <1>8, VentanasIgual

LEMMA PasswordFallaPasa ==
  ASSUME Invariante, NEW t \in Abiertas, NEW n \in Retos, NEW bien \in BOOLEAN,
         PasswordFalla(t, n, bien)
  PROVE  Invariante'
  <1> USE DEF Invariante
  <1>1. /\ Autenticado(t) /\ config_get_admin /\ contras < MaxContras /\ Gasta(n)
        /\ s_sessions' = Refresca(s_sessions, t) /\ sesion' = Usa(t)
        /\ UNCHANGED <<now, win_start, fails, tokens, nonces, vigente, fallidos>>
        /\ \/ Acepta(n) /\ Guarda(contras + 1, FALSE)
           \/ UNCHANGED <<reto, contras, adm>>
    BY DEF PasswordFalla
  <1>2. UNCHANGED reto \/ (n \in Retos /\ Acepta(n))
    BY <1>1
  <1>3. /\ Desafios'
        /\ s_nonces' \in [DN -> Entrada(Nonce, WEBAPI_NONCE_TTL_S)]
        /\ reto' \in [Nonce -> [emitido : 0 .. now, contra : 0 .. contras, veces : Nat]]
    BY <1>1, <1>2, GastaPasa
  <1>4. Entradas' /\ Desalojos'
    <2>1. t \in Abiertas \cup {0} /\ sesion' = IF Autenticado(t) THEN Usa(t) ELSE sesion
      BY <1>1
    <2>2. QED
      BY <1>1, <2>1, RefrescaPasa
  <1>5. s_sessions' \in [DS -> Entrada(Token, WEBAPI_SESSION_TTL_S)]
    BY <1>1, TablaTipos
  <1>6. sesion' \in [Token -> [contra : 0 .. contras, uso : 0 .. now, cerrada : BOOLEAN]]
    BY <1>1, Tipos, UsaBien
  <1>7. /\ contras' \in 0 .. MaxContras /\ contras \in Nat /\ contras <= contras'
        /\ adm' \in [hash : Contra \cup {0}, salt : Contra \cup {0}]
        /\ adm'.hash \in vigente .. contras' /\ config_get_admin'
    <2>1. CASE Guarda(contras + 1, FALSE)
      <3>1. /\ contras' = contras + 1 /\ contras' \in 0 .. MaxContras
            /\ adm' \in [hash : Contra \cup {0}, salt : Contra \cup {0}]
            /\ adm'.hash \in vigente .. contras'
            /\ config_get_admin => config_get_admin'
        BY <1>1, <2>1, GuardaBien
      <3>2. contras \in Nat
        BY Tipos
      <3>3. QED
        BY <1>1, <3>1, <3>2
    <2>2. CASE UNCHANGED <<contras, adm>>
      BY <1>1, <2>2, Tipos DEF TypeOK, Historia, config_get_admin
    <2>3. QED
      BY <1>1, <2>1, <2>2
  <1> DEFINE c == contras'
  <1>8. c \in Nat /\ contras <= c /\ c \in 0 .. MaxContras /\ adm'.hash \in vigente .. c /\ contras \in Nat
    BY <1>7
  <1>9. TypeOK'
    BY <1>1, <1>3, <1>5, <1>7 DEF TypeOK, DS, DN
  <1>10. /\ sesion' \in [Token -> [contra : 0 .. c, uso : 0 .. now, cerrada : BOOLEAN]]
         /\ reto' \in [Nonce -> [emitido : 0 .. now, contra : 0 .. c, veces : Nat]]
    <2> HIDE DEF c
    <2>1. 0 .. contras \subseteq 0 .. c
      BY <1>8
    <2>2. /\ [contra : 0 .. contras, uso : 0 .. now, cerrada : BOOLEAN]
               \subseteq [contra : 0 .. c, uso : 0 .. now, cerrada : BOOLEAN]
          /\ [emitido : 0 .. now, contra : 0 .. contras, veces : Nat]
               \subseteq [emitido : 0 .. now, contra : 0 .. c, veces : Nat]
      BY <2>1
    <2>3. QED
      BY <1>3, <1>6, <2>2
  <1>11. Historia'
    <2>1. vigente' \in 0 .. contras'
      BY <1>1, <1>7, Tipos
    <2>2. QED
      BY <1>1, <1>7, <1>10, <2>1 DEF Historia
  <1>12. QED
    BY <1>1, <1>3, <1>4, <1>9, <1>11, VentanasIgual

LEMMA Inductivo == Spec => []Invariante
  <1>1. Init => Invariante
    <2> SUFFICES ASSUME Init PROVE Invariante
      OBVIOUS
    <2> USE DEF Init
    <2>1. TypeOK
      <3>1. /\ Libre \in Entrada(Token, WEBAPI_SESSION_TTL_S)
            /\ Libre \in Entrada(Nonce, WEBAPI_NONCE_TTL_S)
        BY DEF Libre, Entrada
      <3>2. QED
        BY <3>1 DEF TypeOK, Vacia
    <2>2. Historia
      BY DEF Historia, config_get_admin
    <2>3. Entradas /\ Desafios
      BY DEF Entradas, Desafios, Vacia, Libre
    <2>4. Desalojos
      BY DEF Desalojos, Abiertas
    <2>5. Ventanas
      BY DEF Ventanas, Antes, VentanaPasada
    <2>6. QED
      BY <2>1, <2>2, <2>3, <2>4, <2>5 DEF Invariante
  <1>2. Invariante /\ [Next]_vars => Invariante'
    <2> SUFFICES ASSUME Invariante, [Next]_vars PROVE Invariante'
      OBVIOUS
    <2>1. CASE UNCHANGED vars
      <3>1. UNCHANGED <<now, adm, s_sessions, s_nonces, win_start, fails, contras, tokens, nonces,
                        vigente, sesion, reto, fallidos>>
        BY <2>1 DEF vars, historia
      <3>2. TypeOK' /\ Historia'
        BY <3>1 DEF Invariante, TypeOK, Historia, config_get_admin
      <3>3. Entradas' /\ Desalojos'
        BY <3>1, Tipos, SesionesIgual DEF Invariante
      <3>4. QED
        BY <3>1, <3>2, <3>3, DesafiosIgual, VentanasIgual DEF Invariante
    <2>2. CASE Next
      BY <2>2, TickPasa, SetupPasa, SetupFallaPasa, ChallengePasa, IncompletoPasa, LoginPasa,
         LoginFallaPasa, GuardPasa, LogoutPasa, PasswordPasa, PasswordFallaPasa DEF Next
    <2>3. QED
      BY <2>1, <2>2
  <1>3. QED
    BY <1>1, <1>2, PTL DEF Spec

-----------------------------------------------------------------------------
(***************************************************************************)
(* The theorems                                                            *)
(***************************************************************************)

\* No cookie opens anything after its logout, its half hour of disuse or a
\* password change (webapi.c's guard, h_logout and h_password), and no one with
\* a right to enter is put out by fewer than a table full of sessions used in
\* the same second or later (webapi_session_create).
THEOREM SoloQuienDebe == Spec => []AccesoLegitimo
  <1>1. ASSUME Invariante
        PROVE  AccesoLegitimo
    <2> USE DEF Invariante
    <2>1. /\ DOMAIN s_sessions = DS /\ 0 \notin Abiertas /\ Abiertas \subseteq Token
          /\ now \in Nat /\ vigente \in Nat
          /\ \A i \in DS : s_sessions[i].expira \in Nat
          /\ \A u \in Token : sesion[u].uso \in Nat /\ sesion[u].contra \in Nat
      BY <1>1, Tipos
    <2>2. ASSUME NEW t \in Abiertas, Vigente(s_sessions, t)
          PROVE  ConDerecho(t)
      <3>1. PICK i \in DS : s_sessions[i].id = t /\ t # 0 /\ s_sessions[i].expira > now
        BY <2>1, <2>2 DEF Vigente, Quien
      <3>2. /\ s_sessions[i].expira = sesion[t].uso + WEBAPI_SESSION_TTL_S
            /\ sesion[t].contra >= vigente /\ ~sesion[t].cerrada
        BY <1>1, <2>1, <3>1 DEF Entradas
      <3>3. now < s_sessions[i].expira
        BY <2>1, <3>1
      <3>4. QED
        BY <3>2, <3>3 DEF ConDerecho
    <2>3. ASSUME NEW t \in Abiertas, ConDerecho(t)
          PROVE  Vigente(s_sessions, t) \/ Desalojada(t)
      <3>1. CASE EnTabla(t)
        <4>1. PICK i \in DS : s_sessions[i].id = t
          BY <2>1, <3>1 DEF EnTabla
        <4>2. t # 0 /\ s_sessions[i].expira = sesion[t].uso + WEBAPI_SESSION_TTL_S
          BY <1>1, <2>1, <4>1 DEF Entradas
        <4>3. now < s_sessions[i].expira
          BY <2>3, <4>2 DEF ConDerecho
        <4>4. s_sessions[i].expira > now
          BY <2>1, <4>3
        <4>5. QED
          BY <2>1, <4>1, <4>2, <4>4 DEF Vigente, Quien
      <3>2. CASE ~EnTabla(t)
        BY <1>1, <2>3, <3>2 DEF Desalojos
      <3>3. QED
        BY <3>1, <3>2
    <2>4. QED
      BY <1>1, <2>2, <2>3 DEF AccesoLegitimo
  <1>2. QED
    BY <1>1, Inductivo, PTL

\* Any stretch of the length of a window sees at most two windows' worth of
\* failed logins (h_login's s_login_win_start and s_login_fails).
THEOREM DosVentanas == Spec => []FuerzaBruta
  <1>1. Invariante => FuerzaBruta
    BY FuerzaBrutaDeVentanas DEF Invariante
  <1>2. QED
    BY <1>1, Inductivo, PTL

LEMMA AceptaBien ==
  ASSUME Invariante, NEW m \in Retos, Vigente(s_nonces, m), Acepta(m),
         NEW n \in Nonce, reto'[n].veces # reto[n].veces
  PROVE  reto[n].veces = 0 /\ now < reto[n].emitido + WEBAPI_NONCE_TTL_S
  <1>1. /\ DOMAIN s_nonces = DN /\ now \in Nat
        /\ \A i \in DN : s_nonces[i].expira \in Nat
    BY Tipos DEF Invariante
  <1>2. n = m
    BY DEF Acepta, Invariante, Historia
  <1>3. PICK i \in DN : s_nonces[i].id = n /\ n # 0 /\ s_nonces[i].expira > now
    BY <1>1, <1>2 DEF Vigente, Quien
  <1>4. s_nonces[i].expira = reto[n].emitido + WEBAPI_NONCE_TTL_S /\ reto[n].veces = 0
    BY <1>1, <1>3 DEF Invariante, Desafios
  <1>5. now < s_nonces[i].expira
    BY <1>1, <1>3
  <1>6. QED
    BY <1>4, <1>5

\* A proof of a password is accepted once, and in the time of its challenge
\* (webapi_nonce_take and webapi_verify_challenge).
THEOREM UnaPrueba == Spec => PruebaUnica
  <1> DEFINE Bien == \A n \in Nonce : reto'[n].veces # reto[n].veces =>
                       reto[n].veces = 0 /\ now < reto[n].emitido + WEBAPI_NONCE_TTL_S
  <1>1. ASSUME Invariante, [Next]_vars
        PROVE  Bien
    <2>1. CASE UNCHANGED reto
      BY <2>1
    <2>2. CASE h_challenge
      <3> DEFINE k == nonces + 1
      <3>1. /\ reto' = [reto EXCEPT ![k] = [emitido |-> now,
                          contra |-> IF adm.hash = adm.salt THEN adm.hash ELSE 0, veces |-> 0]]
            /\ nonces < MaxNonces
        BY <2>2 DEF h_challenge
      <3>2. nonces \in Nat
        BY <1>1, Tipos DEF Invariante
      <3>3. k \in Nonce /\ k > nonces
        BY <3>1, <3>2 DEF Nonce
      <3> HIDE DEF k
      <3>4. reto[k].veces = 0
        BY <1>1, <3>3 DEF Invariante, Desafios
      <3>5. \A n \in Nonce : reto'[n].veces = reto[n].veces
        BY <1>1, <3>1, <3>3, <3>4 DEF Invariante, Historia
      <3>6. QED
        BY <3>5
    <2>3. ASSUME NEW m \in Retos, h_login(m)
          PROVE  Bien
      <3>1. Acepta(m) /\ Vigente(s_nonces, m)
        BY <2>3 DEF h_login, Demuestra
      <3>2. QED
        BY <1>1, <3>1, AceptaBien
    <2>4. ASSUME NEW t \in Abiertas, NEW m \in Retos, h_password(t, m)
          PROVE  Bien
      <3>1. Acepta(m) /\ Vigente(s_nonces, m)
        BY <2>4 DEF h_password, Demuestra
      <3>2. QED
        BY <1>1, <3>1, AceptaBien
    <2>5. ASSUME NEW t \in Abiertas, NEW m \in Retos, NEW bien \in BOOLEAN, PasswordFalla(t, m, bien)
          PROVE  Bien
      <3>1. (Acepta(m) /\ Vigente(s_nonces, m)) \/ UNCHANGED reto
        BY <2>5 DEF PasswordFalla, Demuestra
      <3>2. QED
        BY <1>1, <2>1, <3>1, AceptaBien
    <2>6. ASSUME Tick \/ h_setup \/ SetupFalla \/ LoginIncompleto
                   \/ (\E m \in Retos \cup {0}, bien \in BOOLEAN : LoginFalla(m, bien))
                   \/ (\E t \in Abiertas \cup {0} : guard(t)) \/ (\E t \in Abiertas : h_logout(t))
          PROVE  Bien
      <3>1. UNCHANGED reto
        BY <2>6 DEF Tick, h_setup, SetupFalla, LoginIncompleto, LoginFalla, guard, h_logout, historia
      <3>2. QED
        BY <2>1, <3>1
    <2>7. CASE UNCHANGED vars
      BY <2>1, <2>7 DEF vars, historia
    <2> HIDE DEF Bien
    <2>8. QED
      BY <1>1, <2>2, <2>3, <2>4, <2>5, <2>6, <2>7, Zenon DEF Next
  <1>2. QED
    BY <1>1, Inductivo, PTL DEF Spec, PruebaUnica
=============================================================================
