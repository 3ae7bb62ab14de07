-------------------------------- MODULE Web ---------------------------------
(***************************************************************************)
(* Access to the web API: webapi_logic.c's tables of sessions and of       *)
(* challenges, and the handlers of webapi.c that use them.  The HTTP task  *)
(* serves one request at a time, so a handler is one step; what interleaves*)
(* is the requests of any number of browsers, which take several to enter, *)
(* and time.  A request may come again, however late, so every cookie and  *)
(* every challenge ever handed out may come at any time.                   *)
(*                                                                         *)
(* A password is the number of its change; tokens and nonces are numbered  *)
(* as they are drawn, for the code never draws one twice (16 random bytes).*)
(***************************************************************************)
EXTENDS Integers, FiniteSets

CONSTANTS WEBAPI_SESSIONS, WEBAPI_NONCES,
          WEBAPI_SESSION_TTL_S, WEBAPI_NONCE_TTL_S,
          LOGIN_WIN_S, LOGIN_MAX_FAILS,
          MaxNow,                       \* bound: seconds
          MaxTokens, MaxNonces,         \* bounds: sessions opened, challenges
          MaxContras                    \* bound: passwords set

ASSUME WebAssumption ==
  /\ {WEBAPI_SESSIONS, WEBAPI_NONCES, WEBAPI_SESSION_TTL_S, WEBAPI_NONCE_TTL_S,
      LOGIN_WIN_S, LOGIN_MAX_FAILS} \subseteq Nat \ {0}
  /\ {MaxNow, MaxTokens, MaxNonces, MaxContras} \subseteq Nat

VARIABLES
  now,
  adm,                \* adm_hash and adm_salt in NVS; 0: no such key
  s_sessions, s_nonces,
  win_start, fails,   \* s_login_win_start, s_login_fails
  contras, tokens, nonces,  \* how many have been drawn
  vigente,            \* last password whose change was answered with a 200
  sesion,             \* of each token: the password that opened it, when it was last accepted
  reto,               \* of each nonce: when it was issued, the password its salt goes
                      \* with, and how often it was accepted
  fallidos            \* failed logins up to each second, that one included

historia == <<vigente, sesion, reto, fallidos>>
vars == <<now, adm, s_sessions, s_nonces, win_start, fails, contras, tokens,
          nonces, historia>>

Token == 1 .. MaxTokens
Nonce == 1 .. MaxNonces
Contra == 1 .. MaxContras

\* A free entry has id 0.
Entrada(Id, ttl) == [id : Id \cup {0}, expira : 0 .. MaxNow + ttl]
Libre == [id |-> 0, expira |-> 0]

TypeOK ==
  /\ now \in 0 .. MaxNow
  /\ adm \in [hash : Contra \cup {0}, salt : Contra \cup {0}]
  /\ s_sessions \in [0 .. WEBAPI_SESSIONS - 1 -> Entrada(Token, WEBAPI_SESSION_TTL_S)]
  /\ s_nonces \in [0 .. WEBAPI_NONCES - 1 -> Entrada(Nonce, WEBAPI_NONCE_TTL_S)]
  /\ win_start \in 0 .. now /\ fails \in 0 .. LOGIN_MAX_FAILS
  /\ contras \in 0 .. MaxContras /\ tokens \in 0 .. MaxTokens /\ nonces \in 0 .. MaxNonces

Vacia(n) == [i \in 0 .. n - 1 |-> Libre]

Init ==
  /\ now = 0
  /\ adm = [hash |-> 0, salt |-> 0]
  /\ s_sessions = Vacia(WEBAPI_SESSIONS) /\ s_nonces = Vacia(WEBAPI_NONCES)
  /\ win_start = 0 /\ fails = 0
  /\ contras = 0 /\ tokens = 0 /\ nonces = 0
  /\ vigente = 0
  /\ sesion = [t \in Token |-> [contra |-> 0, uso |-> 0, cerrada |-> FALSE]]
  /\ reto = [n \in Nonce |-> [emitido |-> 0, contra |-> 0, veces |-> 0]]
  /\ fallidos = [i \in 0 .. MaxNow |-> 0]

(***************************************************************************)
(* The tables (webapi_logic.c)                                             *)
(***************************************************************************)
Quien(t, id) == {i \in DOMAIN t : t[i].id = id /\ id # 0}

Vigente(t, id) == \E i \in Quien(t, id) : t[i].expira > now

\* webapi_session_invalidate
Quita(t, id) == [i \in DOMAIN t |-> IF i \in Quien(t, id) THEN Libre ELSE t[i]]

\* A session out of time is freed when its token comes; a good one starts anew.
Refresca(t, id) ==
  [i \in DOMAIN t |-> IF i \notin Quien(t, id) THEN t[i]
                      ELSE IF Vigente(t, id)
                           THEN [t[i] EXCEPT !.expira = now + WEBAPI_SESSION_TTL_S] ELSE Libre]

Libres(t) == {i \in DOMAIN t : t[i].id = 0}

Victimas(t) == {i \in DOMAIN t : \A j \in DOMAIN t : t[i].expira <= t[j].expira}

\* The first free entry or, with none, the first of those with the nearest
\* deadline.
Hueco(t) ==
  LET candidatos == IF Libres(t) # {} THEN Libres(t) ELSE Victimas(t) IN
    CHOOSE i \in candidatos : \A j \in candidatos : i <= j

\* webapi_session_create, webapi_nonce_issue
Coloca(t, id, ttl) == [t EXCEPT ![Hueco(t)] = [id |-> id, expira |-> now + ttl]]

(***************************************************************************)
(* The handlers (webapi.c)                                                 *)
(***************************************************************************)
config_get_admin == adm.hash # 0 /\ adm.salt # 0

\* config_set_admin: both keys, or at an error of NVS either of them.
Guarda(p, exito) ==
  /\ contras' = p
  /\ \/ exito /\ adm' = [hash |-> p, salt |-> p]
     \/ ~exito /\ adm' \in {adm, [adm EXCEPT !.hash = p], [hash |-> p, salt |-> p]}

Abre(tabla, contra) ==
  /\ tokens < MaxTokens
  /\ tokens' = tokens + 1
  /\ s_sessions' = Coloca(tabla, tokens + 1, WEBAPI_SESSION_TTL_S)
  /\ sesion' = [sesion EXCEPT ![tokens + 1] = [contra |-> contra, uso |-> now, cerrada |-> FALSE]]

\* POST /api/setup, which also enters.
h_setup ==
  /\ ~config_get_admin /\ contras < MaxContras
  /\ Guarda(contras + 1, TRUE)
  /\ Abre(s_sessions, contras + 1)
  /\ vigente' = contras + 1
  /\ UNCHANGED <<now, s_nonces, win_start, fails, nonces, reto, fallidos>>

SetupFalla ==
  /\ ~config_get_admin /\ contras < MaxContras
  /\ Guarda(contras + 1, FALSE)
  /\ UNCHANGED <<now, s_sessions, s_nonces, win_start, fails, tokens, nonces, historia>>

\* GET /api/challenge.  The salt it gives goes with the stored hash, unless a
\* failed change left one of each.
h_challenge ==
  /\ config_get_admin /\ nonces < MaxNonces
  /\ nonces' = nonces + 1
  /\ s_nonces' = Coloca(s_nonces, nonces + 1, WEBAPI_NONCE_TTL_S)
  /\ reto' = [reto EXCEPT ![nonces + 1] =
                [emitido |-> now, contra |-> IF adm.hash = adm.salt THEN adm.hash ELSE 0, veces |-> 0]]
  /\ UNCHANGED <<now, adm, s_sessions, win_start, fails, contras, tokens, vigente, sesion,
                 fallidos>>

NoGasta(nonce) == s_nonces' = s_nonces

\* webapi_nonce_take: found, it is spent, even out of time or with a wrong proof.
Gasta(nonce) == s_nonces' = Quita(s_nonces, nonce)

\* webapi_nonce_take and webapi_verify_challenge, of a proof computed with the
\* right password or not.
Demuestra(n, bien) ==
  /\ Vigente(s_nonces, n)
  /\ bien /\ reto[n].contra = adm.hash

Acepta(n) == reto' = [reto EXCEPT ![n].veces = @ + 1]

\* The window of failed logins ends at the first login after it.
VentanaPasada == now - win_start >= LOGIN_WIN_S
Fallos == IF VentanaPasada THEN 0 ELSE fails
VentanaFija == win_start' = win_start
Ventana == win_start' = IF VentanaPasada THEN now ELSE win_start

Bloqueado == Fallos >= LOGIN_MAX_FAILS

\* POST /api/login
h_login(n) ==
  /\ ~Bloqueado /\ config_get_admin
  /\ Ventana
  /\ Gasta(n)
  /\ Demuestra(n, TRUE)
  /\ Abre(s_sessions, adm.hash)
  /\ fails' = Fallos
  /\ Acepta(n)
  /\ UNCHANGED <<now, adm, contras, nonces, vigente, fallidos>>

LoginFalla(n, bien) ==
  /\ ~Bloqueado /\ config_get_admin
  /\ Ventana
  /\ Gasta(n)
  /\ ~Demuestra(n, bien)
  /\ fails' = Fallos + 1
  /\ fallidos' = [i \in 0 .. MaxNow |-> IF i < now THEN fallidos[i] ELSE fallidos[i] + 1]
  /\ UNCHANGED <<now, adm, s_sessions, contras, tokens, nonces, vigente, sesion, reto>>

\* A request without its fields, or without an administrator to enter as, also
\* moves the window.
LoginIncompleto ==
  /\ ~Bloqueado
  /\ Ventana
  /\ fails' = Fallos
  /\ UNCHANGED <<now, adm, s_sessions, s_nonces, contras, tokens, nonces, historia>>

\* guard: the request has the cookie of a session, and refreshes it.  Every
\* protected endpoint begins so; for most of them it is all they do here.
Autenticado(t) == Vigente(s_sessions, t)

Usa(t) == [sesion EXCEPT ![t].uso = now]

guard(t) ==
  /\ s_sessions' = Refresca(s_sessions, t)
  /\ sesion' = IF Autenticado(t) THEN Usa(t) ELSE sesion
  /\ UNCHANGED <<now, adm, s_nonces, win_start, fails, contras, tokens, nonces, vigente,
                 reto, fallidos>>

\* POST /api/logout
h_logout(t) ==
  /\ Autenticado(t)
  /\ s_sessions' = Quita(s_sessions, t)
  /\ sesion' = [Usa(t) EXCEPT ![t].cerrada = TRUE]
  /\ UNCHANGED <<now, adm, s_nonces, win_start, fails, contras, tokens, nonces, vigente,
                 reto, fallidos>>

SinCerrar == s_sessions
TrasCambio == Vacia(WEBAPI_SESSIONS)

\* POST /api/password: a session and a proof of the password; every session ends.
h_password(t, n) ==
  /\ Autenticado(t) /\ config_get_admin /\ contras < MaxContras
  /\ Gasta(n)
  /\ Demuestra(n, TRUE)
  /\ Acepta(n)
  /\ Guarda(contras + 1, TRUE)
  /\ s_sessions' = TrasCambio
  /\ vigente' = contras + 1
  /\ sesion' = Usa(t)
  /\ UNCHANGED <<now, win_start, fails, tokens, nonces, fallidos>>

\* The proof is refused, or the change can't be stored.
PasswordFalla(t, n, bien) ==
  /\ Autenticado(t) /\ config_get_admin /\ contras < MaxContras
  /\ Gasta(n)
  /\ IF Demuestra(n, bien) THEN Acepta(n) /\ Guarda(contras + 1, FALSE)
     ELSE UNCHANGED <<reto, contras, adm>>
  /\ s_sessions' = Refresca(s_sessions, t)
  /\ sesion' = Usa(t)
  /\ UNCHANGED <<now, win_start, fails, tokens, nonces, vigente, fallidos>>

Tick ==
  /\ now < MaxNow
  /\ now' = now + 1
  /\ UNCHANGED <<adm, s_sessions, s_nonces, win_start, fails, contras, tokens,
                 nonces, historia>>

Abiertas == 1 .. tokens
Retos == 1 .. nonces

Next ==
  \/ Tick \/ h_setup \/ SetupFalla \/ h_challenge \/ LoginIncompleto
  \/ \E n \in Retos : h_login(n)
  \/ \E n \in Retos \cup {0}, bien \in BOOLEAN : LoginFalla(n, bien)
  \/ \E t \in Abiertas \cup {0} : guard(t)
  \/ \E t \in Abiertas :
       \/ h_logout(t)
       \/ \E n \in Retos : h_password(t, n)
       \/ \E n \in Retos, bien \in BOOLEAN : PasswordFalla(t, n, bien)

Spec == Init /\ [][Next]_vars

(***************************************************************************)
(* Properties                                                              *)
(***************************************************************************)
\* What entitles a token: it was opened with the password in force or with one
\* set after it, it wasn't logged out, and it has been used in time.
ConDerecho(t) ==
  /\ sesion[t].contra >= vigente /\ ~sesion[t].cerrada
  /\ now < sesion[t].uso + WEBAPI_SESSION_TTL_S

\* The sessions opened or used since t was last used leave no room for it.
Desalojada(t) ==
  Cardinality({u \in Abiertas \ {t} : sesion[u].uso >= sesion[t].uso}) >= WEBAPI_SESSIONS

\* No cookie opens anything after its logout, its half hour of disuse or a
\* password change, whatever entry its session had or has been given; and no one
\* with a right to enter is put out, but by as many other sessions as there is
\* room for, all used in the same second or later.
AccesoLegitimo ==
  /\ TypeOK
  /\ \A t \in Abiertas :
       /\ Vigente(s_sessions, t) => ConDerecho(t)
       /\ ConDerecho(t) => Vigente(s_sessions, t) \/ Desalojada(t)

\* A proof of a password is accepted once, and in the time of its challenge.
PruebaUnica ==
  [][\A n \in Nonce : reto'[n].veces # reto[n].veces =>
       reto[n].veces = 0 /\ now < reto[n].emitido + WEBAPI_NONCE_TTL_S]_vars

\* The windows of failed logins follow one another, so any stretch of their
\* length sees at most two windows' worth.
FuerzaBruta ==
  fallidos[now] - (IF now < LOGIN_WIN_S THEN 0 ELSE fallidos[now - LOGIN_WIN_S])
    <= 2 * LOGIN_MAX_FAILS
=============================================================================
