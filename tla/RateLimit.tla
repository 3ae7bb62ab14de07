----------------------------- MODULE RateLimit ------------------------------
(***************************************************************************)
(* The limiter of queries (ratelimit.c): a bucket of tokens for each client*)
(* in a table of fixed size, and one more for everybody.  Buckets are      *)
(* refilled when they are looked at, from the time gone by on a clock that *)
(* wraps; a client that finds no bucket takes the one least recently used. *)
(*                                                                         *)
(* recarga and the stamp of use of ratelimit_check always leave the same   *)
(* instant in ultimo_ms and usado_ms, so a bucket has one stamp.           *)
(***************************************************************************)
EXTENDS Reloj, Barrido, Policy

CONSTANTS RATELIMIT_TABLE,
          MIL,              \* thousandths of a token in a token
          ip_rate, ip_burst,
          glob_rate, glob_burst,
          Vacio             \* a bucket that is not in use

ASSUME RateLimitAssumption ==
  /\ RATELIMIT_TABLE \in Nat \ {0}
  /\ MIL \in Nat \ {0}
  /\ ip_rate \in Nat /\ ip_burst \in Nat \ {0}
  /\ glob_rate \in Nat /\ glob_burst \in Nat \ {0}

CuboSlots == 0 .. RATELIMIT_TABLE - 1

Tope(burst) == burst * MIL

Cubo == [ip : Clientes, tokens : 0 .. Tope(ip_burst), usado : Clock]

ASSUME VacioAssumption == Vacio \notin Cubo

\* ratelimit_t without its parameters.
LimiteTipo == [cubos : [CuboSlots -> Cubo \cup {Vacio}],
               glob : 0 .. Tope(glob_burst), glob_ultimo : Clock]

ratelimit_init ==
  [cubos |-> [i \in CuboSlots |-> Vacio], glob |-> Tope(glob_burst), glob_ultimo |-> 0]

\* Mutant of recarga: whole tokens only, and the rest of the time is lost.
RecargaSinResto(tokens, ultimo, rate, burst, now) ==
  LET nuevos == tokens + MIL * ((rate * Edad(now, ultimo)) \div MIL)
  IN  IF nuevos > Tope(burst) THEN Tope(burst) ELSE nuevos

\* recarga: the tokens of a bucket at now.
recarga(tokens, ultimo, rate, burst, now) ==
  LET nuevos == tokens + rate * Edad(now, ultimo)
  IN  IF nuevos > Tope(burst) THEN Tope(burst) ELSE nuevos

EnTecho(rl, now) == recarga(rl.glob, rl.glob_ultimo, glob_rate, glob_burst, now)

EnCubo(b, now) == recarga(b.tokens, b.usado, ip_rate, ip_burst, now)

RecargaGlobal(rl, now) == [rl EXCEPT !.glob = EnTecho(rl, now), !.glob_ultimo = now]

DelCliente(rl, c) == {i \in CuboSlots : rl.cubos[i] # Vacio /\ rl.cubos[i].ip = c}

\* Mutant of Victima: the bucket most recently used goes.
VictimaAlReves(rl) ==
  LET t == rl.cubos
      scan[i \in CuboSlots] ==
        IF i = 0 THEN 0
        ELSE LET v == scan[i - 1]
             IN  IF t[v] # Vacio /\ (t[i] = Vacio \/ Antes(t[v].usado, t[i].usado))
                   THEN i ELSE v
  IN  scan[RATELIMIT_TABLE - 1]

\* The bucket the scan of ratelimit_check ends with when the client has none:
\* the first free one, or the oldest by the sign of the difference.
Victima(rl) ==
  LET t == rl.cubos
      scan[i \in CuboSlots] ==
        IF i = 0 THEN 0
        ELSE LET v == scan[i - 1]
             IN  IF t[v] # Vacio /\ (t[i] = Vacio \/ Antes(t[i].usado, t[v].usado))
                   THEN i ELSE v
  IN  scan[RATELIMIT_TABLE - 1]

\* The bucket c is served from, and what is in it when it has been looked at.
CuboDe(rl, c) ==
  IF DelCliente(rl, c) = {} THEN Victima(rl)
  ELSE CHOOSE i \in CuboSlots : EsPrimera(DelCliente(rl, c), i)

TokensDe(rl, c, now) ==
  IF DelCliente(rl, c) = {} THEN Tope(ip_burst)
  ELSE EnCubo(rl.cubos[CuboDe(rl, c)], now)

HayTecho(rl, now) == EnTecho(rl, now) >= MIL

HayTokens(rl, c, now) == TokensDe(rl, c, now) >= MIL

\* ratelimit_check once the ceiling was passed: the bucket is refilled and
\* stamped, and gasta thousandths are taken from it and from the ceiling.
Sirve(rl, c, now, gasta) ==
  [cubos |-> [rl.cubos EXCEPT ![CuboDe(rl, c)] =
                [ip |-> c, tokens |-> TokensDe(rl, c, now) - gasta, usado |-> now]],
   glob |-> EnTecho(rl, now) - gasta,
   glob_ultimo |-> now]
=============================================================================
