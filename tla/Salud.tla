------------------------------- MODULE Salud --------------------------------
(***************************************************************************)
(* Health of the upstream resolvers (upstream.c, s_salud): consecutive     *)
(* failures of each one, and for one that is down (CAIDO) the instant from *)
(* which it may be probed again with real traffic.                         *)
(***************************************************************************)
EXTENDS Reloj, FiniteSets

CONSTANTS UPSTREAM_COUNT,  \* configured upstreams (1..4 in the firmware)
          CAIDO,           \* consecutive failures that take one down (3)
          BACKOFF          \* ticks before a probe (30 s)

ASSUME SaludAssumption ==
  /\ UPSTREAM_COUNT \in Nat \ {0}
  /\ CAIDO \in Nat \ {0}
  /\ BACKOFF \in Clock \ {0}

Ups == 0 .. UPSTREAM_COUNT - 1

SaludEntrada == [fallos : 0 .. CAIDO, caido_hasta : Clock]

SaludInicial == [u \in Ups |-> [fallos |-> 0, caido_hasta |-> 0]]

EstaCaido(s, u) == s[u].fallos = CAIDO

\* A down upstream whose probe is due, as the code decides it.
TocaSondear(s, u, now) == ~Antes(now, s[u].caido_hasta)

Utilizable(s, u, now) == EstaCaido(s, u) => TocaSondear(s, u, now)

\* elegir(0, now): the first usable upstream, or the first one if none is.
Elige(s, u, now) ==
  LET us == {v \in Ups : Utilizable(s, v, now)}
  IN  IF us = {} THEN u = 0 ELSE u \in us /\ \A v \in us : u <= v

\* Choosing a down upstream re-arms its back-off.
TrasElegir(s, u, now) ==
  IF EstaCaido(s, u) /\ TocaSondear(s, u, now)
    THEN [s EXCEPT ![u].caido_hasta = Suma(now, BACKOFF)]
    ELSE s

\* Mutant of TrasFallos: the count goes on past CAIDO.
TrasFallosSinTope(s, n, now) ==
  [u \in Ups |->
    IF n[u] = 0 THEN s[u]
    ELSE [fallos |-> s[u].fallos + n[u], caido_hasta |-> Suma(now, BACKOFF)]]

\* salud_fallo, n times in a row for each upstream: n[u] timeouts of u in
\* one pass of the timer.
TrasFallos(s, n, now) ==
  [u \in Ups |->
    IF EstaCaido(s, u) \/ n[u] = 0 THEN s[u]
    ELSE IF s[u].fallos + n[u] < CAIDO
      THEN [s[u] EXCEPT !.fallos = @ + n[u]]
      ELSE [fallos |-> CAIDO, caido_hasta |-> Suma(now, BACKOFF)]]

\* salud_ok.  caido_hasta_ms is only read while the upstream is down and is set
\* again when it next goes down, so it is forgotten here.
TrasOk(s, u) == [s EXCEPT ![u] = [fallos |-> 0, caido_hasta |-> 0]]
=============================================================================
