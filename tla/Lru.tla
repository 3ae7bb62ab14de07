-------------------------------- MODULE Lru ---------------------------------
(***************************************************************************)
(* What the DNS cache promises, without slots, hash chains or free list: a *)
(* sequence of answers in order of use, the most recent first, with one    *)
(* answer at most for each question.  An answer is served until its        *)
(* deadline, with what is left of its TTL.  A full cache forgets an        *)
(* expired answer if there is one among the EVICT_SCAN least recently      *)
(* used, or else the least recently used one.                              *)
(***************************************************************************)
EXTENDS Integers, Sequences

CONSTANTS Claves,      \* questions (name, type, class)
          Ttls,        \* TTLs an answer comes with
          CAPACITY,
          TTL_CAP,     \* seconds an answer is kept at most (cfg ttl_cap)
          EVICT_SCAN,
          MaxNow       \* bound: seconds

VARIABLES now, orden,
          salida       \* what the last call answered, if it did

vars == <<now, orden, salida>>

Plazo(e) == e.inserted + (IF e.ttl > TTL_CAP THEN TTL_CAP ELSE e.ttl)

De(k) == LET o == orden IN {o[i] : i \in {j \in DOMAIN o : o[j].clave = k}}

\* The rest, when the answer to question k, if there is one, is taken out.
Sin(k) ==
  LET o == orden
      n == CHOOSE j \in DOMAIN o : o[j].clave = k
  IN  IF De(k) = {} THEN o
      ELSE [i \in 1 .. Len(o) - 1 |-> IF i < n THEN o[i] ELSE o[i + 1]]

\* The answer a full cache forgets.
Victima ==
  LET o == orden
      n == Len(o)
      viejas == {i \in 1 .. n : i > n - EVICT_SCAN /\ Plazo(o[i]) <= now}
  IN  IF viejas = {} THEN o[n] ELSE o[CHOOSE i \in viejas : \A j \in viejas : j <= i]

Init == now = 0 /\ orden = <<>> /\ salida = {}

Sirve(k) ==
  /\ \E e \in De(k) :
       /\ now < Plazo(e)
       /\ salida' = {[clave |-> k, ttl |-> e.ttl - (now - e.inserted)]}
       /\ orden' = <<e>> \o Sin(k)
  /\ UNCHANGED now

\* What is past its deadline is forgotten when it is asked for.
Falla(k) ==
  /\ salida' = {}
  /\ \A e \in De(k) : now >= Plazo(e)
  /\ orden' = Sin(k)
  /\ UNCHANGED now

Guarda(k, ttl) ==
  LET resto == IF De(k) = {} /\ Len(orden) = CAPACITY THEN Sin(Victima.clave) ELSE Sin(k)
  IN  /\ ttl > 0
      /\ salida' = {}
      /\ orden' = <<[clave |-> k, ttl |-> ttl, inserted |-> now]>> \o resto
      /\ UNCHANGED now

\* An answer that isn't kept.
Ignora == salida' = {} /\ UNCHANGED <<now, orden>>

Vacia == orden' = <<>> /\ salida' = {} /\ UNCHANGED now

Tick == now < MaxNow /\ now' = now + 1 /\ salida' = {} /\ UNCHANGED orden

Next ==
  \/ Tick
  \/ Vacia
  \/ Ignora
  \/ \E k \in Claves : Sirve(k)
  \/ \E k \in Claves : Falla(k)
  \/ \E k \in Claves, ttl \in Ttls : Guarda(k, ttl)

Spec == Init /\ [][Next]_vars
=============================================================================
