------------------------------ MODULE Reenvio -------------------------------
(***************************************************************************)
(* What the forwarder promises its clients, whatever table, transaction    *)
(* ids, retries and upstreams it uses inside: a request it took is         *)
(* answered at most once, together with every request grouped with it, and *)
(* with an answer to its own question or SERVFAIL; it is given up silently *)
(* only when a newer one needs its place, or when it could not be parsed.  *)
(***************************************************************************)
EXTENDS Sequences

CONSTANTS Reqs, Keys, Crudas, Nada

VARIABLES pedida,  \* the question each client is waiting for
          buzon,   \* what each client has received
          espera   \* the requests the forwarder owes an answer

vars == <<pedida, buzon, espera>>

Init ==
  /\ pedida = [r \in Reqs |-> Nada]
  /\ buzon = [r \in Reqs |-> <<>>]
  /\ espera = {}

Envia(S, res, k) ==
  [r \in Reqs |-> IF r \in S THEN Append(buzon[r], [res |-> res, key |-> k]) ELSE buzon[r]]

\* A request is taken; taking it may push out the requests of one question.
Acepta(r, k, desalojadas) ==
  /\ pedida[r] = Nada
  /\ pedida' = [pedida EXCEPT ![r] = k]
  /\ desalojadas \subseteq espera
  /\ \A a, b \in desalojadas : pedida[a] = pedida[b] /\ pedida[a] \in Keys
  /\ espera' = (espera \ desalojadas) \cup {r}
  /\ UNCHANGED buzon

\* Only a request that can't be parsed is refused.
Rechaza(r, k) ==
  /\ k \in Crudas
  /\ pedida[r] = Nada
  /\ pedida' = [pedida EXCEPT ![r] = k]
  /\ UNCHANGED <<buzon, espera>>

\* One answer goes to a group of requests that asked that very question.
Responde(S, k) ==
  /\ S \subseteq espera
  /\ \A r \in S : pedida[r] = k
  /\ buzon' = Envia(S, "respuesta", k)
  /\ espera' = espera \ S
  /\ UNCHANGED pedida

\* The passthrough relays the answer without reading it.
RespondeCruda(r, k) ==
  /\ r \in espera
  /\ pedida[r] \in Crudas
  /\ buzon' = Envia({r}, "respuesta", k)
  /\ espera' = espera \ {r}
  /\ UNCHANGED pedida

\* Requests run out of time: those of the passthrough in silence.
Vence(fallidas, calladas) ==
  /\ fallidas \cup calladas \subseteq espera
  /\ \A r \in fallidas : pedida[r] \in Keys
  /\ \A r \in calladas : pedida[r] \in Crudas
  /\ buzon' = [r \in Reqs |->
       IF r \in fallidas
         THEN Append(buzon[r], [res |-> "servfail", key |-> pedida[r]])
         ELSE buzon[r]]
  /\ espera' = espera \ (fallidas \cup calladas)
  /\ UNCHANGED pedida

Lee(r) ==
  /\ buzon[r] # <<>>
  /\ pedida' = [pedida EXCEPT ![r] = Nada]
  /\ buzon' = [buzon EXCEPT ![r] = <<>>]
  /\ UNCHANGED espera

Desiste(r) ==
  /\ r \notin espera
  /\ buzon[r] = <<>>
  /\ pedida' = [pedida EXCEPT ![r] = Nada]
  /\ UNCHANGED <<buzon, espera>>

Next ==
  \/ \E r \in Reqs, k \in Keys \cup Crudas, d \in SUBSET espera : Acepta(r, k, d)
  \/ \E r \in Reqs, k \in Crudas : Rechaza(r, k)
  \/ \E S \in SUBSET espera, k \in Keys : Responde(S, k)
  \/ \E r \in espera, k \in Keys \cup Crudas : RespondeCruda(r, k)
  \/ \E f, c \in SUBSET espera : Vence(f, c)
  \/ \E r \in Reqs : Lee(r)
  \/ \E r \in Reqs : Desiste(r)

Spec == Init /\ [][Next]_vars
=============================================================================
