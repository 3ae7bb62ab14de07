------------------------------ MODULE Clients -------------------------------
(***************************************************************************)
(* The registry of clients (clients.c): how many queries of each address   *)
(* were served, how many of them were blocked, and when it was last seen,  *)
(* in a table that gives the entry least recently seen to a newcomer.      *)
(* Instants are seconds since the start, which do not wrap.                *)
(***************************************************************************)
EXTENDS Integers, Barrido, Policy

CONSTANTS CLIENTS_TABLE, Nadie    \* Nadie: an entry not in use

ASSUME ClientsAssumption == CLIENTS_TABLE \in Nat \ {0}

EntSlots == 0 .. CLIENTS_TABLE - 1

Ent == [ip : Clientes, total : Nat \ {0}, blocked : Nat, visto : Nat]

ASSUME NadieAssumption == Nadie \notin Ent

clients_init == [i \in EntSlots |-> Nadie]

Vistos(t) == {i \in EntSlots : t[i] # Nadie}

EntDe(t, c) == {i \in Vistos(t) : t[i].ip = c}

\* The first of the entries seen longest ago.
VistaHaceMas(t, i) ==
  EsPrimera({j \in Vistos(t) : \A k \in Vistos(t) : t[j].visto <= t[k].visto}, i)

\* Where clients_record writes a client that is not in the table.
EntPara(t, i) ==
  \/ EsPrimera(EntSlots \ Vistos(t), i)
  \/ Vistos(t) = EntSlots /\ VistaHaceMas(t, i)

\* Mutant of clients_record: the entry of another is gone on with.
RegistraSinLimpiar(t, c, b, now) ==
  LET i == CHOOSE j \in EntSlots :
             IF EntDe(t, c) # {} THEN EsPrimera(EntDe(t, c), j) ELSE EntPara(t, j)
  IN  [t EXCEPT ![i] = [ip |-> c, total |-> IF @ = Nadie THEN 1 ELSE @.total + 1,
                        blocked |-> IF @ = Nadie THEN b ELSE @.blocked + b, visto |-> now]]

\* clients_record; b is 1 if the query was blocked, 0 otherwise.
clients_record(t, c, b, now) ==
  IF EntDe(t, c) # {}
    THEN LET i == CHOOSE j \in EntSlots : EsPrimera(EntDe(t, c), j)
         IN  [t EXCEPT ![i].total = @ + 1, ![i].blocked = @ + b, ![i].visto = now]
    ELSE [t EXCEPT ![CHOOSE i \in EntSlots : EntPara(t, i)] =
            [ip |-> c, total |-> 1, blocked |-> b, visto |-> now]]
=============================================================================
