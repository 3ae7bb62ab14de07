----------------------------- MODULE BlockList ------------------------------
(***************************************************************************)
(* blocklist.c without its memory: what blocklist_finalize does to the     *)
(* entries, and how blocklist_contains searches them.  A name is inverted  *)
(* and normalised, "com.example", and is a sequence of bytes of which only *)
(* the order matters: '-' goes before '.', and '.' before the rest.  All   *)
(* recursion is by functions over a bounded domain.                        *)
(***************************************************************************)
EXTENDS Integers, Sequences

NUL == 0
GUION == 1
PUNTO == 2

\* What domain_normalize_invert lets through: bytes, and labels with something.
EsNombre(s) ==
  /\ s \in Seq(Nat \ {NUL}) /\ s # <<>>
  /\ s[1] # PUNTO /\ s[Len(s)] # PUNTO
  /\ \A i \in 2 .. Len(s) : s[i] = PUNTO => s[i - 1] # PUNTO

\* The byte at offset i of a string, and NUL from its end on.
Byte(s, i) == IF i < Len(s) THEN s[i + 1] ELSE NUL

strncmp(a, b, n) ==
  LET distintos == {i \in 0 .. n - 1 : Byte(a, i) # Byte(b, i)} IN
    IF distintos = {} THEN 0
    ELSE LET i == CHOOSE i \in distintos : \A j \in distintos : i <= j IN Byte(a, i) - Byte(b, i)

strcmp(a, b) == strncmp(a, b, Len(a) + Len(b) + 1)

(***************************************************************************)
(* blocklist_finalize: heapsort and removal of repeated entries            *)
(***************************************************************************)
Cambia(idx, i, j) == [idx EXCEPT ![i] = idx[j], ![j] = idx[i]]

HijoMayor(idx, n, r) ==
  LET h == 2 * r + 1 IN IF h + 1 < n /\ strcmp(idx[h], idx[h + 1]) < 0 THEN h + 1 ELSE h

\* idx is an array that starts at 0; baja[k] is where its loop is after k turns.
sift_down(idx, n, root) ==
  LET baja[k \in 0 .. n] ==
        IF k = 0 THEN [idx |-> idx, r |-> root]
        ELSE LET b == baja[k - 1]
                 h == HijoMayor(b.idx, n, b.r)
             IN IF 2 * b.r + 1 >= n \/ strcmp(b.idx[b.r], b.idx[h]) >= 0 THEN b
                ELSE [idx |-> Cambia(b.idx, b.r, h), r |-> h]
  IN baja[n].idx

Heapsort(s) ==
  LET n == Len(s)
      monton[k \in 0 .. n \div 2] ==
        IF k = 0 THEN [i \in 0 .. n - 1 |-> s[i + 1]] ELSE sift_down(monton[k - 1], n, n \div 2 - k)
      extrae[k \in 0 .. n - 1] ==
        IF k = 0 THEN monton[n \div 2]
        ELSE sift_down(Cambia(extrae[k - 1], 0, n - k), n - k, 0)
      orden == extrae[n - 1]
  IN [i \in 1 .. n |-> orden[i - 1]]

Ordenada(s) == \A i \in 2 .. Len(s) : strcmp(s[i - 1], s[i]) <= 0

Dedupe(s) ==
  LET quedan[n \in 0 .. Len(s)] ==
        IF n = 0 THEN <<>>
        ELSE LET q == quedan[n - 1] IN
               IF q # <<>> /\ strcmp(s[n], q[Len(q)]) = 0 THEN q ELSE Append(q, s[n])
  IN quedan[Len(s)]

blocklist_finalize(s) == Dedupe(IF Ordenada(s) THEN s ELSE Heapsort(s))

(***************************************************************************)
(* blocklist_contains                                                      *)
(***************************************************************************)

\* The entry e against the first plen bytes of q.
Compara(e, q, plen) ==
  LET c == strncmp(e, q, plen) IN IF c = 0 /\ Byte(e, plen) # NUL THEN 1 ELSE c

\* The binary search: the entry that is q[0..plen), or how many go before it.
\* vuelta[k] is where its loop is after k turns.
Busca(s, q, plen) ==
  LET vuelta[k \in 0 .. Len(s)] ==
        IF k = 0 THEN [exacta |-> FALSE, lo |-> 0, hi |-> Len(s)]
        ELSE LET b == vuelta[k - 1]
                 mid == b.lo + (b.hi - b.lo) \div 2
                 c == Compara(s[mid + 1], q, plen)
             IN IF b.exacta \/ b.lo >= b.hi THEN b
                ELSE [exacta |-> c = 0,
                      lo |-> IF c < 0 THEN mid + 1 ELSE b.lo,
                      hi |-> IF c < 0 THEN b.hi ELSE mid]
  IN vuelta[Len(s)]

\* Length of what pred has in common with q[0..plen).
Comun(pred, q, plen) ==
  CHOOSE c \in 0 .. plen :
    /\ \A i \in 0 .. c - 1 : Byte(pred, i) = Byte(q, i)
    /\ c = plen \/ c >= Len(pred) \/ Byte(pred, c) # Byte(q, c)

SinLimite(q, c, plen) == TRUE

\* A prefix of length c ends where a label does.
EnLimite(q, c, plen) == c = plen \/ Byte(q, c) = PUNTO

\* The longest prefix that ends at a point, of those no longer than c.
SiguientePrefijo(q, c) ==
  LET puntos == {p \in 1 .. c : Byte(q, p) = PUNTO} IN
    IF puntos = {} THEN 0 ELSE CHOOSE p \in puntos : \A o \in puntos : o <= p

\* A step: found (1), discarded (-1), or the next prefix to try (0).
busca_paso(s, q, plen) ==
  LET b == Busca(s, q, plen)
      pred == s[b.lo]
      c == Comun(pred, q, plen)
      p == SiguientePrefijo(q, c)
  IN CASE b.exacta -> [r |-> 1, next |-> 0]
       [] ~b.exacta /\ b.lo = 0 -> [r |-> -1, next |-> 0]
       [] OTHER -> IF c >= Len(pred) /\ EnLimite(q, c, plen) THEN [r |-> 1, next |-> 0]
                   ELSE [r |-> IF p = 0 THEN -1 ELSE 0, next |-> p]

\* With an active list s.  Prefixes get shorter, so the code's limit on the
\* number of steps, one a label, is never met.
blocklist_contains(s, q) ==
  LET prueba[plen \in 0 .. Len(q)] ==
        LET b == busca_paso(s, q, plen) IN b.r = 1 \/ (b.r = 0 /\ prueba[b.next])
  IN s # <<>> /\ prueba[Len(q)]

\* What it is for: the entry is the name or one of its parents.
domain_suffix_match(e, q) ==
  /\ Len(e) <= Len(q) /\ SubSeq(q, 1, Len(e)) = e
  /\ Len(q) = Len(e) \/ q[Len(e) + 1] = PUNTO
=============================================================================
