------------------------------ MODULE Barrido -------------------------------
(***************************************************************************)
(* The scan of a table by rising index that stops at the first slot with   *)
(* some property, the way every lookup of this firmware is written.        *)
(***************************************************************************)
EXTENDS Integers

\* Slot i is the first one of S.
EsPrimera(S, i) == i \in S /\ \A j \in S : i <= j
=============================================================================
