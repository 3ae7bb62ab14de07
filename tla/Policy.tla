------------------------------- MODULE Policy -------------------------------
(***************************************************************************)
(* The addresses that send queries, and which of them policy.c takes for   *)
(* local: those in a network of the device, which app_main works out once. *)
(***************************************************************************)
CONSTANTS Clientes,      \* addresses (ip_addr16_t)
          Locales        \* those in a local network

ASSUME PolicyAssumption == Locales \subseteq Clientes

policy_is_local(c) == c \in Locales
=============================================================================
