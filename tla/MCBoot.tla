------------------------------- MODULE MCBoot -------------------------------
EXTENDS Boot, TLC

CONSTANTS r1, r2, o1, o2

Campo(k, v) == [k |-> k, v |-> v]
ConCampos(ssid, pass) == <<Campo("ssid", ssid), Campo("pass", pass)>>

\* Each network with its password and with a bad one, fields that come twice or in
\* another order, or are of nobody; and forms that are not taken.
MCForma ==
  <<ConCampos(r1, r1), ConCampos(r1, Mala),
    <<Campo("pass", Corto), Campo("ssid", r1)>> \o ConCampos(r2, r2),
    <<Campo("pass", Mala), Campo("otra", Roto), Campo("ssid", r2)>>,
    ConCampos(r1, Corto), ConCampos(Nada, r1), <<Campo("pass", r1)>>,
    ConCampos(r1, r1) \o ConCampos(Largo, r2), <<Campo("pass", Roto)>> \o ConCampos(r1, r1)>>
=============================================================================
