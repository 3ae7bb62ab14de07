-------------------------------- MODULE Boot --------------------------------
(***************************************************************************)
(* The life of the device from one restart to the next: app_main, the      *)
(* provisioning over Wi-Fi with its portal, the keys of NVS they live on,  *)
(* the factory reset, and the update of the firmware with its trial boot.  *)
(*                                                                         *)
(* Every nvs_set is a step of its own: NVS keeps each key atomically, and  *)
(* promises nothing of several before nvs_commit, so a cut may leave any   *)
(* prefix of a function's writes.  A restart loses all but nvs, imagen and *)
(* sel, and the boot loader (external) chooses the slot that runs.         *)
(***************************************************************************)
EXTENDS Integers, Sequences, FiniteSetsExt

CONSTANTS Redes,       \* Wi-Fi networks; the password of r is written r
          Mala,        \* a password of no network
          Kconfig,     \* CONFIG_ESPHOLE_WIFI_SSID: a network, or Nada
          Nada,        \* an absent key, an empty string
          Largo, Roto, Corto,  \* a value that is longer than its field; one with
                       \* a % and no code after it; less than a password's 8
          Formas,      \* forms, by name
          Forma,       \* the fields of each, in order
          Descargas,   \* instances of tarea_ota
          Versiones,   \* whether cfg_ver is in the NVS of a device out of the box
          MaxCortes,   \* bound: power cuts and panics
          MaxFallos    \* bound: failed operations on NVS

ASSUME BootAssumption ==
  /\ Mala # Nada
  /\ {Nada, Mala, Largo, Roto, Corto} \cap Redes = {}
  /\ Kconfig \in Redes \cup {Nada}
  /\ Versiones \subseteq BOOLEAN
  /\ MaxCortes \in Nat /\ MaxFallos \in Nat

VARIABLES
  nvs,          \* the keys of the namespace "esphole" that decide the boot
  imagen, sel,  \* state of each slot's image; the slot to boot from
  run,          \* the slot that runs
  main,         \* where app_main is
  cfg,          \* s_cfg, its credentials
  http,         \* the handler that the HTTP task of the portal or the web is in
  guardado,     \* BIT_SAVED
  boton,        \* where tarea_reset_boton is
  escribe,      \* what each task has yet to write to NVS
  a_prueba,     \* s_validate_timer is armed
  en_curso, ota,  \* s_st.en_curso of otaupdate; where each of its tasks is
  cortes, fallos

firmware == <<imagen, sel, run, a_prueba, en_curso, ota>>
vars == <<nvs, firmware, main, cfg, http, guardado, boton, escribe, cortes, fallos>>

Ranuras == {0, 1}
Otra(s) == 1 - s

Claves == {"cfg_ver", "provisioned", "ssid", "pass", "adm_hash", "adm_salt"}
Escritores == {"main", "http", "boton"}

Nvs == [cfg_ver : BOOLEAN, provisioned : BOOLEAN, ssid : Redes \cup {Nada},
        pass : Redes \cup {Mala, Nada}, adm_hash : BOOLEAN, adm_salt : BOOLEAN]

Config == [ssid : Redes \cup {Nada}, pass : Redes \cup {Mala, Nada}, provisioned : BOOLEAN]

\* "indef": flashed by cable; "vacia": erased, or written in part
Imagen == {"indef", "vacia", "nueva", "prueba", "valida", "abortada"}

TypeOK ==
  /\ nvs \in Nvs /\ cfg \in Config
  /\ imagen \in [Ranuras -> Imagen] /\ sel \in Ranuras /\ run \in Ranuras
  /\ main \in {"arranca", "pulsador", "borra", "conecta", "marca", "portal", "servicios",
               "web", "corre", "sin imagen"}
  /\ http \in {"libre", "save", "admin", "upstreams", "reinicia"}
  /\ boton \in {"no", "borra"}
  /\ guardado \in BOOLEAN /\ a_prueba \in BOOLEAN /\ en_curso \in BOOLEAN
  /\ \A w \in Escritores : Len(escribe[w]) <= 6
  /\ ota \in [Descargas -> {"no", "inicia", "descarga", "espera"}]
  /\ cortes \in 0 .. MaxCortes /\ fallos \in 0 .. MaxFallos

Vacio == [ssid |-> Nada, pass |-> Nada, provisioned |-> FALSE]

\* What a start finds in RAM.
Memoria ==
  /\ cfg' = Vacio /\ http' = "libre" /\ guardado' = FALSE /\ boton' = "no"
  /\ escribe' = [w \in Escritores |-> <<>>]
  /\ a_prueba' = FALSE /\ en_curso' = FALSE /\ ota' = [d \in Descargas |-> "no"]

Init ==
  /\ nvs \in [cfg_ver : Versiones, provisioned : {FALSE}, ssid : {Nada}, pass : {Nada},
              adm_hash : {FALSE}, adm_salt : {FALSE}]
  /\ imagen = [s \in Ranuras |-> IF s = 0 THEN "indef" ELSE "vacia"]
  /\ sel = 0 /\ run = 0
  /\ main = "arranca"
  /\ cfg = Vacio /\ http = "libre" /\ guardado = FALSE /\ boton = "no"
  /\ escribe = [w \in Escritores |-> <<>>]
  /\ a_prueba = FALSE /\ en_curso = FALSE /\ ota = [d \in Descargas |-> "no"]
  /\ cortes = 0 /\ fallos = 0

(***************************************************************************)
(* Restarts and the boot loader                                            *)
(***************************************************************************)

\* An image on trial that restarts has failed it.
TrasPrueba == [s \in Ranuras |-> IF imagen[s] = "prueba" THEN "abortada" ELSE imagen[s]]

Arrancable(s) == TrasPrueba[s] \in {"indef", "nueva", "valida"}

Elegida == IF Arrancable(sel) THEN sel ELSE Otra(sel)

Reinicia ==
  /\ Memoria
  /\ UNCHANGED nvs
  /\ IF Arrancable(Elegida)
     THEN /\ imagen' = [TrasPrueba EXCEPT ![Elegida] = IF @ = "nueva" THEN "prueba" ELSE @]
          /\ sel' = Elegida /\ run' = Elegida
          /\ main' = "arranca"
     ELSE main' = "sin imagen" /\ UNCHANGED <<imagen, sel, run>>

\* The power fails, or any task panics.
Corte ==
  /\ cortes < MaxCortes /\ main # "sin imagen"
  /\ cortes' = cortes + 1
  /\ Reinicia
  /\ UNCHANGED fallos

(***************************************************************************)
(* NVS                                                                     *)
(***************************************************************************)
Pon(k, v) == [k |-> k, v |-> v]
COMMIT == Pon("commit", TRUE)

\* config_save: of its keys only the version decides the boot; it goes last.
config_save == <<Pon("cfg_ver", TRUE), COMMIT>>

MarcaAlFinal(ssid, pass) ==
  <<Pon("ssid", ssid), Pon("pass", pass), Pon("provisioned", FALSE), COMMIT>>

config_save_wifi(ssid, pass) ==
  <<Pon("provisioned", FALSE), Pon("ssid", ssid), Pon("pass", pass), COMMIT>>

config_mark_provisioned == <<Pon("provisioned", TRUE), COMMIT>>

SoloLaMarca ==
  <<Pon("provisioned", FALSE), Pon("adm_hash", FALSE), Pon("adm_salt", FALSE), COMMIT>>

config_clear_wifi ==
  <<Pon("provisioned", FALSE), Pon("ssid", Nada), Pon("pass", Nada),
    Pon("adm_hash", FALSE), Pon("adm_salt", FALSE), COMMIT>>

config_set_admin == <<Pon("adm_hash", TRUE), Pon("adm_salt", TRUE), COMMIT>>

\* config_load: without the version mark, the compiled defaults.
config_load ==
  IF nvs.cfg_ver
  THEN [ssid |-> nvs.ssid, pass |-> nvs.pass, provisioned |-> nvs.provisioned]
  ELSE Vacio

Empieza(w, lote) == escribe' = [escribe EXCEPT ![w] = lote]

\* One nvs_set, nvs_erase_key or nvs_commit of a task.
Escribe(w) ==
  /\ escribe[w] # <<>>
  /\ LET e == Head(escribe[w]) IN
       nvs' = IF e.k \in Claves THEN [nvs EXCEPT ![e.k] = e.v] ELSE nvs
  /\ Empieza(w, Tail(escribe[w]))
  /\ UNCHANGED <<firmware, main, cfg, http, guardado, boton, cortes, fallos>>

Borrando(w) == w = "boton" \/ (w = "main" /\ main = "borra")

\* It fails.  The functions that save give up at the first failure and report
\* it; config_clear_wifi goes on.
EscribeFalla(w) ==
  /\ escribe[w] # <<>> /\ fallos < MaxFallos
  /\ fallos' = fallos + 1
  /\ Empieza(w, IF Borrando(w) THEN Tail(escribe[w]) ELSE <<>>)
  /\ http' = IF w = "http" THEN "libre" ELSE http
  /\ UNCHANGED <<nvs, firmware, main, cfg, guardado, boton, cortes>>

(***************************************************************************)
(* app_main and provisioning_run                                           *)
(***************************************************************************)
Resto == UNCHANGED <<cortes, fallos>>
ConMain == UNCHANGED <<nvs, http, boton, firmware>> /\ Resto

SinEstrenar == imagen[run] = "nueva"

\* otaupdate_boot_check: this start is the trial of a new image.
DePrueba == imagen[run] = "prueba"

\* otaupdate_boot_check arms the timer of a trial, then config_load and the
\* network compiled in.
Arranca ==
  /\ main = "arranca"
  /\ a_prueba' = DePrueba
  /\ cfg' = IF Kconfig = Nada THEN config_load
            ELSE [ssid |-> Kconfig, pass |-> Kconfig, provisioned |-> TRUE]
  /\ main' = "pulsador"
  /\ UNCHANGED <<nvs, imagen, sel, run, en_curso, ota, http, guardado, boton, escribe>>
  /\ Resto

provision_decide_boot(has_creds, boot_held) ==
  IF boot_held \/ ~has_creds THEN "portal" ELSE "conecta"

\* The button is up.
SinPulsar ==
  /\ main = "pulsador"
  /\ main' = provision_decide_boot(cfg.ssid # Nada, FALSE)
  /\ UNCHANGED <<cfg, guardado, escribe>> /\ ConMain

\* The button is held at the start: factory reset, and the portal.
Pulsado ==
  /\ main = "pulsador"
  /\ main' = "borra"
  /\ Empieza("main", config_clear_wifi)
  /\ UNCHANGED <<cfg, guardado>> /\ ConMain

Borrado ==
  /\ main = "borra" /\ escribe["main"] = <<>>
  /\ cfg' = config_load
  /\ main' = provision_decide_boot(config_load.ssid # Nada, TRUE)
  /\ UNCHANGED <<guardado, escribe>> /\ ConMain

\* The network gives an address, which it does only to the right password.
\* The result of config_mark_provisioned is not looked at.
Conecta ==
  /\ main = "conecta" /\ cfg.ssid # Nada /\ cfg.pass = cfg.ssid
  /\ IF cfg.provisioned THEN main' = "servicios" /\ UNCHANGED <<cfg, escribe>>
     ELSE /\ main' = "marca"
          /\ Empieza("main", config_mark_provisioned)
          /\ cfg' = [cfg EXCEPT !.provisioned = TRUE]
  /\ UNCHANGED guardado /\ ConMain

Marcado ==
  /\ main = "marca" /\ escribe["main"] = <<>>
  /\ main' = "servicios"
  /\ UNCHANGED <<cfg, guardado, escribe>> /\ ConMain

\* connect_sta waits for ever with credentials that once worked.
Plazo == ~cfg.provisioned

AgotaEspera ==
  /\ main = "conecta" /\ Plazo
  /\ main' = "portal"
  /\ guardado' = FALSE
  /\ UNCHANGED <<cfg, escribe>> /\ ConMain

NoLoEspera == TRUE

\* A form was stored: portal_stop waits for the HTTP task to leave its handler,
\* and what NVS has then is read back.
HttpTermina == http = "libre"

CierraPortal ==
  /\ main = "portal" /\ guardado /\ HttpTermina
  /\ guardado' = FALSE
  /\ cfg' = config_load
  /\ main' = "conecta"
  /\ UNCHANGED escribe /\ ConMain

\* net_dns_start, and webapi_start some steps later; without the DNS listener
\* the device restarts.
ArrancaServicios ==
  /\ main = "servicios"
  /\ main' = "web"
  /\ UNCHANGED <<cfg, guardado, escribe>> /\ ConMain

FallanServicios == main = "servicios" /\ Reinicia /\ Resto

\* otaupdate_confirm_healthy: the boot is complete.
Confirmada == [imagen EXCEPT ![run] = "valida"]

Confirma ==
  /\ main = "web"
  /\ main' = "corre"
  /\ a_prueba' = FALSE
  /\ imagen' = Confirmada
  /\ UNCHANGED <<nvs, sel, run, en_curso, ota, cfg, http, guardado, boton, escribe>> /\ Resto

(***************************************************************************)
(* The HTTP task: one handler at a time                                    *)
(***************************************************************************)
HayWeb == main \in {"web", "corre"}

ConHttp == UNCHANGED <<nvs, firmware, main, cfg, boton>> /\ Resto

\* What a form says of a key, the last time it does.
Dice(f, k) ==
  LET veces == {i \in DOMAIN f : f[i].k = k}
  IN  IF veces = {} THEN Nada ELSE f[Max(veces)].v

\* Of a form that is not understood no field is used.  An absent password is
\* that of an open network.
provision_form_parse(f) ==
  LET noValen == {i \in DOMAIN f : f[i].k \in {"ssid", "pass"} /\ f[i].v \in {Largo, Roto}}
  IN  IF noValen # {} THEN (IF f[Min(noValen)].v = Largo THEN "TOO_LONG" ELSE "MALFORMED")
      ELSE IF \E i \in DOMAIN f : f[i].k = "ssid" THEN "OK"
      ELSE "MALFORMED"

provision_creds_valid(f) == Dice(f, "ssid") # Nada /\ Dice(f, "pass") # Corto

\* A form that is taken has the network's password or a bad one, so that the
\* password of another network can only come of mixing two forms.
ASSUME FormaAssumption ==
  \A n \in Formas :
    provision_form_parse(Forma[n]) = "OK" /\ provision_creds_valid(Forma[n]) =>
      LET red == Dice(Forma[n], "ssid")
      IN  red \in Redes /\ Dice(Forma[n], "pass") \in {red, Mala}

\* POST /save on the portal
h_save(n) ==
  /\ main = "portal" /\ http = "libre"
  /\ provision_form_parse(Forma[n]) = "OK" /\ provision_creds_valid(Forma[n])
  /\ http' = "save"
  /\ Empieza("http", config_save_wifi(Dice(Forma[n], "ssid"), Dice(Forma[n], "pass")))
  /\ UNCHANGED guardado /\ ConHttp

\* The form is shown again.
SaveRechazado(n) ==
  /\ main = "portal" /\ http = "libre"
  /\ provision_form_parse(Forma[n]) # "OK" \/ ~provision_creds_valid(Forma[n])
  /\ UNCHANGED vars

Guardado ==
  /\ http = "save" /\ escribe["http"] = <<>>
  /\ http' = "libre" /\ guardado' = TRUE
  /\ UNCHANGED escribe /\ ConHttp

\* POST /api/setup and /api/password
h_admin ==
  /\ HayWeb /\ http = "libre"
  /\ http' = "admin"
  /\ Empieza("http", config_set_admin)
  /\ UNCHANGED guardado /\ ConHttp

AdminFijado ==
  /\ http = "admin" /\ escribe["http"] = <<>>
  /\ http' = "libre"
  /\ UNCHANGED <<guardado, escribe>> /\ ConHttp

\* PUT /api/config/upstreams ends, 400 ms after it answers, in a restart.
h_upstreams_put ==
  /\ HayWeb /\ http = "libre"
  /\ http' = "upstreams"
  /\ Empieza("http", config_save)
  /\ UNCHANGED guardado /\ ConHttp

UpstreamsGuardados ==
  /\ http = "upstreams" /\ escribe["http"] = <<>>
  /\ Reinicia /\ Resto

(***************************************************************************)
(* tarea_reset_boton                                                       *)
(***************************************************************************)
PulsadoEnMarcha ==
  /\ HayWeb /\ boton = "no"
  /\ boton' = "borra"
  /\ Empieza("boton", config_clear_wifi)
  /\ UNCHANGED <<nvs, firmware, main, cfg, http, guardado>> /\ Resto

BorradoEnMarcha == boton = "borra" /\ escribe["boton"] = <<>>

ReiniciaBoton == BorradoEnMarcha /\ Reinicia /\ Resto

(***************************************************************************)
(* otaupdate                                                               *)
(***************************************************************************)
ConOta == UNCHANGED <<nvs, run, a_prueba, main, cfg, http, guardado, boton, escribe>> /\ Resto

\* validate_timeout_cb
ExpiraPrueba == a_prueba /\ Reinicia /\ Resto

\* POST /api/firmware/update: one at a time
otaupdate_trigger(d) ==
  /\ HayWeb /\ http = "libre" /\ ~en_curso
  /\ ota[d] = "no"
  /\ en_curso' = TRUE
  /\ ota' = [ota EXCEPT ![d] = "inicia"]
  /\ UNCHANGED <<imagen, sel>> /\ ConOta

SinRollback == TRUE

\* esp_https_ota_begin erases the other slot; the OTA library refuses while
\* the image that runs is on trial.
PuedeBorrar == imagen[run] # "prueba"

OtaBegin(d) ==
  /\ ota[d] = "inicia" /\ PuedeBorrar
  /\ ota' = [ota EXCEPT ![d] = "descarga"]
  /\ imagen' = [imagen EXCEPT ![Otra(run)] = "vacia"]
  /\ UNCHANGED <<sel, en_curso>> /\ ConOta

OtaFalla(d) ==
  /\ ota[d] \in {"inicia", "descarga"}
  /\ ota' = [ota EXCEPT ![d] = "no"]
  /\ en_curso' = FALSE
  /\ UNCHANGED <<imagen, sel>> /\ ConOta

\* esp_https_ota_finish: the image is whole, and will boot on trial.  s_st is
\* closed here, half a second before the restart.
OtaFinish(d) ==
  /\ ota[d] = "descarga"
  /\ ota' = [ota EXCEPT ![d] = "espera"]
  /\ imagen' = [imagen EXCEPT ![Otra(run)] = "nueva"]
  /\ sel' = Otra(run)
  /\ en_curso' = FALSE
  /\ ConOta

OtaReinicia(d) == ota[d] = "espera" /\ Reinicia /\ Resto

(***************************************************************************)
(* The specification                                                       *)
(***************************************************************************)
Main ==
  \/ Arranca \/ SinPulsar \/ Borrado \/ Marcado \/ AgotaEspera \/ CierraPortal
  \/ ArrancaServicios \/ Confirma

Next ==
  \/ Main \/ Pulsado \/ Conecta \/ FallanServicios
  \/ \E w \in Escritores : Escribe(w) \/ EscribeFalla(w)
  \/ \E n \in Formas : h_save(n) \/ SaveRechazado(n)
  \/ Guardado \/ h_admin \/ AdminFijado \/ h_upstreams_put \/ UpstreamsGuardados
  \/ PulsadoEnMarcha \/ ReiniciaBoton
  \/ ExpiraPrueba
  \/ \E d \in Descargas : \/ otaupdate_trigger(d) \/ OtaBegin(d) \/ OtaFalla(d)
                           \/ OtaFinish(d) \/ OtaReinicia(d)
  \/ Corte

Spec == Init /\ [][Next]_vars

\* Tasks run, waits with a limit end, timers fire.  No fairness of the user, of
\* the network or of the failures.
FairSpec ==
  /\ Spec
  /\ WF_vars(Main)
  /\ WF_vars(\E w \in Escritores : Escribe(w))
  /\ WF_vars(Guardado) /\ WF_vars(AdminFijado) /\ WF_vars(UpstreamsGuardados)
  /\ WF_vars(ReiniciaBoton) /\ WF_vars(ExpiraPrueba)
  /\ \A d \in Descargas : WF_vars(OtaReinicia(d))

(***************************************************************************)
(* Properties                                                              *)
(***************************************************************************)

\* The mark "provisioned", with which the device waits for its network for
\* ever and never opens the portal again, only stands beside a network and a
\* password that have worked together, whatever cuts there were, and whatever
\* write failed.  (A factory reset goes on after a failure: if it can erase
\* neither the mark nor the network it still erases the password.)
CredencialesProbadas ==
  fallos < 2 /\ nvs.provisioned /\ nvs.ssid # Nada => nvs.pass = nvs.ssid

\* The portal never closes on the network of one form and the password of
\* another, though it keeps taking forms after the first one woke
\* provisioning_run, and whatever half a form an earlier restart had left.  (A
\* second form whose write fails does leave half.)
NoMezcla ==
  [][main = "portal" /\ main' = "conecta" /\ fallos = 0 => cfg'.pass \in {cfg'.ssid, Mala}]_vars

\* connect_sta is called with the credentials in NVS: "toma las credenciales
\* recien guardadas" (provisioning.c).
CargaLasGuardadas ==
  main = "conecta" /\ Kconfig = Nada => cfg.ssid = nvs.ssid /\ cfg.pass = nvs.pass

\* Whatever the device restarts from, it has an image to boot; and an image on
\* trial has a whole one to go back to, whatever is downloaded meanwhile: two
\* tasks never write the other slot at a time.
VueltaAtras ==
  /\ TypeOK
  /\ Cardinality({d \in Descargas : ota[d] \in {"inicia", "descarga"}}) <= 1
  /\ main # "sin imagen"
  /\ imagen[run] = "prueba" => imagen[Otra(run)] \in {"indef", "valida"}

\* The portal, where they can be mended, is where credentials that don't work
\* end, even if they are what a cut left of a form (but for the two failures of
\* CredencialesProbadas); and where a factory reset that was completed ends, even
\* if the power fails on the way.
VuelveAlPortal ==
  /\ (main = "conecta" /\ cfg.pass # cfg.ssid) ~> (main = "portal" \/ fallos > 1)
  /\ (BorradoEnMarcha /\ fallos = 0) ~> (main = "portal")

\* A trial ends: confirmed, or back in the other slot.
PruebaTermina == (imagen[run] = "prueba") ~> (imagen[run] # "prueba")
=============================================================================
