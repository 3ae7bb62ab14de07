----------------------------- MODULE BootProofs ------------------------------
(***************************************************************************)
(* What a cut or a failed write can't do to the credentials, and why a     *)
(* trial can always go back.  The invariant says of each task that writes  *)
(* to NVS how far it has got: what it has yet to write is the end of one   *)
(* batch, and what it has written is there.                                *)
(***************************************************************************)
EXTENDS Boot, FiniteSetTheorems, SequenceTheorems, TLAPS

-----------------------------------------------------------------------------
(***************************************************************************)
(* The invariant                                                           *)
(***************************************************************************)
\* A write of the right kind of value to a key.
Orden ==
  {e \in [k : Claves \cup {"commit"}, v : BOOLEAN \cup Redes \cup {Mala, Nada}] :
     /\ e.k = "ssid" => e.v \in Redes \cup {Nada}
     /\ e.k = "pass" => e.v \in Redes \cup {Mala, Nada}
     /\ e.k \notin {"ssid", "pass"} => e.v \in BOOLEAN}

\* s is the end of the batch l.
Sufijo(s, l) ==
  /\ s \in Seq(Orden)
  /\ Len(s) <= Len(l)
  /\ \A j \in 1 .. Len(s) : s[j] = l[Len(l) - Len(s) + j]

Tipo == TypeOK /\ escribe \in [Escritores -> Seq(Orden)]

\* What the tasks have yet to write, by where they are; nobody else writes
\* while the portal has a form in hand.
DeMain ==
  /\ main = "borra" => Sufijo(escribe["main"], config_clear_wifi)
  /\ main = "marca" => Sufijo(escribe["main"], config_mark_provisioned)
  /\ main \notin {"borra", "marca"} => escribe["main"] = <<>>

DeHttp ==
  /\ http = "libre" => escribe["http"] = <<>>
  /\ http = "save" => main = "portal"
  /\ http = "admin" => HayWeb /\ Sufijo(escribe["http"], config_set_admin)
  /\ http = "upstreams" => HayWeb /\ Sufijo(escribe["http"], config_save)
  /\ http # "reinicia"

DeBoton ==
  /\ boton = "no" => escribe["boton"] = <<>>
  /\ boton = "borra" => HayWeb /\ Sufijo(escribe["boton"], config_clear_wifi)

\* A form of red with the password pass, n writes from its end.
Guardando(red, pass, n) ==
  /\ n < 4 => ~nvs.provisioned
  /\ n < 3 => nvs.ssid = red
  /\ n < 2 => nvs.pass = pass

Formulario ==
  http = "save" =>
    \E red \in Redes : \E pass \in {red, Mala} :
      /\ Sufijo(escribe["http"], config_save_wifi(red, pass))
      /\ Guardando(red, pass, Len(escribe["http"]))

\* A factory reset n writes from its end.
Borrado6(n) ==
  /\ n < 6 /\ nvs.provisioned => fallos >= 1
  /\ n < 5 /\ nvs.provisioned /\ nvs.ssid # Nada => fallos >= 2

Borrados ==
  /\ main = "borra" => Borrado6(Len(escribe["main"]))
  /\ boton = "borra" => Borrado6(Len(escribe["boton"]))

\* The credentials that are being tried are those in NVS.
Probando ==
  main \in {"pulsador", "conecta"} /\ ~cfg.provisioned /\ cfg.ssid # Nada =>
    cfg.ssid = nvs.ssid /\ cfg.pass = nvs.pass

Marcando == main = "marca" => nvs.pass = nvs.ssid

Fases == DeMain /\ DeHttp /\ DeBoton

Escrituras == Fases /\ Formulario /\ Borrados /\ Probando /\ Marcando /\ CredencialesProbadas

\* A form that was stored whole is there for the portal to close on.
Recogida ==
  /\ guardado => main = "portal"
  /\ guardado /\ http = "libre" /\ fallos = 0 => nvs.pass \in {nvs.ssid, Mala}

\* The image that runs can be booted again, or has one behind it; and one task
\* writes the other slot at most.
Descargando(d) == ota[d] \in {"inicia", "descarga"}

Arranques ==
  /\ main # "sin imagen"
  /\ imagen[run] \in {"indef", "prueba", "valida"}
  /\ imagen[run] = "prueba" =>
       /\ sel = run
       /\ imagen[Otra(run)] \in {"indef", "valida"}
       /\ \A d \in Descargas : ota[d] \in {"no", "inicia"}
  /\ \A d, e \in Descargas : Descargando(d) /\ Descargando(e) => d = e
  /\ \A d \in Descargas : Descargando(d) => en_curso

Invariante == Tipo /\ Escrituras /\ Recogida /\ Arranques

-----------------------------------------------------------------------------
(***************************************************************************)
(* Batches of writes                                                       *)
(***************************************************************************)
LEMMA PonRed ==
  ASSUME NEW v \in Redes \cup {Nada}
  PROVE  Pon("ssid", v) \in Orden
  BY DEF Pon, Orden, Claves

LEMMA PonPass ==
  ASSUME NEW v \in Redes \cup {Mala, Nada}
  PROVE  Pon("pass", v) \in Orden
  BY DEF Pon, Orden, Claves

LEMMA PonOtra ==
  ASSUME NEW k \in (Claves \cup {"commit"}) \ {"ssid", "pass"}, NEW v \in BOOLEAN
  PROVE  Pon(k, v) \in Orden
  BY DEF Pon, Orden

LEMMA ClearWifiOrdenes ==
  /\ config_clear_wifi \in Seq(Orden)
  /\ Len(config_clear_wifi) = 6
  /\ config_clear_wifi[1] = [k |-> "provisioned", v |-> FALSE]
  /\ config_clear_wifi[2] = [k |-> "ssid", v |-> Nada]
  /\ \A i \in 3 .. 6 : config_clear_wifi[i].k \notin {"ssid", "provisioned"}
  <1>1. /\ Pon("provisioned", FALSE) \in Orden
        /\ Pon("adm_hash", FALSE) \in Orden
        /\ Pon("adm_salt", FALSE) \in Orden
        /\ COMMIT \in Orden
    BY PonOtra DEF Claves, COMMIT
  <1>2. Pon("ssid", Nada) \in Orden /\ Pon("pass", Nada) \in Orden
    BY PonRed, PonPass
  <1>3. config_clear_wifi \in Seq(Orden) /\ Len(config_clear_wifi) = 6
    BY <1>1, <1>2 DEF config_clear_wifi, Pon, COMMIT
  <1>4. ASSUME NEW i \in 3 .. 6
        PROVE  config_clear_wifi[i].k \notin {"ssid", "provisioned"}
    <2>1. i = 3 \/ i = 4 \/ i = 5 \/ i = 6
      OBVIOUS
    <2>2. QED
      BY <2>1 DEF config_clear_wifi, Pon, COMMIT
  <1>5. QED
    BY <1>3, <1>4 DEF config_clear_wifi, Pon

LEMMA MarkOrdenes ==
  /\ config_mark_provisioned \in Seq(Orden)
  /\ Len(config_mark_provisioned) = 2
  /\ \A i \in 1 .. 2 : config_mark_provisioned[i].k \notin {"ssid", "pass"}
  <1>1. Pon("provisioned", TRUE) \in Orden /\ COMMIT \in Orden
    BY PonOtra DEF Claves, COMMIT
  <1>2. ASSUME NEW i \in 1 .. 2
        PROVE  config_mark_provisioned[i].k \notin {"ssid", "pass"}
    <2>1. i = 1 \/ i = 2
      OBVIOUS
    <2>2. QED
      BY <2>1 DEF config_mark_provisioned, Pon, COMMIT
  <1>3. QED
    BY <1>1, <1>2 DEF config_mark_provisioned, Pon, COMMIT

LEMMA AdminOrdenes ==
  /\ config_set_admin \in Seq(Orden)
  /\ Len(config_set_admin) = 3
  /\ \A i \in 1 .. 3 : config_set_admin[i].k \notin {"ssid", "pass", "provisioned"}
  <1>1. /\ Pon("adm_hash", TRUE) \in Orden
        /\ Pon("adm_salt", TRUE) \in Orden
        /\ COMMIT \in Orden
    BY PonOtra DEF Claves, COMMIT
  <1>2. ASSUME NEW i \in 1 .. 3
        PROVE  config_set_admin[i].k \notin {"ssid", "pass", "provisioned"}
    <2>1. i = 1 \/ i = 2 \/ i = 3
      OBVIOUS
    <2>2. QED
      BY <2>1 DEF config_set_admin, Pon, COMMIT
  <1>3. QED
    BY <1>1, <1>2 DEF config_set_admin, Pon, COMMIT

LEMMA SaveOrdenes ==
  /\ config_save \in Seq(Orden)
  /\ Len(config_save) = 2
  /\ \A i \in 1 .. 2 : config_save[i].k \notin {"ssid", "pass", "provisioned"}
  <1>1. Pon("cfg_ver", TRUE) \in Orden /\ COMMIT \in Orden
    BY PonOtra DEF Claves, COMMIT
  <1>2. ASSUME NEW i \in 1 .. 2
        PROVE  config_save[i].k \notin {"ssid", "pass", "provisioned"}
    <2>1. i = 1 \/ i = 2
      OBVIOUS
    <2>2. QED
      BY <2>1 DEF config_save, Pon, COMMIT
  <1>3. QED
    BY <1>1, <1>2 DEF config_save, Pon, COMMIT

LEMMA WifiOrdenes ==
  ASSUME NEW red \in Redes, NEW pass \in Redes \cup {Mala}
  PROVE  /\ config_save_wifi(red, pass) \in Seq(Orden)
         /\ Len(config_save_wifi(red, pass)) = 4
         /\ config_save_wifi(red, pass)[1] = [k |-> "provisioned", v |-> FALSE]
         /\ config_save_wifi(red, pass)[2] = [k |-> "ssid", v |-> red]
         /\ config_save_wifi(red, pass)[3] = [k |-> "pass", v |-> pass]
         /\ config_save_wifi(red, pass)[4] = [k |-> "commit", v |-> TRUE]
  <1>1. Pon("provisioned", FALSE) \in Orden /\ COMMIT \in Orden
    BY PonOtra DEF Claves, COMMIT
  <1>2. Pon("ssid", red) \in Orden /\ Pon("pass", pass) \in Orden
    BY PonRed, PonPass
  <1>3. QED
    BY <1>1, <1>2 DEF config_save_wifi, Pon, COMMIT

LEMMA SufijoPropio ==
  ASSUME NEW l \in Seq(Orden)
  PROVE  Sufijo(l, l)
  BY DEF Sufijo

\* What is left after the first write of the rest of a batch.
LEMMA SufijoResto ==
  ASSUME NEW s, NEW l \in Seq(Orden), Sufijo(s, l), s # <<>>
  PROVE  /\ Head(s) \in Orden
         /\ Len(s) \in 1 .. Len(l)
         /\ Head(s) = l[Len(l) - Len(s) + 1]
         /\ Len(Tail(s)) = Len(s) - 1
         /\ Sufijo(Tail(s), l)
  <1>1. s \in Seq(Orden) /\ Len(s) \in 1 .. Len(l)
    BY DEF Sufijo
  <1>2. /\ Head(s) \in Orden
        /\ Tail(s) \in Seq(Orden)
        /\ Len(Tail(s)) = Len(s) - 1
        /\ \A i \in 1 .. Len(Tail(s)) : Tail(s)[i] = s[i + 1]
    BY <1>1, HeadTailProperties, Zenon
  <1>3. Head(s) = s[1]
    BY <1>1
  <1>4. ASSUME NEW j \in 1 .. Len(Tail(s))
        PROVE  Tail(s)[j] = l[Len(l) - Len(Tail(s)) + j]
    <2>1. j + 1 \in 1 .. Len(s)
      BY <1>1, <1>2
    <2>2. s[j + 1] = l[Len(l) - Len(s) + (j + 1)]
      BY <2>1 DEF Sufijo
    <2>3. Len(l) - Len(s) + (j + 1) = Len(l) - Len(Tail(s)) + j
      BY <1>1, <1>2
    <2>4. QED
      BY <1>2, <2>2, <2>3
  <1>5. QED
    BY <1>1, <1>2, <1>3, <1>4 DEF Sufijo

\* A task is given a batch.
LEMMA LoteTipo ==
  ASSUME Tipo, NEW w \in Escritores, NEW lote \in Seq(Orden), Len(lote) <= 6, Empieza(w, lote)
  PROVE  /\ escribe' \in [Escritores -> Seq(Orden)]
         /\ \A v \in Escritores : Len(escribe'[v]) <= 6
         /\ escribe'[w] = lote
         /\ \A v \in Escritores : v # w => escribe'[v] = escribe[v]
  BY DEF Tipo, TypeOK, Empieza

LEMMA Inicial == Init => Invariante
  <1> SUFFICES ASSUME Init
               PROVE  Invariante
    OBVIOUS
  <1>1. /\ nvs \in Nvs /\ cfg \in Config
        /\ nvs.ssid = Nada /\ nvs.provisioned = FALSE /\ nvs.pass = Nada
    BY BootAssumption DEF Init, Nvs, Config, Vacio
  <1>2. \A w \in Escritores : escribe[w] = <<>>
    BY DEF Init
  <1>3. Tipo
    <2>1. escribe \in [Escritores -> Seq(Orden)] /\ \A w \in Escritores : Len(escribe[w]) <= 6
      BY <1>2 DEF Init
    <2>2. imagen \in [Ranuras -> Imagen] /\ sel \in Ranuras /\ run \in Ranuras
      BY DEF Init, Imagen, Ranuras
    <2>3. cortes \in 0 .. MaxCortes /\ fallos \in 0 .. MaxFallos
      BY BootAssumption DEF Init
    <2>4. QED
      BY <1>1, <2>1, <2>2, <2>3 DEF Init, Tipo, TypeOK
  <1>4. Escrituras
    BY <1>1, <1>2 DEF Init, Escrituras, Fases, DeMain, DeHttp, DeBoton, Formulario, Borrados,
       Probando, Marcando, CredencialesProbadas, Escritores
  <1>5. Recogida /\ Arranques
    BY <1>1 DEF Init, Recogida, Arranques, Descargando, Ranuras
  <1>6. QED
    BY <1>3, <1>4, <1>5 DEF Invariante

(***************************************************************************)
(* Restarts                                                                *)
(***************************************************************************)
\* Whatever restarts the device, there is an image to boot.
LEMMA ReinicioArranques ==
  ASSUME Tipo, Arranques, Reinicia
  PROVE  Arranques' /\ imagen' \in [Ranuras -> Imagen] /\ sel' \in Ranuras /\ run' \in Ranuras
         /\ main' = "arranca"
  <1>1. run \in Ranuras /\ sel \in Ranuras /\ imagen \in [Ranuras -> Imagen]
    BY DEF Tipo, TypeOK
  <1>2. Arrancable(Elegida)
    <2>1. CASE imagen[run] = "prueba"
      <3>1. sel = run /\ imagen[Otra(run)] \in {"indef", "valida"}
        BY <2>1 DEF Arranques
      <3>2. Otra(run) \in Ranuras
        BY <1>1 DEF Otra, Ranuras
      <3>3. Arrancable(Otra(run)) /\ ~Arrancable(run)
        BY <1>1, <2>1, <3>1, <3>2 DEF Arrancable, TrasPrueba
      <3>4. QED
        BY <3>1, <3>3 DEF Elegida
    <2>2. CASE imagen[run] # "prueba"
      <3>1. Arrancable(run)
        BY <1>1, <2>2 DEF Arranques, Arrancable, TrasPrueba
      <3>2. run = sel \/ run = Otra(sel)
        BY <1>1 DEF Otra, Ranuras
      <3>3. QED
        BY <3>1, <3>2 DEF Elegida
    <2>3. QED
      BY <2>1, <2>2
  <1>3. Elegida \in Ranuras
    BY <1>1 DEF Elegida, Otra, Ranuras
  <1>4. /\ imagen' = [TrasPrueba EXCEPT ![Elegida] = IF @ = "nueva" THEN "prueba" ELSE @]
        /\ sel' = Elegida /\ run' = Elegida /\ main' = "arranca"
    BY <1>2 DEF Reinicia
  <1>5. imagen' \in [Ranuras -> Imagen]
    BY <1>1, <1>3, <1>4 DEF TrasPrueba, Imagen
  <1>6. imagen'[run'] \in {"indef", "prueba", "valida"}
    BY <1>1, <1>2, <1>3, <1>4 DEF Arrancable, TrasPrueba
  <1>7. imagen'[run'] = "prueba" => imagen'[Otra(run')] \in {"indef", "valida"}
    <2> SUFFICES ASSUME imagen'[Elegida] = "prueba"
                 PROVE  imagen'[Otra(Elegida)] \in {"indef", "valida"}
      BY <1>4
    <2>1. imagen[Elegida] \in {"nueva", "prueba"}
      BY <1>1, <1>3, <1>4 DEF TrasPrueba
    <2>2. imagen[Elegida] = "nueva"
      BY <1>1, <1>2, <1>3, <2>1 DEF Arrancable, TrasPrueba
    <2>3. Elegida # run
      BY <2>2 DEF Arranques
    <2>4. run = Otra(Elegida)
      BY <1>1, <1>3, <2>3 DEF Otra, Ranuras
    <2>5. Otra(run) = Elegida
      BY <1>1, <1>3, <2>4 DEF Otra, Ranuras
    <2>6. imagen[run] \in {"indef", "valida"}
      BY <2>2, <2>5 DEF Arranques
    <2>7. imagen'[run] = imagen[run]
      BY <1>1, <1>3, <1>4, <2>3, <2>6 DEF TrasPrueba
    <2>8. QED
      BY <2>4, <2>6, <2>7
  <1>8. \A d \in Descargas : ota'[d] = "no"
    BY DEF Reinicia, Memoria
  <1>9. QED
    BY <1>3, <1>4, <1>5, <1>6, <1>7, <1>8 DEF Arranques, Descargando

LEMMA ReinicioInvariante ==
  ASSUME Invariante, Reinicia, fallos' = fallos, cortes' \in 0 .. MaxCortes
  PROVE  Invariante'
  <1>1. Arranques' /\ imagen' \in [Ranuras -> Imagen] /\ sel' \in Ranuras /\ run' \in Ranuras
        /\ main' = "arranca"
    BY ReinicioArranques DEF Invariante
  <1>2. /\ nvs' = nvs /\ cfg' = Vacio /\ http' = "libre" /\ guardado' = FALSE /\ boton' = "no"
        /\ escribe' = [w \in Escritores |-> <<>>]
        /\ a_prueba' = FALSE /\ en_curso' = FALSE /\ ota' = [d \in Descargas |-> "no"]
    BY DEF Reinicia, Memoria
  <1>3. Tipo'
    <2>1. escribe' \in [Escritores -> Seq(Orden)] /\ \A w \in Escritores : Len(escribe'[w]) <= 6
      BY <1>2
    <2>2. cfg' \in Config
      BY <1>2 DEF Vacio, Config
    <2>3. QED
      BY <1>1, <1>2, <2>1, <2>2 DEF Invariante, Tipo, TypeOK
  <1>4. Escrituras'
    BY <1>1, <1>2 DEF Invariante, Escrituras, Fases, DeMain, DeHttp, DeBoton, Formulario,
       Borrados, Probando, Marcando, CredencialesProbadas, Escritores
  <1>5. Recogida'
    BY <1>2 DEF Recogida
  <1>6. QED
    BY <1>1, <1>3, <1>4, <1>5 DEF Invariante

(***************************************************************************)
(* One write                                                               *)
(***************************************************************************)
\* The write e is done, and of the credentials nothing else has changed.
Hecho(e) ==
  /\ IF e.k = "provisioned" THEN nvs'.provisioned = e.v ELSE nvs'.provisioned = nvs.provisioned
  /\ IF e.k = "ssid" THEN nvs'.ssid = e.v ELSE nvs'.ssid = nvs.ssid
  /\ IF e.k = "pass" THEN nvs'.pass = e.v ELSE nvs'.pass = nvs.pass

LEMMA EscribeUna ==
  ASSUME Tipo, NEW w \in Escritores, Escribe(w), NEW lote \in Seq(Orden), Len(lote) <= 6,
         Sufijo(escribe[w], lote)
  PROVE  /\ Tipo'
         /\ Sufijo(escribe'[w], lote)
         /\ Len(escribe[w]) \in 1 .. Len(lote)
         /\ Len(escribe'[w]) = Len(escribe[w]) - 1
         /\ Head(escribe[w]) = lote[Len(lote) - Len(escribe[w]) + 1]
         /\ Hecho(Head(escribe[w]))
         /\ \A v \in Escritores : v # w => escribe'[v] = escribe[v]
  <1> DEFINE e == Head(escribe[w])
  <1>1. escribe[w] # <<>> /\ Empieza(w, Tail(escribe[w]))
    BY DEF Escribe
  <1>2. /\ e \in Orden
        /\ Len(escribe[w]) \in 1 .. Len(lote)
        /\ e = lote[Len(lote) - Len(escribe[w]) + 1]
        /\ Len(Tail(escribe[w])) = Len(escribe[w]) - 1
        /\ Sufijo(Tail(escribe[w]), lote)
    BY <1>1, SufijoResto
  <1>3. Tail(escribe[w]) \in Seq(Orden) /\ Len(Tail(escribe[w])) <= 6
    <2>1. Tail(escribe[w]) \in Seq(Orden)
      BY <1>2 DEF Sufijo
    <2>2. Len(lote) \in Nat
      OBVIOUS
    <2>3. QED
      BY <1>2, <2>1, <2>2
  <1>4. /\ escribe' \in [Escritores -> Seq(Orden)]
        /\ \A v \in Escritores : Len(escribe'[v]) <= 6
        /\ escribe'[w] = Tail(escribe[w])
        /\ \A v \in Escritores : v # w => escribe'[v] = escribe[v]
    BY <1>1, <1>3, LoteTipo
  <1>5. nvs \in Nvs /\ nvs' = IF e.k \in Claves THEN [nvs EXCEPT ![e.k] = e.v] ELSE nvs
    BY DEF Escribe, Tipo, TypeOK
  <1> HIDE DEF e
  <1>6. nvs' \in Nvs /\ Hecho(e)
    BY <1>2, <1>5 DEF Hecho, Orden, Nvs, Claves
  <1>7. Tipo'
    BY <1>4, <1>6 DEF Escribe, Tipo, TypeOK, firmware
  <1>8. QED
    BY <1>2, <1>4, <1>6, <1>7 DEF e

\* A task with nothing to write, or with a batch of its own.
LEMMA QuienEscribe ==
  ASSUME Invariante, NEW w \in Escritores, escribe[w] # <<>>
  PROVE  \/ w = "main" /\ main = "borra"
         \/ w = "main" /\ main = "marca"
         \/ w = "http" /\ http = "save"
         \/ w = "http" /\ http = "admin"
         \/ w = "http" /\ http = "upstreams"
         \/ w = "boton" /\ boton = "borra"
  BY DEF Invariante, Tipo, TypeOK, Escrituras, Fases, DeMain, DeHttp, DeBoton, Escritores

\* One write of a factory reset.
LEMMA Borra1 ==
  ASSUME Tipo, NEW w \in Escritores, Escribe(w), Sufijo(escribe[w], config_clear_wifi),
         Borrado6(Len(escribe[w])), CredencialesProbadas
  PROVE  /\ Tipo' /\ CredencialesProbadas'
         /\ Sufijo(escribe'[w], config_clear_wifi)
         /\ Borrado6(Len(escribe[w]))'
         /\ \A v \in Escritores : v # w => escribe'[v] = escribe[v]
  <1> DEFINE n == Len(escribe[w])
             e == Head(escribe[w])
             l == config_clear_wifi
  <1>1. l \in Seq(Orden) /\ Len(l) = 6
    BY ClearWifiOrdenes
  <1>2. /\ l[1] = [k |-> "provisioned", v |-> FALSE]
        /\ l[2] = [k |-> "ssid", v |-> Nada]
        /\ \A i \in 3 .. 6 : l[i].k \notin {"ssid", "provisioned"}
    BY ClearWifiOrdenes
  <1>3. Sufijo(escribe[w], l) /\ Len(l) <= 6
    BY <1>1
  <1> HIDE DEF l
  <1>4. /\ Tipo' /\ Sufijo(escribe'[w], l)
        /\ Len(escribe[w]) \in 1 .. Len(l)
        /\ Len(escribe'[w]) = Len(escribe[w]) - 1
        /\ Head(escribe[w]) = l[Len(l) - Len(escribe[w]) + 1]
        /\ Hecho(Head(escribe[w]))
        /\ \A v \in Escritores : v # w => escribe'[v] = escribe[v]
    BY <1>1, <1>3, EscribeUna
  <1>5. Borrado6(n) /\ CredencialesProbadas
    OBVIOUS
  <1>6. fallos' = fallos /\ fallos \in Nat
    <2>1. fallos \in 0 .. MaxFallos /\ MaxFallos \in Nat
      BY BootAssumption DEF Tipo, TypeOK
    <2>2. fallos' = fallos
      BY DEF Escribe
    <2>3. QED
      BY <2>1, <2>2
  <1>7. n \in 1 .. 6 /\ Len(escribe'[w]) = n - 1 /\ e = l[6 - n + 1] /\ Hecho(e)
    BY <1>1, <1>4
  <1> HIDE DEF n, e
  <1>8. \/ nvs'.provisioned = FALSE
        \/ n < 6 /\ nvs'.provisioned = nvs.provisioned /\ nvs'.ssid = Nada
        \/ n < 5 /\ nvs'.provisioned = nvs.provisioned /\ nvs'.ssid = nvs.ssid
    <2>1. CASE n = 6
      <3>1. e.k = "provisioned" /\ e.v = FALSE
        BY <1>2, <1>7, <2>1
      <3>2. QED
        BY <1>7, <3>1, Zenon DEF Hecho
    <2>2. CASE n = 5
      <3>1. e = [k |-> "ssid", v |-> Nada]
        BY <1>2, <1>7, <2>2
      <3>2. QED
        BY <1>7, <2>2, <3>1 DEF Hecho
    <2>3. CASE n \in 1 .. 4
      <3>1. e.k \notin {"ssid", "provisioned"}
        BY <1>2, <1>7, <2>3
      <3>2. n < 5 /\ e.k # "ssid" /\ e.k # "provisioned"
        BY <2>3, <3>1
      <3>3. QED
        BY <1>7, <3>2, Zenon DEF Hecho
    <2>4. n = 6 \/ n = 5 \/ n \in 1 .. 4
      BY <1>7
    <2>5. QED
      BY <2>1, <2>2, <2>3, <2>4, Zenon
  <1>9. Borrado6(Len(escribe[w]))' /\ CredencialesProbadas'
    BY <1>5, <1>6, <1>7, <1>8 DEF Borrado6, CredencialesProbadas
  <1>10. QED
    BY <1>4, <1>9 DEF l

\* Nobody but the update touches the slots.
LEMMA ArranquesIgual ==
  ASSUME Arranques, UNCHANGED <<imagen, sel, run, en_curso, ota>>, main' # "sin imagen"
  PROVE  Arranques'
  BY DEF Arranques, Descargando

LEMMA EscribeBorrando ==
  ASSUME Invariante, NEW w \in {"main", "boton"}, Escribe(w),
         \/ w = "main" /\ main = "borra"
         \/ w = "boton" /\ boton = "borra"
  PROVE  Invariante'
  <1>1. /\ w \in Escritores /\ Tipo /\ CredencialesProbadas
        /\ Sufijo(escribe[w], config_clear_wifi)
        /\ Borrado6(Len(escribe[w]))
    BY DEF Invariante, Escrituras, Fases, DeMain, DeBoton, Borrados, Escritores
  <1>2. /\ Tipo' /\ CredencialesProbadas'
        /\ Sufijo(escribe'[w], config_clear_wifi)
        /\ Borrado6(Len(escribe[w]))'
        /\ \A v \in Escritores : v # w => escribe'[v] = escribe[v]
    BY <1>1, Borra1
  <1>3. UNCHANGED <<imagen, sel, run, en_curso, ota, main, cfg, http, guardado, boton, cortes, fallos>>
    BY DEF Escribe, firmware
  <1>4. /\ main \in {"arranca", "pulsador", "borra", "conecta", "marca", "portal", "servicios",
                     "web", "corre", "sin imagen"}
        /\ http \in {"libre", "save", "admin", "upstreams", "reinicia"}
        /\ boton \in {"no", "borra"}
    BY <1>1 DEF Tipo, TypeOK
  <1>5. CASE w = "main" /\ main = "borra"
    <2>1. boton = "no" /\ http = "libre" /\ ~guardado
      BY <1>4, <1>5 DEF Invariante, Escrituras, Fases, DeHttp, DeBoton, HayWeb, Recogida
    <2>2. Fases' /\ Formulario' /\ Borrados'
      BY <1>2, <1>3, <1>5, <2>1 DEF Invariante, Escrituras, Fases, DeMain, DeHttp, DeBoton,
         Formulario, Borrados, Escritores
    <2>3. Probando' /\ Marcando' /\ Recogida'
      BY <1>3, <1>5, <2>1 DEF Probando, Marcando, Recogida
    <2>4. Arranques'
      BY <1>3, <1>5, ArranquesIgual DEF Invariante
    <2>5. QED
      BY <1>2, <2>2, <2>3, <2>4 DEF Invariante, Escrituras
  <1>6. CASE w = "boton" /\ boton = "borra"
    <2>1. main \in {"web", "corre"} /\ ~guardado /\ http # "save"
      BY <1>4, <1>6 DEF Invariante, Escrituras, Fases, DeHttp, DeBoton, HayWeb, Recogida
    <2>2. Fases' /\ Formulario' /\ Borrados'
      BY <1>2, <1>3, <1>6, <2>1 DEF Invariante, Escrituras, Fases, DeMain, DeHttp, DeBoton,
         Formulario, Borrados, Escritores, HayWeb
    <2>3. Probando' /\ Marcando' /\ Recogida'
      BY <1>3, <2>1 DEF Probando, Marcando, Recogida
    <2>4. Arranques'
      BY <1>3, <2>1, ArranquesIgual DEF Invariante
    <2>5. QED
      BY <1>2, <2>2, <2>3, <2>4 DEF Invariante, Escrituras
  <1>7. QED
    BY <1>5, <1>6

\* A batch that has nothing of the key k leaves it alone.
LEMMA EscribeAparte ==
  ASSUME Tipo, NEW w \in Escritores, Escribe(w), NEW l \in Seq(Orden), Len(l) <= 6,
         Sufijo(escribe[w], l), \A i \in 1 .. Len(l) : l[i].k \notin {"ssid", "pass"}
  PROVE  /\ Tipo' /\ Sufijo(escribe'[w], l)
         /\ nvs'.ssid = nvs.ssid /\ nvs'.pass = nvs.pass
         /\ (\A i \in 1 .. Len(l) : l[i].k # "provisioned") => nvs'.provisioned = nvs.provisioned
         /\ \A v \in Escritores : v # w => escribe'[v] = escribe[v]
  <1> DEFINE e == Head(escribe[w])
  <1>1. /\ Tipo' /\ Sufijo(escribe'[w], l)
        /\ Len(escribe[w]) \in 1 .. Len(l)
        /\ e = l[Len(l) - Len(escribe[w]) + 1]
        /\ Hecho(e)
        /\ \A v \in Escritores : v # w => escribe'[v] = escribe[v]
    BY EscribeUna
  <1>2. PICK i \in 1 .. Len(l) : e = l[i]
    <2>1. Len(l) \in Nat
      OBVIOUS
    <2>2. Len(l) - Len(escribe[w]) + 1 \in 1 .. Len(l)
      BY <1>1, <2>1
    <2>3. QED
      BY <1>1, <2>2
  <1> HIDE DEF e
  <1>3. nvs'.ssid = nvs.ssid /\ nvs'.pass = nvs.pass
    <2>1. e.k # "ssid" /\ e.k # "pass"
      BY <1>2
    <2>2. QED
      BY <1>1, <2>1, Zenon DEF Hecho
  <1>4. ASSUME \A j \in 1 .. Len(l) : l[j].k # "provisioned"
        PROVE  nvs'.provisioned = nvs.provisioned
    <2>1. e.k # "provisioned"
      BY <1>2, <1>4
    <2>2. QED
      BY <1>1, <2>1, Zenon DEF Hecho
  <1>5. QED
    BY <1>1, <1>3, <1>4

LEMMA EscribeMarcando ==
  ASSUME Invariante, NEW w \in {"main"}, Escribe(w), main = "marca"
  PROVE  Invariante'
  <1> DEFINE l == config_mark_provisioned
  <1>1. l \in Seq(Orden) /\ Len(l) = 2 /\ \A i \in 1 .. 2 : l[i].k \notin {"ssid", "pass"}
    BY MarkOrdenes
  <1>2. w \in Escritores /\ Tipo /\ Sufijo(escribe[w], l)
    BY DEF Invariante, Escrituras, Fases, DeMain, Escritores
  <1> HIDE DEF l
  <1>3. Len(l) <= 6 /\ \A i \in 1 .. Len(l) : l[i].k \notin {"ssid", "pass"}
    BY <1>1
  <1>4. /\ Tipo' /\ Sufijo(escribe'[w], l)
        /\ nvs'.ssid = nvs.ssid /\ nvs'.pass = nvs.pass
        /\ \A v \in Escritores : v # w => escribe'[v] = escribe[v]
    BY <1>1, <1>2, <1>3, EscribeAparte
  <1>6. UNCHANGED <<imagen, sel, run, en_curso, ota, main, cfg, http, guardado, boton, cortes, fallos>>
    BY DEF Escribe, firmware
  <1>7. /\ http \in {"libre", "save", "admin", "upstreams", "reinicia"}
        /\ boton \in {"no", "borra"}
    BY <1>2 DEF Tipo, TypeOK
  <1>8. boton = "no" /\ http = "libre" /\ ~guardado
    BY <1>7 DEF Invariante, Escrituras, Fases, DeHttp, DeBoton, HayWeb, Recogida
  <1>9. Fases' /\ Formulario' /\ Borrados'
    BY <1>4, <1>6, <1>8 DEF Invariante, Escrituras, Fases, DeMain, DeHttp, DeBoton,
       Formulario, Borrados, Escritores, l
  <1>10. Probando' /\ Marcando' /\ Recogida' /\ CredencialesProbadas'
    BY <1>4, <1>6, <1>8 DEF Invariante, Escrituras, Probando, Marcando, Recogida,
       CredencialesProbadas
  <1>11. Arranques'
    BY <1>6, ArranquesIgual DEF Invariante
  <1>12. QED
    BY <1>4, <1>9, <1>10, <1>11 DEF Invariante, Escrituras

LEMMA EscribeAparteHttp ==
  ASSUME Invariante, NEW w \in {"http"}, Escribe(w), http \in {"admin", "upstreams"}
  PROVE  Invariante'
  <1>1. w \in Escritores /\ Tipo /\ HayWeb
    BY DEF Invariante, Escrituras, Fases, DeHttp, Escritores
  <1>2. PICK l \in {config_set_admin, config_save} :
          /\ Sufijo(escribe[w], l)
          /\ http = "admin" => l = config_set_admin
          /\ http = "upstreams" => l = config_save
    BY DEF Invariante, Escrituras, Fases, DeHttp
  <1>3. /\ l \in Seq(Orden) /\ Len(l) <= 6
        /\ \A i \in 1 .. Len(l) : l[i].k \notin {"ssid", "pass"}
        /\ \A i \in 1 .. Len(l) : l[i].k # "provisioned"
    <2>1. CASE l = config_set_admin
      BY <2>1, AdminOrdenes
    <2>2. CASE l = config_save
      BY <2>2, SaveOrdenes
    <2>3. QED
      BY <1>2, <2>1, <2>2
  <1>4. /\ Tipo' /\ Sufijo(escribe'[w], l)
        /\ nvs'.ssid = nvs.ssid /\ nvs'.pass = nvs.pass /\ nvs'.provisioned = nvs.provisioned
        /\ \A v \in Escritores : v # w => escribe'[v] = escribe[v]
    BY <1>1, <1>2, <1>3, EscribeAparte
  <1>5. UNCHANGED <<imagen, sel, run, en_curso, ota, main, cfg, http, guardado, boton, cortes, fallos>>
    BY DEF Escribe, firmware
  <1>6. main \in {"web", "corre"}
    BY <1>1 DEF HayWeb
  <1>7. ~guardado
    BY <1>6 DEF Invariante, Recogida
  <1>8. Fases' /\ Formulario'
    BY <1>2, <1>4, <1>5, <1>6 DEF Invariante, Escrituras, Fases, DeMain, DeHttp, DeBoton,
       Formulario, Escritores, HayWeb
  <1>9. Borrados'
    BY <1>4, <1>5, <1>6 DEF Invariante, Escrituras, Borrados, Borrado6, Escritores
  <1>10. Probando' /\ Marcando' /\ Recogida' /\ CredencialesProbadas'
    BY <1>4, <1>5, <1>6, <1>7 DEF Invariante, Escrituras, Probando, Marcando, Recogida,
       CredencialesProbadas
  <1>11. Arranques'
    BY <1>5, <1>6, ArranquesIgual DEF Invariante
  <1>12. QED
    BY <1>4, <1>8, <1>9, <1>10, <1>11 DEF Invariante, Escrituras

LEMMA EscribeGuardando ==
  ASSUME Invariante, NEW w \in {"http"}, Escribe(w), http = "save"
  PROVE  Invariante'
  <1>1. w \in Escritores /\ Tipo /\ main = "portal"
    BY DEF Invariante, Escrituras, Fases, DeHttp, Escritores
  <1>2. PICK red \in Redes : \E pass \in {red, Mala} :
          /\ Sufijo(escribe["http"], config_save_wifi(red, pass))
          /\ Guardando(red, pass, Len(escribe["http"]))
    BY DEF Invariante, Escrituras, Formulario
  <1>3. PICK pass \in {red, Mala} :
          /\ Sufijo(escribe[w], config_save_wifi(red, pass))
          /\ Guardando(red, pass, Len(escribe[w]))
    BY <1>2
  <1> DEFINE l == config_save_wifi(red, pass)
             n == Len(escribe[w])
             e == Head(escribe[w])
  <1>4. /\ l \in Seq(Orden) /\ Len(l) = 4
        /\ l[1] = [k |-> "provisioned", v |-> FALSE]
        /\ l[2] = [k |-> "ssid", v |-> red]
        /\ l[3] = [k |-> "pass", v |-> pass]
        /\ l[4] = [k |-> "commit", v |-> TRUE]
    BY WifiOrdenes
  <1>5. Sufijo(escribe[w], l) /\ Guardando(red, pass, n)
    BY <1>3
  <1> HIDE DEF l
  <1>6. Len(l) <= 6
    BY <1>4
  <1>7. /\ Tipo' /\ Sufijo(escribe'[w], l)
        /\ Len(escribe[w]) \in 1 .. Len(l)
        /\ Len(escribe'[w]) = Len(escribe[w]) - 1
        /\ Head(escribe[w]) = l[Len(l) - Len(escribe[w]) + 1]
        /\ Hecho(Head(escribe[w]))
        /\ \A v \in Escritores : v # w => escribe'[v] = escribe[v]
    BY <1>1, <1>4, <1>5, <1>6, EscribeUna
  <1>8. n \in 1 .. 4 /\ Len(escribe'[w]) = n - 1 /\ e = l[4 - n + 1] /\ Hecho(e)
    BY <1>4, <1>7
  <1> HIDE DEF n, e
  <1>9. /\ ~nvs'.provisioned
        /\ n < 4 => nvs'.ssid = red
        /\ n < 3 => nvs'.pass = pass
    <2>1. CASE n = 4
      <3>1. e.k = "provisioned" /\ e.v = FALSE
        BY <1>4, <1>8, <2>1
      <3>2. nvs'.provisioned = FALSE
        BY <1>8, <3>1, Zenon DEF Hecho
      <3>3. QED
        BY <2>1, <3>2
    <2>2. CASE n = 3
      <3>1. e.k = "ssid" /\ e.v = red
        BY <1>4, <1>8, <2>2
      <3>2. nvs'.ssid = red /\ nvs'.provisioned = nvs.provisioned
        BY <1>8, <3>1, Zenon DEF Hecho
      <3>3. QED
        BY <1>5, <2>2, <3>2 DEF Guardando
    <2>3. CASE n = 2
      <3>1. e.k = "pass" /\ e.v = pass
        BY <1>4, <1>8, <2>3
      <3>2. /\ nvs'.pass = pass /\ nvs'.ssid = nvs.ssid
            /\ nvs'.provisioned = nvs.provisioned
        BY <1>8, <3>1, Zenon DEF Hecho
      <3>3. QED
        BY <1>5, <2>3, <3>2 DEF Guardando
    <2>4. CASE n = 1
      <3>1. e.k = "commit"
        BY <1>4, <1>8, <2>4
      <3>2. e.k \notin {"ssid", "pass", "provisioned"}
        BY <3>1
      <3>3. /\ nvs'.pass = nvs.pass /\ nvs'.ssid = nvs.ssid
            /\ nvs'.provisioned = nvs.provisioned
        BY <1>8, <3>2, Zenon DEF Hecho
      <3>4. QED
        BY <1>5, <2>4, <3>3 DEF Guardando
    <2>5. n = 4 \/ n = 3 \/ n = 2 \/ n = 1
      BY <1>8
    <2>6. QED
      BY <2>1, <2>2, <2>3, <2>4, <2>5, Zenon
  <1>10. UNCHANGED <<imagen, sel, run, en_curso, ota, main, cfg, http, guardado, boton, cortes, fallos>>
    BY DEF Escribe, firmware
  <1>11. Guardando(red, pass, Len(escribe[w]))'
    <2>1. n \in 1 .. 4 /\ Len(escribe'[w]) = n - 1
      BY <1>8
    <2>2. QED
      BY <1>9, <2>1 DEF Guardando
  <1>12. boton = "no"
    BY <1>1 DEF Invariante, Escrituras, Fases, DeBoton, HayWeb, Tipo, TypeOK
  <1>13. Formulario'
    <2>1. Sufijo(escribe["http"], config_save_wifi(red, pass))'
      BY <1>7 DEF l
    <2>2. QED
      BY <1>11, <2>1 DEF Formulario
  <1>14. Fases' /\ Borrados'
    BY <1>1, <1>7, <1>10, <1>12 DEF Invariante, Escrituras, Fases, DeMain, DeHttp, DeBoton,
       Borrados, Escritores, HayWeb
  <1>15. Probando' /\ Marcando' /\ Recogida' /\ CredencialesProbadas'
    BY <1>1, <1>9, <1>10 DEF Invariante, Probando, Marcando, Recogida, CredencialesProbadas
  <1>16. Arranques'
    BY <1>1, <1>10, ArranquesIgual DEF Invariante
  <1>17. QED
    BY <1>7, <1>13, <1>14, <1>15, <1>16 DEF Invariante, Escrituras

LEMMA EscribeInvariante ==
  ASSUME Invariante, NEW w \in Escritores, Escribe(w)
  PROVE  Invariante'
  <1>1. escribe[w] # <<>>
    BY DEF Escribe
  <1>2. \/ w = "main" /\ main = "borra"
        \/ w = "main" /\ main = "marca"
        \/ w = "http" /\ http = "save"
        \/ w = "http" /\ http \in {"admin", "upstreams"}
        \/ w = "boton" /\ boton = "borra"
    BY <1>1, QuienEscribe
  <1>3. ASSUME \/ w = "main" /\ main = "borra"
               \/ w = "boton" /\ boton = "borra"
        PROVE  Invariante'
    <2>1. w \in {"main", "boton"}
      BY <1>3
    <2>2. QED
      BY <1>3, <2>1, EscribeBorrando
  <1>4. CASE w = "main" /\ main = "marca"
    BY <1>4, EscribeMarcando
  <1>5. CASE w = "http" /\ http = "save"
    <2>1. w \in {"http"}
      BY <1>5
    <2>2. QED
      BY <1>5, <2>1, EscribeGuardando
  <1>6. CASE w = "http" /\ http \in {"admin", "upstreams"}
    <2>1. w \in {"http"}
      BY <1>6
    <2>2. QED
      BY <1>6, <2>1, EscribeAparteHttp
  <1>7. QED
    BY <1>2, <1>3, <1>4, <1>5, <1>6

\* A write that fails: the batch is given up, but a factory reset goes on and
\* owes one key more.
LEMMA FallaInvariante ==
  ASSUME Invariante, NEW w \in Escritores, EscribeFalla(w)
  PROVE  Invariante'
  <1> DEFINE s == IF Borrando(w) THEN Tail(escribe[w]) ELSE <<>>
  <1>1. /\ Tipo /\ escribe[w] # <<>> /\ Empieza(w, s)
        /\ fallos < MaxFallos /\ fallos' = fallos + 1
        /\ http' = IF w = "http" THEN "libre" ELSE http
        /\ UNCHANGED <<nvs, imagen, sel, run, a_prueba, en_curso, ota, main, cfg, guardado, boton, cortes>>
    BY DEF EscribeFalla, Invariante, firmware
  <1>2. \/ w = "main" /\ main = "borra"
        \/ w = "main" /\ main = "marca"
        \/ w = "http" /\ http = "save"
        \/ w = "http" /\ http = "admin"
        \/ w = "http" /\ http = "upstreams"
        \/ w = "boton" /\ boton = "borra"
    BY <1>1, QuienEscribe
  <1>3. fallos \in Nat /\ MaxFallos \in Nat
    <2>1. fallos \in 0 .. MaxFallos /\ MaxFallos \in Nat
      BY <1>1, BootAssumption DEF Tipo, TypeOK
    <2>2. QED
      BY <2>1
  <1>4. ASSUME Borrando(w)
        PROVE  /\ Sufijo(s, config_clear_wifi)
               /\ Len(s) <= 6
               /\ Len(s) = Len(escribe[w]) - 1
               /\ Len(escribe[w]) \in 1 .. 6
               /\ Borrado6(Len(escribe[w]))
    <2>1. \/ w = "main" /\ main = "borra"
          \/ w = "boton" /\ boton = "borra"
      BY <1>2, <1>4 DEF Borrando
    <2>2. Sufijo(escribe[w], config_clear_wifi) /\ Borrado6(Len(escribe[w]))
      BY <2>1 DEF Invariante, Escrituras, Fases, DeMain, DeBoton, Borrados
    <2>3. config_clear_wifi \in Seq(Orden) /\ Len(config_clear_wifi) = 6
      BY ClearWifiOrdenes
    <2>4. /\ Len(escribe[w]) \in 1 .. Len(config_clear_wifi)
          /\ Len(Tail(escribe[w])) = Len(escribe[w]) - 1
          /\ Sufijo(Tail(escribe[w]), config_clear_wifi)
      BY <1>1, <2>2, <2>3, SufijoResto
    <2>5. s = Tail(escribe[w])
      BY <1>4
    <2>6. Len(escribe[w]) \in 1 .. 6 /\ Len(escribe[w]) - 1 <= 6
      <3>1. Len(escribe[w]) \in 1 .. 6
        BY <2>3, <2>4, Zenon
      <3>2. \A m \in 1 .. 6 : m - 1 <= 6
        OBVIOUS
      <3>3. QED
        BY <3>1, <3>2, Zenon
    <2> HIDE DEF s
    <2>7. Len(s) = Len(escribe[w]) - 1 /\ Sufijo(s, config_clear_wifi)
      BY <2>4, <2>5, Zenon
    <2>8. Len(s) <= 6
      BY <2>6, <2>7, Zenon
    <2>9. QED
      BY <2>2, <2>6, <2>7, <2>8, Zenon
  <1>5. s \in Seq(Orden) /\ Len(s) <= 6
    <2>1. CASE Borrando(w)
      <3>1. s \in Seq(Orden)
        BY <1>4, <2>1 DEF Sufijo
      <3>2. QED
        BY <1>4, <2>1, <3>1
    <2>2. CASE ~Borrando(w)
      BY <2>2
    <2>3. QED
      BY <2>1, <2>2
  <1> HIDE DEF s
  <1>6. /\ escribe' \in [Escritores -> Seq(Orden)]
        /\ \A v \in Escritores : Len(escribe'[v]) <= 6
        /\ escribe'[w] = s
        /\ \A v \in Escritores : v # w => escribe'[v] = escribe[v]
    BY <1>1, <1>5, LoteTipo
  <1>7. Tipo'
    <2>1. fallos' \in 0 .. MaxFallos
      BY <1>1, <1>3
    <2>2. http' \in {"libre", "save", "admin", "upstreams", "reinicia"}
      BY <1>1 DEF Tipo, TypeOK
    <2>3. QED
      BY <1>1, <1>6, <2>1, <2>2 DEF Tipo, TypeOK
  <1>8. ASSUME ~Borrando(w)
        PROVE  s = <<>>
    BY <1>8 DEF s
  <1>9. \A l : l \in Seq(Orden) => Sufijo(<<>>, l)
    BY DEF Sufijo
  <1>10. Arranques'
    BY <1>1, ArranquesIgual DEF Invariante, Arranques
  <1>11. CredencialesProbadas'
    BY <1>1, <1>3 DEF Invariante, Escrituras, CredencialesProbadas
  <1>12. Probando' /\ Marcando' /\ Recogida'
    BY <1>1, <1>3 DEF Invariante, Escrituras, Probando, Marcando, Recogida
  <1>13. boton = "borra" => main \in {"web", "corre"} /\ http # "save"
    BY DEF Invariante, Escrituras, Fases, DeBoton, DeHttp, HayWeb
  <1>14. Formulario'
    BY <1>1, <1>2, <1>6, <1>13 DEF Invariante, Escrituras, Formulario, Guardando, Fases, DeHttp,
       HayWeb, Escritores
  <1>15. Fases' /\ Borrados'
    <2>1. CASE Borrando(w)
      <3>1. \/ w = "main" /\ main = "borra"
            \/ w = "boton" /\ boton = "borra"
        BY <1>2, <2>1 DEF Borrando
      <3>2. Borrado6(Len(escribe[w]))'
        <4>1. /\ Len(escribe'[w]) = Len(escribe[w]) - 1
              /\ Len(escribe[w]) \in 1 .. 6
              /\ Borrado6(Len(escribe[w]))
          BY <1>4, <1>6, <2>1
        <4>2. QED
          BY <1>1, <1>3, <4>1 DEF Borrado6
      <3>3. Sufijo(escribe'[w], config_clear_wifi)
        BY <1>4, <1>6, <2>1
      <3>4. CASE w = "main" /\ main = "borra"
        <4>1. boton # "borra" /\ http = "libre"
          BY <1>13, <3>4 DEF Invariante, Escrituras, Fases, DeHttp, HayWeb, Tipo, TypeOK
        <4>2. QED
          BY <1>1, <1>6, <3>2, <3>3, <3>4, <4>1 DEF Invariante, Escrituras, Fases, DeMain,
             DeHttp, DeBoton, Borrados, Escritores, Tipo, TypeOK
      <3>5. CASE w = "boton" /\ boton = "borra"
        BY <1>1, <1>6, <1>13, <3>2, <3>3, <3>5 DEF Invariante, Escrituras, Fases, DeMain,
           DeHttp, DeBoton, Borrados, Escritores, HayWeb
      <3>6. QED
        BY <3>1, <3>4, <3>5
    <2>2. CASE ~Borrando(w)
      <3>1. \/ w = "main" /\ main = "marca"
            \/ w = "http" /\ http \in {"save", "admin", "upstreams"}
        BY <1>2, <2>2 DEF Borrando
      <3>2. escribe'[w] = <<>>
        BY <1>6, <1>8, <2>2
      <3>3. CASE w = "main" /\ main = "marca"
        <4>1. Sufijo(escribe'["main"], config_mark_provisioned)
          BY <1>9, <3>2, <3>3, MarkOrdenes
        <4>2. QED
          BY <1>1, <1>6, <1>13, <3>3, <4>1 DEF Invariante, Escrituras, Fases, DeMain,
             DeHttp, DeBoton, Borrados, Escritores, HayWeb, Tipo, TypeOK
      <3>4. CASE w = "http" /\ http \in {"save", "admin", "upstreams"}
        <4>1. main \in {"portal", "web", "corre"} /\ http' = "libre"
          BY <1>1, <3>4 DEF Invariante, Escrituras, Fases, DeHttp, HayWeb
        <4>2. Fases'
          BY <1>1, <1>6, <3>2, <3>4, <4>1 DEF Invariante, Escrituras, Fases, DeMain,
             DeHttp, DeBoton, Escritores, HayWeb
        <4>3. Borrados'
          <5>1. boton = "borra" => Borrado6(Len(escribe["boton"]))
            BY DEF Invariante, Escrituras, Borrados
          <5>2. boton = "borra" => Borrado6(Len(escribe["boton"]))'
            BY <1>1, <1>3, <1>6, <3>4, <5>1 DEF Borrado6, Escritores
          <5>3. QED
            BY <1>1, <4>1, <5>2 DEF Borrados
        <4>4. QED
          BY <4>2, <4>3
      <3>5. QED
        BY <3>1, <3>3, <3>4
    <2>3. QED
      BY <2>1, <2>2
  <1>16. QED
    BY <1>7, <1>10, <1>11, <1>12, <1>14, <1>15 DEF Invariante, Escrituras

(***************************************************************************)
(* app_main                                                                *)
(***************************************************************************)
LEMMA CargaTipo ==
  ASSUME nvs \in Nvs
  PROVE  /\ config_load \in Config
         /\ \/ config_load = Vacio
            \/ config_load.ssid = nvs.ssid /\ config_load.pass = nvs.pass
  BY DEF config_load, Nvs, Config, Vacio

\* No task writes to NVS until the services are up, but app_main and the portal.
LEMMA SinServicios ==
  ASSUME Invariante, main \notin {"web", "corre"}
  PROVE  /\ boton = "no"
         /\ http \in {"libre", "save"}
         /\ main # "portal" => http = "libre"
  BY DEF Invariante, Escrituras, Fases, DeHttp, DeBoton, HayWeb, Tipo, TypeOK

\* The steps of app_main that neither write to NVS nor reload what it holds.
LEMMA MainInvariante ==
  ASSUME Invariante, SinPulsar \/ Marcado \/ AgotaEspera \/ ArrancaServicios
  PROVE  Invariante'
  <1>1. /\ UNCHANGED <<nvs, imagen, sel, run, a_prueba, en_curso, ota, cfg, http, boton,
                       escribe, cortes, fallos>>
        /\ main \notin {"web", "corre"} /\ main # "borra"
        /\ main' \in {"portal", "conecta", "servicios", "web"}
        /\ main' = "conecta" => main = "pulsador"
        /\ main = "marca" => escribe["main"] = <<>>
        /\ guardado' = FALSE \/ guardado' = guardado
        /\ guardado' => main' = "portal"
        /\ main # "portal"
    BY DEF SinPulsar, Marcado, AgotaEspera, ArrancaServicios, ConMain, Resto, firmware,
       provision_decide_boot, Invariante, Recogida
  <1>2. boton = "no" /\ http = "libre"
    BY <1>1, SinServicios
  <1>3. Tipo'
    BY <1>1 DEF Invariante, Tipo, TypeOK, Recogida
  <1>4. Fases' /\ Formulario' /\ Borrados'
    BY <1>1, <1>2 DEF Invariante, Escrituras, Fases, DeMain, DeHttp, DeBoton, Formulario,
       Borrados
  <1>5. Probando' /\ Marcando' /\ CredencialesProbadas'
    BY <1>1 DEF Invariante, Escrituras, Probando, Marcando, CredencialesProbadas
  <1>6. Recogida'
    BY <1>1, <1>2 DEF Invariante, Recogida
  <1>7. Arranques'
    BY <1>1, ArranquesIgual DEF Invariante
  <1>8. QED
    BY <1>3, <1>4, <1>5, <1>6, <1>7 DEF Invariante, Escrituras

\* Those that reload it.
LEMMA CargaInvariante ==
  ASSUME Invariante, Arranca \/ Borrado \/ CierraPortal
  PROVE  Invariante'
  <1>1. nvs \in Nvs /\ Tipo
    BY DEF Invariante, Tipo, TypeOK
  <1>2. /\ UNCHANGED <<nvs, imagen, sel, run, en_curso, ota, http, boton, escribe, cortes, fallos>>
        /\ main \notin {"web", "corre"} /\ http = "libre"
        /\ main' \in {"pulsador", "conecta", "portal"}
        /\ escribe["main"] = <<>>
        /\ ~guardado'
    BY SinServicios DEF Arranca, Borrado, CierraPortal, ConMain, Resto, firmware, HttpTermina,
       provision_decide_boot, Invariante, Escrituras, Fases, DeMain, Recogida
  <1>3. a_prueba' \in BOOLEAN /\ guardado' \in BOOLEAN
    BY <1>1 DEF Arranca, Borrado, CierraPortal, ConMain, firmware, DePrueba, Tipo, TypeOK
  <1>4. \/ cfg' = [ssid |-> Kconfig, pass |-> Kconfig, provisioned |-> TRUE] /\ Kconfig # Nada
        \/ cfg' = config_load
    BY DEF Arranca, Borrado, CierraPortal
  <1>5. cfg' \in Config /\ (~cfg'.provisioned /\ cfg'.ssid # Nada =>
                              cfg'.ssid = nvs.ssid /\ cfg'.pass = nvs.pass)
    <2>1. CASE cfg' = [ssid |-> Kconfig, pass |-> Kconfig, provisioned |-> TRUE]
      <3>1. cfg'.provisioned = TRUE
        BY <2>1
      <3>2. cfg' \in Config
        BY <1>4, <2>1, BootAssumption DEF Config
      <3>3. QED
        BY <3>1, <3>2
    <2>2. CASE cfg' = config_load
      <3>1. cfg' \in Config /\ (cfg' = Vacio \/ (cfg'.ssid = nvs.ssid /\ cfg'.pass = nvs.pass))
        BY <1>1, <2>2, CargaTipo
      <3>2. cfg' = Vacio => cfg'.ssid = Nada
        BY DEF Vacio
      <3>3. QED
        BY <3>1, <3>2
    <2>3. QED
      BY <1>4, <2>1, <2>2
  <1>6. boton = "no"
    BY <1>2, SinServicios
  <1>7. Tipo'
    BY <1>1, <1>2, <1>3, <1>5 DEF Tipo, TypeOK
  <1>8. Fases' /\ Formulario' /\ Borrados'
    BY <1>2, <1>6 DEF Invariante, Escrituras, Fases, DeMain, DeHttp, DeBoton, Formulario,
       Borrados
  <1>9. Probando' /\ Marcando' /\ CredencialesProbadas'
    BY <1>2, <1>5 DEF Invariante, Escrituras, Probando, Marcando, CredencialesProbadas
  <1>10. Recogida'
    BY <1>2 DEF Recogida
  <1>11. Arranques'
    BY <1>2, ArranquesIgual DEF Invariante
  <1>12. QED
    BY <1>7, <1>8, <1>9, <1>10, <1>11 DEF Invariante, Escrituras

LEMMA PulsadoInvariante ==
  ASSUME Invariante, Pulsado
  PROVE  Invariante'
  <1> DEFINE l == config_clear_wifi
  <1>1. l \in Seq(Orden) /\ Len(l) = 6
    BY ClearWifiOrdenes
  <1>2. Sufijo(l, l) /\ Len(l) <= 6
    BY <1>1, SufijoPropio
  <1>3. /\ UNCHANGED <<nvs, imagen, sel, run, a_prueba, en_curso, ota, cfg, http, boton,
                       guardado, cortes, fallos>>
        /\ main = "pulsador" /\ main' = "borra" /\ Empieza("main", l)
    BY DEF Pulsado, ConMain, Resto, firmware
  <1> HIDE DEF l
  <1>4. /\ escribe' \in [Escritores -> Seq(Orden)]
        /\ \A v \in Escritores : Len(escribe'[v]) <= 6
        /\ escribe'["main"] = l
        /\ \A v \in Escritores : v # "main" => escribe'[v] = escribe[v]
    <2>1. "main" \in Escritores /\ Tipo
      BY DEF Escritores, Invariante
    <2>2. QED
      BY <1>1, <1>2, <1>3, <2>1, LoteTipo
  <1>5. boton = "no" /\ http = "libre" /\ ~guardado
    BY <1>3, SinServicios DEF Invariante, Recogida
  <1>6. Tipo'
    BY <1>3, <1>4 DEF Invariante, Tipo, TypeOK
  <1>7. Fases' /\ Formulario'
    BY <1>2, <1>3, <1>4, <1>5 DEF Invariante, Escrituras, Fases, DeMain, DeHttp, DeBoton,
       Formulario, Escritores, l
  <1>8. Borrado6(Len(escribe["main"]))'
    <2>1. Len(escribe'["main"]) = 6
      BY <1>1, <1>4, Zenon
    <2>2. QED
      BY <2>1 DEF Borrado6
  <1>9. Borrados' /\ Probando' /\ Marcando' /\ CredencialesProbadas' /\ Recogida'
    BY <1>3, <1>5, <1>8 DEF Invariante, Escrituras, Borrados, Probando, Marcando,
       CredencialesProbadas, Recogida
  <1>10. Arranques'
    BY <1>3, ArranquesIgual DEF Invariante
  <1>11. QED
    BY <1>6, <1>7, <1>9, <1>10 DEF Invariante, Escrituras

LEMMA ConectaInvariante ==
  ASSUME Invariante, Conecta
  PROVE  Invariante'
  <1> DEFINE l == config_mark_provisioned
  <1>1. /\ UNCHANGED <<nvs, imagen, sel, run, a_prueba, en_curso, ota, http, boton, guardado,
                       cortes, fallos>>
        /\ main = "conecta" /\ cfg.ssid # Nada /\ cfg.pass = cfg.ssid
        /\ \/ cfg.provisioned /\ main' = "servicios" /\ UNCHANGED <<cfg, escribe>>
           \/ /\ ~cfg.provisioned /\ main' = "marca" /\ Empieza("main", l)
              /\ cfg' = [cfg EXCEPT !.provisioned = TRUE]
    BY DEF Conecta, ConMain, Resto, firmware
  <1>2. boton = "no" /\ http = "libre" /\ ~guardado
    BY <1>1, SinServicios DEF Invariante, Recogida
  <1>3. l \in Seq(Orden) /\ Len(l) = 2
    BY MarkOrdenes
  <1>4. Sufijo(l, l) /\ Len(l) <= 6
    BY <1>3, SufijoPropio
  <1> HIDE DEF l
  <1>5. CASE cfg.provisioned /\ main' = "servicios" /\ UNCHANGED <<cfg, escribe>>
    <2>1. Tipo'
      BY <1>1, <1>5 DEF Invariante, Tipo, TypeOK
    <2>2. Fases' /\ Formulario' /\ Borrados'
      BY <1>1, <1>2, <1>5 DEF Invariante, Escrituras, Fases, DeMain, DeHttp, DeBoton,
         Formulario, Borrados
    <2>3. Probando' /\ Marcando' /\ CredencialesProbadas' /\ Recogida'
      BY <1>1, <1>2, <1>5 DEF Invariante, Escrituras, Probando, Marcando, CredencialesProbadas,
         Recogida
    <2>4. Arranques'
      BY <1>1, <1>5, ArranquesIgual DEF Invariante
    <2>5. QED
      BY <2>1, <2>2, <2>3, <2>4 DEF Invariante, Escrituras
  <1>6. CASE /\ ~cfg.provisioned /\ main' = "marca" /\ Empieza("main", l)
             /\ cfg' = [cfg EXCEPT !.provisioned = TRUE]
    <2>1. "main" \in Escritores /\ Tipo
      BY DEF Escritores, Invariante
    <2>2. /\ escribe' \in [Escritores -> Seq(Orden)]
          /\ \A v \in Escritores : Len(escribe'[v]) <= 6
          /\ escribe'["main"] = l
          /\ \A v \in Escritores : v # "main" => escribe'[v] = escribe[v]
      BY <1>3, <1>4, <1>6, <2>1, LoteTipo
    <2>3. cfg' \in Config
      BY <1>6, <2>1 DEF Tipo, TypeOK, Config
    <2>4. Tipo'
      BY <1>1, <1>6, <2>1, <2>2, <2>3 DEF Tipo, TypeOK
    <2>5. Fases' /\ Formulario' /\ Borrados'
      BY <1>1, <1>2, <1>4, <1>6, <2>2 DEF Invariante, Escrituras, Fases, DeMain, DeHttp, DeBoton,
         Formulario, Borrados, Escritores, l
    <2>6. Probando' /\ Marcando' /\ CredencialesProbadas' /\ Recogida'
      BY <1>1, <1>2, <1>6 DEF Invariante, Escrituras, Probando, Marcando, CredencialesProbadas,
         Recogida
    <2>7. Arranques'
      BY <1>1, <1>6, ArranquesIgual DEF Invariante
    <2>8. QED
      BY <2>4, <2>5, <2>6, <2>7 DEF Invariante, Escrituras
  <1>7. QED
    BY <1>1, <1>5, <1>6

(***************************************************************************)
(* The HTTP task and the button                                            *)
(***************************************************************************)
LEMMA GuardaInvariante ==
  ASSUME Invariante, NEW n \in Formas, h_save(n)
  PROVE  Invariante'
  <1> DEFINE red == Dice(Forma[n], "ssid")
             pass == Dice(Forma[n], "pass")
             l == config_save_wifi(red, pass)
  <1>1. red \in Redes /\ pass \in {red, Mala}
    BY FormaAssumption DEF h_save
  <1> HIDE DEF red, pass
  <1>2. l \in Seq(Orden) /\ Len(l) = 4
    <2>1. pass \in Redes \cup {Mala}
      BY <1>1
    <2>2. QED
      BY <1>1, <2>1, WifiOrdenes
  <1> HIDE DEF l
  <1>3. Sufijo(l, l) /\ Len(l) <= 6
    BY <1>2, SufijoPropio
  <1>4. /\ UNCHANGED <<nvs, imagen, sel, run, a_prueba, en_curso, ota, main, cfg, boton, guardado,
                       cortes, fallos>>
        /\ main = "portal" /\ http' = "save" /\ Empieza("http", l)
    BY DEF h_save, ConHttp, Resto, firmware, l, red, pass
  <1>5. boton = "no"
    BY <1>4, SinServicios
  <1>6. /\ escribe' \in [Escritores -> Seq(Orden)]
        /\ \A v \in Escritores : Len(escribe'[v]) <= 6
        /\ escribe'["http"] = l
        /\ \A v \in Escritores : v # "http" => escribe'[v] = escribe[v]
    <2>1. "http" \in Escritores /\ Tipo
      BY DEF Escritores, Invariante
    <2>2. QED
      BY <1>2, <1>3, <1>4, <2>1, LoteTipo
  <1>7. Tipo'
    BY <1>4, <1>6 DEF Invariante, Tipo, TypeOK
  <1>8. Formulario'
    <2>1. Len(escribe'["http"]) = 4
      BY <1>2, <1>6, Zenon
    <2>2. Guardando(red, pass, Len(escribe["http"]))'
      BY <2>1 DEF Guardando
    <2>3. Sufijo(escribe["http"], config_save_wifi(red, pass))'
      BY <1>3, <1>6 DEF l
    <2>4. QED
      BY <1>1, <2>2, <2>3 DEF Formulario
  <1>9. Fases' /\ Borrados'
    BY <1>4, <1>5, <1>6 DEF Invariante, Escrituras, Fases, DeMain, DeHttp, DeBoton, Borrados,
       Escritores
  <1>10. Probando' /\ Marcando' /\ CredencialesProbadas' /\ Recogida'
    BY <1>4 DEF Invariante, Escrituras, Probando, Marcando, CredencialesProbadas, Recogida
  <1>11. Arranques'
    BY <1>4, ArranquesIgual DEF Invariante
  <1>12. QED
    BY <1>7, <1>8, <1>9, <1>10, <1>11 DEF Invariante, Escrituras

LEMMA GuardadoInvariante ==
  ASSUME Invariante, Guardado \/ AdminFijado
  PROVE  Invariante'
  <1>1. /\ UNCHANGED <<nvs, imagen, sel, run, a_prueba, en_curso, ota, main, cfg, boton, escribe,
                       cortes, fallos>>
        /\ http \in {"save", "admin"} /\ escribe["http"] = <<>> /\ http' = "libre"
        /\ http = "save" => guardado' = TRUE
        /\ http = "admin" => guardado' = guardado
    BY DEF Guardado, AdminFijado, ConHttp, Resto, firmware
  <1>2. Tipo'
    BY <1>1 DEF Invariante, Tipo, TypeOK
  <1>3. Fases' /\ Formulario' /\ Borrados'
    BY <1>1 DEF Invariante, Escrituras, Fases, DeMain, DeHttp, DeBoton, Formulario, Borrados,
       Borrado6, HayWeb
  <1>4. Probando' /\ Marcando' /\ CredencialesProbadas'
    BY <1>1 DEF Invariante, Escrituras, Probando, Marcando, CredencialesProbadas
  <1>5. Recogida'
    <2>1. CASE http = "save"
      <3>1. PICK red \in Redes : \E pass \in {red, Mala} :
              Guardando(red, pass, Len(escribe["http"]))
        BY <2>1 DEF Invariante, Escrituras, Formulario
      <3>2. PICK pass \in {red, Mala} : Guardando(red, pass, Len(escribe["http"]))
        BY <3>1
      <3>3. Len(escribe["http"]) = 0
        BY <1>1
      <3>4. nvs.ssid = red /\ nvs.pass = pass
        BY <3>2, <3>3 DEF Guardando
      <3>5. main = "portal"
        BY <2>1 DEF Invariante, Escrituras, Fases, DeHttp
      <3>6. QED
        BY <1>1, <3>4, <3>5 DEF Recogida
    <2>2. CASE http = "admin"
      BY <1>1, <2>2 DEF Invariante, Escrituras, Fases, DeHttp, HayWeb, Recogida
    <2>3. QED
      BY <1>1, <2>1, <2>2
  <1>6. Arranques'
    BY <1>1, ArranquesIgual DEF Invariante, Arranques
  <1>7. QED
    BY <1>2, <1>3, <1>4, <1>5, <1>6 DEF Invariante, Escrituras

LEMMA AdminInvariante ==
  ASSUME Invariante, h_admin \/ h_upstreams_put
  PROVE  Invariante'
  <1>1. PICK l \in {config_set_admin, config_save} :
          /\ Empieza("http", l)
          /\ http' \in {"admin", "upstreams"}
          /\ http' = "admin" => l = config_set_admin
          /\ http' = "upstreams" => l = config_save
    BY DEF h_admin, h_upstreams_put
  <1>2. /\ UNCHANGED <<nvs, imagen, sel, run, a_prueba, en_curso, ota, main, cfg, boton, guardado,
                       cortes, fallos>>
        /\ main \in {"web", "corre"}
    BY DEF h_admin, h_upstreams_put, ConHttp, Resto, firmware, HayWeb
  <1>3. l \in Seq(Orden) /\ Len(l) <= 6
    <2>1. CASE l = config_set_admin
      BY <2>1, AdminOrdenes
    <2>2. CASE l = config_save
      BY <2>2, SaveOrdenes
    <2>3. QED
      BY <1>1, <2>1, <2>2
  <1>4. /\ escribe' \in [Escritores -> Seq(Orden)]
        /\ \A v \in Escritores : Len(escribe'[v]) <= 6
        /\ escribe'["http"] = l
        /\ \A v \in Escritores : v # "http" => escribe'[v] = escribe[v]
    <2>1. "http" \in Escritores /\ Tipo
      BY DEF Escritores, Invariante
    <2>2. QED
      BY <1>1, <1>3, <2>1, LoteTipo
  <1>5. Sufijo(l, l)
    BY <1>3, SufijoPropio
  <1>6. Tipo'
    BY <1>1, <1>2, <1>4 DEF Invariante, Tipo, TypeOK
  <1>7. Fases' /\ Formulario'
    BY <1>1, <1>2, <1>4, <1>5 DEF Invariante, Escrituras, Fases, DeMain, DeHttp, DeBoton,
       Formulario, Escritores, HayWeb
  <1>8. Borrados' /\ Probando' /\ Marcando' /\ CredencialesProbadas'
    BY <1>2, <1>4 DEF Invariante, Escrituras, Borrados, Borrado6, Probando, Marcando,
       CredencialesProbadas, Escritores
  <1>9. Recogida'
    BY <1>2 DEF Invariante, Recogida
  <1>10. Arranques'
    BY <1>2, ArranquesIgual DEF Invariante
  <1>11. QED
    BY <1>6, <1>7, <1>8, <1>9, <1>10 DEF Invariante, Escrituras

LEMMA BotonInvariante ==
  ASSUME Invariante, PulsadoEnMarcha
  PROVE  Invariante'
  <1> DEFINE l == config_clear_wifi
  <1>1. l \in Seq(Orden) /\ Len(l) = 6
    BY ClearWifiOrdenes
  <1>2. Sufijo(l, l) /\ Len(l) <= 6
    BY <1>1, SufijoPropio
  <1>3. /\ UNCHANGED <<nvs, imagen, sel, run, a_prueba, en_curso, ota, main, cfg, http, guardado,
                       cortes, fallos>>
        /\ main \in {"web", "corre"} /\ boton' = "borra" /\ Empieza("boton", l)
    BY DEF PulsadoEnMarcha, HayWeb, Resto, firmware
  <1> HIDE DEF l
  <1>4. /\ escribe' \in [Escritores -> Seq(Orden)]
        /\ \A v \in Escritores : Len(escribe'[v]) <= 6
        /\ escribe'["boton"] = l
        /\ \A v \in Escritores : v # "boton" => escribe'[v] = escribe[v]
    <2>1. "boton" \in Escritores /\ Tipo
      BY DEF Escritores, Invariante
    <2>2. QED
      BY <1>1, <1>2, <1>3, <2>1, LoteTipo
  <1>5. http # "save" /\ ~guardado
    BY <1>3 DEF Invariante, Escrituras, Fases, DeHttp, Recogida
  <1>6. Tipo'
    BY <1>3, <1>4 DEF Invariante, Tipo, TypeOK
  <1>7. Fases' /\ Formulario'
    BY <1>2, <1>3, <1>4, <1>5 DEF Invariante, Escrituras, Fases, DeMain, DeHttp, DeBoton,
       Formulario, Escritores, HayWeb, l
  <1>8. Borrado6(Len(escribe["boton"]))'
    <2>1. Len(escribe'["boton"]) = 6
      BY <1>1, <1>4, Zenon
    <2>2. QED
      BY <2>1 DEF Borrado6
  <1>9. Borrados' /\ Probando' /\ Marcando' /\ CredencialesProbadas' /\ Recogida'
    BY <1>3, <1>5, <1>8 DEF Invariante, Escrituras, Borrados, Probando, Marcando,
       CredencialesProbadas, Recogida
  <1>10. Arranques'
    BY <1>3, ArranquesIgual DEF Invariante
  <1>11. QED
    BY <1>6, <1>7, <1>9, <1>10 DEF Invariante, Escrituras

(***************************************************************************)
(* The update                                                              *)
(***************************************************************************)
\* Whatever leaves NVS, app_main and the other tasks alone.
LEMMA OtaIgual ==
  ASSUME Invariante,
         UNCHANGED <<nvs, run, main, cfg, http, guardado, boton, escribe, cortes, fallos>>,
         imagen' \in [Ranuras -> Imagen], sel' \in Ranuras, a_prueba' \in BOOLEAN,
         en_curso' \in BOOLEAN, ota' \in [Descargas -> {"no", "inicia", "descarga", "espera"}]
  PROVE  Tipo' /\ Escrituras' /\ Recogida'
  <1>1. Tipo'
    BY DEF Invariante, Tipo, TypeOK
  <1>2. Fases' /\ Formulario'
    BY DEF Invariante, Escrituras, Fases, DeMain, DeHttp, DeBoton, Formulario, Guardando, HayWeb
  <1>3. Borrados' /\ Probando' /\ Marcando' /\ CredencialesProbadas'
    BY DEF Invariante, Escrituras, Borrados, Borrado6, Probando, Marcando, CredencialesProbadas
  <1>4. Recogida'
    BY DEF Invariante, Recogida
  <1>5. QED
    BY <1>1, <1>2, <1>3, <1>4 DEF Escrituras

LEMMA OtaInvariante ==
  ASSUME Invariante, NEW d \in Descargas,
         otaupdate_trigger(d) \/ OtaBegin(d) \/ OtaFalla(d) \/ OtaFinish(d)
  PROVE  Invariante'
  <1>1. /\ imagen \in [Ranuras -> Imagen] /\ sel \in Ranuras /\ run \in Ranuras
        /\ a_prueba \in BOOLEAN /\ en_curso \in BOOLEAN
        /\ ota \in [Descargas -> {"no", "inicia", "descarga", "espera"}]
    BY DEF Invariante, Tipo, TypeOK
  <1>2. Otra(run) \in Ranuras /\ Otra(run) # run
    BY <1>1 DEF Otra, Ranuras
  <1>3. UNCHANGED <<nvs, run, a_prueba, main, cfg, http, guardado, boton, escribe, cortes, fallos>>
    BY DEF otaupdate_trigger, OtaBegin, OtaFalla, OtaFinish, ConOta, Resto
  <1>4. Arranques
    BY DEF Invariante
  <1>5. CASE otaupdate_trigger(d)
    <2>1. /\ ~en_curso /\ en_curso' = TRUE /\ ota' = [ota EXCEPT ![d] = "inicia"]
          /\ UNCHANGED <<imagen, sel>>
      BY <1>5 DEF otaupdate_trigger
    <2>2. Arranques'
      BY <1>1, <1>3, <1>4, <2>1 DEF Arranques, Descargando
    <2>3. Tipo' /\ Escrituras' /\ Recogida'
      BY <1>1, <1>3, <2>1, OtaIgual
    <2>4. QED
      BY <2>2, <2>3 DEF Invariante
  <1>6. CASE OtaBegin(d)
    <2>1. /\ ota[d] = "inicia" /\ imagen[run] # "prueba"
          /\ ota' = [ota EXCEPT ![d] = "descarga"]
          /\ imagen' = [imagen EXCEPT ![Otra(run)] = "vacia"]
          /\ UNCHANGED <<sel, en_curso>>
      BY <1>6 DEF OtaBegin, PuedeBorrar
    <2>2. imagen' \in [Ranuras -> Imagen] /\ imagen'[run] = imagen[run]
      BY <1>1, <1>2, <2>1 DEF Imagen
    <2>3. Arranques'
      BY <1>1, <1>3, <1>4, <2>1, <2>2 DEF Arranques, Descargando
    <2>4. Tipo' /\ Escrituras' /\ Recogida'
      BY <1>1, <1>3, <2>1, <2>2, OtaIgual
    <2>5. QED
      BY <2>3, <2>4 DEF Invariante
  <1>7. CASE OtaFalla(d)
    <2>1. /\ ota[d] \in {"inicia", "descarga"} /\ ota' = [ota EXCEPT ![d] = "no"]
          /\ en_curso' = FALSE /\ UNCHANGED <<imagen, sel>>
      BY <1>7 DEF OtaFalla
    <2>2. Arranques'
      BY <1>1, <1>3, <1>4, <2>1 DEF Arranques, Descargando
    <2>3. Tipo' /\ Escrituras' /\ Recogida'
      BY <1>1, <1>3, <2>1, OtaIgual
    <2>4. QED
      BY <2>2, <2>3 DEF Invariante
  <1>8. CASE OtaFinish(d)
    <2>1. /\ ota[d] = "descarga" /\ ota' = [ota EXCEPT ![d] = "espera"]
          /\ imagen' = [imagen EXCEPT ![Otra(run)] = "nueva"]
          /\ sel' = Otra(run) /\ en_curso' = FALSE
      BY <1>8 DEF OtaFinish
    <2>2. imagen' \in [Ranuras -> Imagen] /\ imagen'[run] = imagen[run]
      BY <1>1, <1>2, <2>1 DEF Imagen
    <2>3. imagen[run] # "prueba"
      BY <1>4, <2>1 DEF Arranques
    <2>4. Arranques'
      BY <1>1, <1>3, <1>4, <2>1, <2>2, <2>3 DEF Arranques, Descargando
    <2>5. Tipo' /\ Escrituras' /\ Recogida'
      BY <1>1, <1>2, <1>3, <2>1, <2>2, OtaIgual
    <2>6. QED
      BY <2>4, <2>5 DEF Invariante
  <1>9. QED
    BY <1>5, <1>6, <1>7, <1>8

LEMMA ConfirmaInvariante ==
  ASSUME Invariante, Confirma
  PROVE  Invariante'
  <1>1. /\ UNCHANGED <<nvs, sel, run, en_curso, ota, cfg, http, guardado, boton, escribe, cortes, fallos>>
        /\ main = "web" /\ main' = "corre" /\ a_prueba' = FALSE
        /\ imagen' = [imagen EXCEPT ![run] = "valida"]
    BY DEF Confirma, Confirmada, Resto
  <1>2. imagen' \in [Ranuras -> Imagen] /\ imagen'[run] = "valida"
    BY <1>1 DEF Invariante, Tipo, TypeOK, Imagen
  <1>3. Arranques'
    BY <1>1, <1>2 DEF Invariante, Arranques, Descargando
  <1>4. Tipo'
    BY <1>1, <1>2 DEF Invariante, Tipo, TypeOK
  <1>5. Fases' /\ Formulario'
    BY <1>1 DEF Invariante, Escrituras, Fases, DeMain, DeHttp, DeBoton, Formulario, Guardando, HayWeb
  <1>6. Borrados' /\ Probando' /\ Marcando' /\ CredencialesProbadas' /\ Recogida'
    BY <1>1 DEF Invariante, Escrituras, Borrados, Borrado6, Probando, Marcando,
       CredencialesProbadas, Recogida
  <1>7. QED
    BY <1>3, <1>4, <1>5, <1>6 DEF Invariante, Escrituras

(***************************************************************************)
(* Every step                                                              *)
(***************************************************************************)
LEMMA Sigue == Invariante /\ [Next]_vars => Invariante'
  <1> SUFFICES ASSUME Invariante, [Next]_vars
               PROVE  Invariante'
    OBVIOUS
  <1>1. CASE SinPulsar \/ Marcado \/ AgotaEspera \/ ArrancaServicios
    BY <1>1, MainInvariante
  <1>2. CASE Arranca \/ Borrado \/ CierraPortal
    BY <1>2, CargaInvariante
  <1>3. CASE Confirma
    BY <1>3, ConfirmaInvariante
  <1>4. CASE Pulsado
    BY <1>4, PulsadoInvariante
  <1>5. CASE Conecta
    BY <1>5, ConectaInvariante
  <1>6. CASE \/ FallanServicios \/ UpstreamsGuardados \/ ReiniciaBoton \/ ExpiraPrueba \/ Corte
             \/ \E d \in Descargas : OtaReinicia(d)
    <2>1. Reinicia /\ fallos' = fallos
      BY <1>6 DEF FallanServicios, UpstreamsGuardados, ReiniciaBoton, ExpiraPrueba, Corte,
         OtaReinicia, Resto
    <2>2. cortes \in 0 .. MaxCortes /\ MaxCortes \in Nat
      BY BootAssumption DEF Invariante, Tipo, TypeOK
    <2>3. \/ cortes' = cortes
          \/ cortes < MaxCortes /\ cortes' = cortes + 1
      BY <1>6 DEF FallanServicios, UpstreamsGuardados, ReiniciaBoton, ExpiraPrueba, Corte,
         OtaReinicia, Resto
    <2>4. cortes' \in 0 .. MaxCortes
      BY <2>2, <2>3
    <2>5. QED
      BY <2>1, <2>4, ReinicioInvariante
  <1>7. CASE \E w \in Escritores : Escribe(w) \/ EscribeFalla(w)
    BY <1>7, EscribeInvariante, FallaInvariante
  <1>8. CASE \E n \in Formas : h_save(n)
    BY <1>8, GuardaInvariante
  <1>9. CASE Guardado \/ AdminFijado
    BY <1>9, GuardadoInvariante
  <1>10. CASE h_admin \/ h_upstreams_put
    BY <1>10, AdminInvariante
  <1>11. CASE PulsadoEnMarcha
    BY <1>11, BotonInvariante
  <1>12. CASE \E d \in Descargas :
                otaupdate_trigger(d) \/ OtaBegin(d) \/ OtaFalla(d) \/ OtaFinish(d)
    BY <1>12, OtaInvariante
  <1>13. CASE UNCHANGED vars \/ \E n \in Formas : SaveRechazado(n)
    <2>1. UNCHANGED vars
      BY <1>13 DEF SaveRechazado
    <2>2. UNCHANGED <<nvs, imagen, sel, run, a_prueba, en_curso, ota, main, cfg, http, guardado,
                      boton, escribe, cortes, fallos>>
      BY <2>1 DEF vars, firmware
    <2>3. Tipo' /\ Escrituras' /\ Recogida'
      BY <2>2, OtaIgual DEF Invariante, Tipo, TypeOK
    <2>4. Arranques'
      BY <2>2, ArranquesIgual DEF Invariante, Arranques
    <2>5. QED
      BY <2>3, <2>4 DEF Invariante
  <1>14. QED
    BY <1>1, <1>2, <1>3, <1>4, <1>5, <1>6, <1>7, <1>8, <1>9, <1>10, <1>11, <1>12, <1>13
       DEF Next, Main

-----------------------------------------------------------------------------
(***************************************************************************)
(* The theorems                                                            *)
(***************************************************************************)
LEMMA Inductivo == Spec => []Invariante
  BY Inicial, Sigue, PTL DEF Spec

\* The mark "provisioned" is only found beside a network and a password that
\* have worked together, wherever the power was cut in the writes of
\* config_nvs.c, and whatever one write failed.
THEOREM MarcaFiable == Spec => []CredencialesProbadas
  <1>1. Invariante => CredencialesProbadas
    BY DEF Invariante, Escrituras
  <1>2. QED
    BY <1>1, Inductivo, PTL

\* There is always an image to boot, one on trial has a whole one behind it,
\* and no two downloads write the other slot at a time: otaupdate.c lets
\* en_curso go before it restarts.
THEOREM SiempreHayImagen == Spec => []VueltaAtras
  <1>1. Invariante => VueltaAtras
    <2> SUFFICES ASSUME Invariante
                 PROVE  VueltaAtras
      OBVIOUS
    <2> DEFINE S == {d \in Descargas : ota[d] \in {"inicia", "descarga"}}
    <2>1. \A d, e \in S : d = e
      BY DEF Invariante, Arranques, Descargando
    <2>2. Cardinality(S) <= 1
      <3>1. CASE S = {}
        BY <3>1, FS_EmptySet
      <3>2. CASE S # {}
        <4>1. PICK d \in S : TRUE
          BY <3>2
        <4>2. S = {d}
          BY <2>1, <4>1
        <4>3. Cardinality(S) = 1
          BY <4>2, FS_Singleton
        <4>4. QED
          BY <4>3
      <3>3. QED
        BY <3>1, <3>2
    <2>3. QED
      BY <2>2 DEF Invariante, Tipo, Arranques, VueltaAtras
  <1>2. QED
    BY <1>1, Inductivo, PTL

\* provisioning_run never closes the portal on half of one form and half of
\* another, though h_save takes forms until the HTTP server is stopped.
THEOREM FormularioEntero == Spec => NoMezcla
  <1>1. ASSUME Invariante, [Next]_vars, main = "portal", main' = "conecta", fallos = 0
        PROVE  cfg'.pass \in {cfg'.ssid, Mala}
    <2>1. Reinicia => main' \in {"arranca", "sin imagen"}
      BY DEF Reinicia
    <2>2. CierraPortal
      BY <1>1, <2>1 DEF Next, vars, Main, Arranca, SinPulsar, Borrado, Marcado, AgotaEspera,
         ArrancaServicios, Confirma, Pulsado, Conecta, FallanServicios, Escribe, EscribeFalla,
         h_save, SaveRechazado, Guardado, h_admin, AdminFijado, h_upstreams_put,
         UpstreamsGuardados, PulsadoEnMarcha, ReiniciaBoton, ExpiraPrueba, otaupdate_trigger,
         OtaBegin, OtaFalla, OtaFinish, OtaReinicia, Corte, ConHttp, ConOta
    <2>3. guardado /\ http = "libre" /\ cfg' = config_load
      BY <2>2 DEF CierraPortal, HttpTermina
    <2>4. nvs.pass \in {nvs.ssid, Mala}
      BY <1>1, <2>3 DEF Invariante, Recogida
    <2>5. \/ config_load = Vacio
          \/ config_load.ssid = nvs.ssid /\ config_load.pass = nvs.pass
      BY <1>1, CargaTipo DEF Invariante, Tipo, TypeOK
    <2>6. QED
      BY <2>3, <2>4, <2>5 DEF Vacio
  <1>2. QED
    BY <1>1, Inductivo, PTL DEF Spec, NoMezcla
=============================================================================
