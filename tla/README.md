# TLA+ verification of esphole

esphole is a DNS filter for the ESP32: it answers the DNS queries of a home
network, refuses the names of a block list, caches the rest, and forwards what
it does not know to upstream resolvers, in clear UDP or over TLS. It also hands
out DHCP leases, serves an administration web page, updates its block list and
its own firmware, and provisions its Wi-Fi. This directory holds TLA+ models of
its core, the TLC runs that check them, and proofs that TLAPS checks.

Definitions keep the (Spanish) names of the source. `PROJECT.json` maps each
definition to the lines it models, each hazard to the properties that would
catch it, and each property to a mutant of the code that breaks it.

    tlc -workers 2 -config MCUpstreamSafety.cfg MCUpstream     # and so on
    tlapm UpstreamProofs.tla                                   # and so on

## 1. The system: inventory

Threads: lwIP's *tcpip thread* runs every UDP callback and is where the cache,
the pending table and the block list are used; *esp_timer* posts work to it;
the *httpd task* runs the web handlers; the *DoT*, *DHCP*, *TCP listener*,
*list update*, *OTA* and *reset button* tasks each run on their own; `app_main`
starts them all. There are few locks: most state belongs to one thread, and the
others jump into it with `tcpip_callback` and wait on a semaphore.

| Component (under `src/firmware/components/`) | State | Operations | Hard behaviour | What makes it correct |
|---|---|---|---|---|
| `upstream/` forwarder | pending table (entry: question, id, upstream, retries, waiters), raw passthrough slots, health of each upstream | `submit`, `up_recv_cb`, `procesa_expiraciones` (250 ms timer), `elegir`, `salud_*` | late, repeated, lost answers; ids reused; eviction at 64 entries; retry racing the first answer; timer that does 8 actions a run; 32-bit clock | an answer reaches exactly those who asked that question, once, and only from the upstream asked; everybody hears something |
| `cache/` | slots, hash chains, list of use, free list | `cache_get`, `cache_put`, `cache_clear`, `cache_count` | three linked structures over one array; expiry; bounded scan for a victim | never an expired answer; structures in step; a map with LRU order |
| `net_dns/net_dns.c` UDP listener | the `forward` pointer, rate limiter, clients, block list and cache it uses | `fastpath`, `recv_cb`, jumps of other tasks into the tcpip thread | order of the checks; the list replaced under it; tasks that wait for a posted callback | blocked names never resolve; list suspended means fail open |
| `net_dns/tcp_dns.c` TCP listener | connection table, buffers | `tarea_tcp`, `procesa_mensaje`, `upstream_sync` | idle and full table; late datagrams of a former attempt | one answer per message, of its own id |
| `net_dot/` DNS over TLS | forward and saved forward, queue, TLS connection, active resolver, circuit breaker, run/stop flags, join semaphore | `dot_submit`, `dot_task`, `net_dot_start`, `net_dot_stop` | three threads; a stop in the middle of a blocking exchange; reload; an answer left in a reused connection | one task; the forward in its place; every query attended; SERVFAIL only with every resolver down |
| `dot_frame/` | none | framing, `dot_response_ok` | – | an answer is taken for its own query only |
| `dhcp_lease/` | 32 leases: address, client, deadline, state | offer, commit, release, decline, expire | scans that stop at the first match; slots reused; BAD entries; 32-bit seconds | one client per address |
| `net_dhcp/` | pool, lease table, task flags | `tarea_dhcp`, `procesar` with two ARP probes, start, stop | time passes during a probe and the old `now` goes on being used; lost replies; restart empties the table | no address promised twice |
| `ratelimit/`, `clients/` | table of token buckets; table of clients | `ratelimit_check`, `clients_record` | full tables, recycling, wrapping clock | a bucket gives what its rate says, no more and no less; nobody's queries are counted to another |
| `blocklist/`, `domain/`, `hostlist/` | arena of inverted names and its state | add, finalize, contains, serialize, reset | heapsort and binary search with cut points; list being rebuilt while it is read | contains = some suffix is in the set |
| `blocklist_store/`, `listupdate/` | flash partition, update state | load, save, reload; download, trigger | power cut or failed write halfway; download bigger than the list | the list in use is a whole one |
| `otaupdate/`, `main/app_main.c` | OTA slots, trial timer, boot order | boot check, confirm, update | restart in trial, rollback, confirmation of a half-started system | a bad image rolls back, a good one is confirmed |
| `provisioning/`, `provision_logic/`, `config_nvs/` | NVS keys, boot mode, portal | decide, connect, run, save, mark, clear | power cut between two keys | saved credentials are used after a restart |
| `webapi/`, `webapi_logic/` | sessions, nonces, administrator's hash | challenge, login, logout, password, setup | replay, expiry, full tables, two keys written apart | an old session ends with the password it was opened with |
| `dns_wire/` | none | parse of a query, least TTL, ageing of an answer, new id | messages whose counters and records disagree; a walk that stops half way | an answer ages whole, and OPT is left alone |
| `metrics/`, `policy/`, `dhcp_wire/` | counters; none | – | pure functions and counters | the two counters agree with the registry |

Interactions: the listener calls the forwarder through `net_dns_set_forward`
(`submit` or `dot_submit`); the forwarder and the DoT task put answers in the
cache and send them through the listener; the web starts and stops DoT and
DHCP, empties the cache, triggers list and firmware updates and restarts the
device to change upstreams; the list update suspends, rebuilds and restores the
list the listener reads; provisioning and OTA decide what `app_main` starts.

## 2. What is modelled

### Upstream forwarder: `Reloj`, `Barrido`, `Pending`, `Salud`, `Upstream`, `Reenvio`

`Reloj` is the arithmetic of the 32-bit clocks (`Edad` the unsigned difference,
`Antes` the sign of the difference, `Suma`), with `ClockMod` for 2^32; `Barrido`
is "the first slot that ...". `Pending` is `pending.c`: the table as a function
from slots to entries, grouping, `txid_unico`, the slot of a new entry or the
oldest one, expiry in slot order. `Salud` is `s_salud`. `Upstream` is
`upstream.c`: since all of it runs in the tcpip thread, each callback is one
action.

| Variable | Code |
|---|---|
| `pend`, `salud`, `crudo` | `s_pend`, `s_salud`, `s_raw` |
| `now`, `lag` | `ms_now()` in timer periods; periods since the timer's callback ran |
| `wire` | datagrams an upstream may still answer: lost, late, repeated, reordered |
| `pedida`, `buzon` | what each client asked, what the forwarder has sent it |

`SubmitCrudo`, `SubmitAgrupa`, `SubmitEnvia` are the paths of `submit`;
`RespuestaCruda`, `RespuestaCasa`, `Descarta` those of `up_recv_cb`;
`ProcesaExpiraciones` is the timer's callback with its retries, SERVFAILs,
health and passthrough expiry. `Reenvio` is the abstract service: a request is
owed one answer to its own question, together with those grouped with it, and
may be given up only for a newer one or if it was never parsed. `Upstream`
implements it with `espera <- EnTabla \cup EnCrudo`.

Abstractions: the waiters of an entry are a set (their order is only the order
of sending); a request is one waiter, and a client that repeats its question is
another request; bytes, truncation to the client's payload, metrics and the
`cache_put` of the answer are left out; a passthrough query has no question,
only its id; upstream addresses are distinct; the list of upstreams changes
only with a restart (`h_upstreams_put` restarts the device); the back-off
instant of an upstream that is up is never read and is forgotten;
`PENDING_ENTRIES >= 2` (the scan for the oldest entry needs it; the firmware
has 64). `elegir` runs before the table is consulted, as in the code.

### DHCP: `DhcpLease`, `Dhcp`

`DhcpLease` is `dhcp_lease.c`, `Dhcp` the task of `net_dhcp.c`. The task handles
a DISCOVER in three steps (`Discover`, then the result of each ARP probe,
`ArpLibre`, `ArpOcupada`, `ArpOcupadaOtraVez`) and keeps in `ahora` the instant
it read at the first, while `now` goes on. The result of a probe is free. An
offer or an ACK may be lost. `promesa` is the clients' side: the last address
each was promised, and for how many seconds more.

Abstractions: no hostname, no status snapshot; the locals of `procesar` are
forgotten when it returns; the address and deadline of a free slot, and the
deadline of a bad one, are never read and are forgotten. A client that sends
DISCOVER, or chooses another server, or gives its address back, no longer
counts on it: delayed duplicates of those messages are not modelled, and
exclusivity fails with them (a hazard in `PROJECT.json`). A restart of the
server empties the table, so exclusivity is stated from one start to the next.
`net_dhcp_stop` waits 1 s and the task's blocking calls add up to 580 ms, so
the model has stop wait for the task. `LeaseAssumption` asks
`OFFER_RESERVE <= LEASE`: a lost ACK leaves a client with its 30 s offer while
the table already says `LEASE`. The web accepts any lease time (webapi.c:728):
below 30 s, or from 2^31 s on, the theorems do not apply.

### DNS messages and their cache: `DnsWire`, `Cache`, `Lru`

`DnsWire` is the part of `dns_wire.c` that walks a message: a header with its
counters, the question, and the records there really are, each with a name that
can be skipped or not (`walk_record`) and perhaps cut. `dns_wire_parse_query`
keeps the order in which the code finds out that a query is not for it to
process and that it is malformed; `dns_wire_min_ttl` and
`dns_wire_decrement_ttls` stop where their walks stop, and the second leaves
rewritten the records before. The bytes of a name are told apart only by what
the code does with them.

`Cache` is `cache.c` link by link: `lru_prev`, `lru_next`, `hash_next`, buckets,
head, tail, free list; `LruUnlink`, `LruPushFront`, `HashUnlink`, `Libera` are
the functions of the same name, and `Lista` is what a loop over links meets, a
recursive function that stops after as many steps as there are slots. A stored answer is the upstream's message and
the instant it was stored; `SeGuardan` is the filter of `up_recv_cb`,
`cacheput_en_tcpip` and `cache_put`, and `ParaCliente` the copy a client gets:
its own question and id, and the TTLs aged. `salida` is what the last call gave: one
answer or none. `Lru` is what callers see: a
sequence of answers, each its least TTL, in order of use, served until their
deadline, and nothing changed by one that is not kept (`Ignora`). `Contenido`
reads the sequence off the links, and `Cache` implements `Lru`. `RespuestaFiel`
is about what the abstraction hides, the records, and holds wherever an OPT is.
`Lru` needs `OptAssumption`: the OPT of an answer that is kept is in the
additional section, where RFC 6891 puts it. The code does not look: see section 4.
The hash is a constant function with collisions. All calls that change the cache run
in the tcpip thread (`net_dns_cache_flush` and `net_dns_cache_put_task` jump
there), so each is one step. Left out: `cache_count`, a read of another task; the
eviction counter; answers that do not fit the client's buffer, which change
nothing; a device without memory for the cache. The uptime in seconds does not
wrap in a device's life, and the code compares it without wrapping.

### The fast path: `Policy`, `RateLimit`, `Clients`, `NetDns`

`RateLimit` is `ratelimit.c` (`recarga` in thousandths of a token over a clock
that wraps; the eviction of `ratelimit_check`), `Clients` is `clients.c`,
`Policy` the membership of the local networks. `NetDns` is `fastpath`, which UDP
and TCP share and which runs in the tcpip thread, so a query is one step:

| Code | Actions |
|---|---|
| a foreign origin, a malformed query | `Descartada` |
| `ratelimit_check` refuses: no budget at all, none for the client | `SinPresupuesto`, `Agotado` |
| admitted: blocked, from the cache, to the forwarder, whole to the forwarder | `Atiende` |
| `DELETE /api/clients` | `net_dns_clients_reset` |

`ideal` and `techo` are what buckets refilled at every tick would have, `ultima`
and `ordenado` say when each client came and whether any bucket has been idle
for half the clock, `olvidadas` counts the queries of entries dropped: history,
for the properties only. After 2^31 ms (25 days) without a query a bucket looks
recent to the eviction, and after a whole turn of the clock it misses refills;
`Exacto` and `Conserva` say so. Left out: the answer itself, the other counters,
the snapshot for the web, and the way on for a blocked query whose answer could
not be built (net_dns.c:179), which does not happen: the question of a query that
was read takes 271 bytes at most, its answer 39 more, and there are 640
(net_dns.c:32) or 1536 (tcp_dns.c:150).

### The TCP listener: `TcpDns`

`tarea_tcp` turn by turn: `select` (`NadieLlama`, `Acepta`, `Rechaza`), then the
table in order (`Salta`, `Lee`, `CierreRemoto`, `Ociosa`), with every complete
message of a connection served before the next one (`Responde`, `Descarta`,
`Incompleto`), and `upstream_sync` as the steps `Reenvia`, `RecibeSuya`,
`RecibeTardia`, `RecibeBasura`, `Vence`. An answer is sent in two steps:
`Contesta` is where `envia_framed` begins, `Envia` where `lwip_send` has found
room and the message leaves the buffer, `NoEnvia` where the connection broke.
Between them the task waits, with no limit of its own, while the peer has `ENVIO`
answers unread (`sinleer`); `Recoge` is the peer reading one. Bytes are counted
in halves of a message, so messages arrive cut and joined; `ocio` and `retraso`
carry the one instant a turn reads after `select`, however long the turn. The
fast path's verdict is any. `Olvida` is no step of the code: before `select`
returns it forgets what was answered, and counts the rest from one, so that a
peer may go on for ever in a model with finitely many states. Left out: metrics;
allocation failures.

### DNS over TLS: `NetDot`

Steps of three parties over the shared variables of `net_dot.c`: the tcpip
thread queues (`Pregunta`); the task prewarms, takes a query, tries one resolver
after another, each attempt being a connection, a write and a read
(`Precalienta`, `Recibe`, `Prueba`, `Conecta`, `Escribe`, `LeeSuya`, `Falla`,
`Agotada`, `Abandona`), and exits in two steps (`Sale`, `Avisa`); the boot and
the web call start and stop (`Pide`, `Join`, `Arranca`, `Conmuta`). A step ends
at the next blocking call or shared variable. `tls.resp` holds the answers that
may still come on a connection. A tick is 2.5 s, the limit of a connection and
of a read; `JOIN = 6` is the shipped 15 s. `tarea` has room for two tasks, so
that a second one can be created if the code lets it.

Bounds on a blocking call: connecting takes one tick at most; writing does not
wait (a query of 512 bytes fits in the send buffer); reading takes `LECTURA`
ticks, which is the resolver's choice, because `read_exact` looks at its
deadline only when no byte came. Left out: counters, error text, the hand-over
to the cache (it waits for the tcpip thread only), queries dropped with the
queue full or sent by UDP (they change nothing here), a failed allocation of the
queue. `Crudas` are the queries `net_dns` leaves whole: `send_servfail` can build
no answer for them (their `question_end` is 0) and sends nothing. `salida` says
whose query the last step was done with, and what its client was sent.

The web may call before the boot does, and while it does (`webapi_start`,
app_main.c:203, comes before `net_dot_start`, app_main.c:215), and nothing keeps
one from passing the look at `s_running` while the other is on its way to set it
(net_dot.c:380, 417). `solapados` is history: it becomes true when a caller comes
while another is inside. Every state with it is reached by the model's own steps,
but two tasks would then be inside the calls of one connection, which is finer
than these steps: the properties speak of what comes before.

### Boot, provisioning, NVS and OTA: `Boot`

The life of the device across restarts. `nvs`, `imagen` and `sel` survive; a
restart (`Reinicia`) resets the rest and lets the boot loader choose. `main` is
where `app_main` and `provisioning_run` are, `http` the handler the portal's or
the web's HTTP task is in, `boton` the reset task, `ota` each `tarea_ota`.

| Code | Actions |
|---|---|
| `otaupdate_boot_check`, `config_load`, Kconfig's network | `Arranca` |
| the button at the start | `SinPulsar`, `Pulsado`, `Borrado` |
| `connect_sta`, `config_mark_provisioned` | `Conecta`, `Marcado`, `AgotaEspera` |
| the portal: POST /save, `portal_stop` | `h_save`, `SaveRechazado`, `Guardado`, `CierraPortal` |
| services, confirmation, trial timer | `ArrancaServicios`, `FallanServicios`, `Confirma`, `ExpiraPrueba` |
| `tarea_reset_boton` | `PulsadoEnMarcha`, `ReiniciaBoton` |
| setup, password, upstreams, firmware from the web | `h_admin`, `AdminFijado`, `h_upstreams_put`, `UpstreamsGuardados`, `otaupdate_trigger` |
| `tarea_ota` | `OtaBegin`, `OtaFalla`, `OtaFinish`, `OtaReinicia` |

A form is the sequence of its fields (`provision_form_parse`,
`provision_creds_valid`): they may come twice, in any order or with others.
`provision_decide_boot` is the choice of where to go.

Every function that writes NVS is the list of its writes (`config_save_wifi`,
`config_clear_wifi`, ...); a task performs them one at a time (`Escribe`), each
may fail (`EscribeFalla`), and a cut (`Corte`) falls between any two. NVS keeps
each key atomically and writes it at once: a handle has no transaction, so
`nvs_commit` is no protection.

Abstractions: of `config_save`'s keys only the version; a network's password is
the network; whether the authenticated web user exists is `Web`'s matter; an
image that runs may always confirm, hang until the trial timer, or panic; the
boot loader and the OTA library (it refuses to erase while on trial, since
`sdkconfig.defaults` enables the rollback) are external. `connect_sta` gets an
address only with the right password. A device whose two slots are damaged is
`"sin imagen"`.

The run starts from a device whose configuration has been saved once
(`Versiones = {TRUE}`): without that it never gets past the portal, which is the
finding of `boot_fresh`. Seen while modelling, without a run: an interrupted
factory reset leaves the network and `provisioned = 0`, and the next start
connects with it and sets the mark again, though the comment at
config_nvs.c:189 expects the portal (`VuelveAlPortal` is about completed ones);
a password change that interleaves with the hot reset may leave the
administrator's keys behind; the captive DNS task is blocked in `recvfrom` when
`portal_stop` asks it to end and closes port 53 only at its next datagram
(prov_portal.c:174, 285), so `net_dns_start` may find the port taken and the
device restart once (`FallanServicios`); a form of more than 255 bytes, possible
with many escaped characters, is cut there (prov_portal.c:121) and its password
stored short.

### Access to the web: `Web`

`webapi_logic.c`'s tables of sessions and challenges and the handlers of
`webapi.c` that use them. The HTTP task serves a request at a time, so a handler
is one step; requests of all browsers interleave. Any cookie and any challenge
ever given may come again at any time. A password is the number of its change,
and `adm` keeps hash and salt apart, because a failed write may leave one of
each (`Guarda`). `vigente`, `sesion`, `reto`, `fallidos` are history, for the
properties only. `guard` stands for every protected endpoint that changes
nothing here. Left out: parsing of cookies and bodies, the KDF and HMAC (a proof
is right or wrong), time in constant comparison, the restart of the device.
Eviction compares seconds, so of two challenges of the same second the first
slot goes, which may be the newer one; `AccesoLegitimo` states its bound in seconds.

### Block list: `BlockList`, `ListUpdate`

`BlockList` is the algorithms of `blocklist.c`: heapsort and duplicates of
`blocklist_finalize`, the binary search of `busca_paso` and its jumps from a
predecessor to a shorter prefix; `domain_suffix_match` (domain.c) is what the
search must amount to. A name is a sequence of bytes; `-`, `.` and the rest are
enough to tell apart, for only their order counts. `EsNombre` is what
`domain_normalize_invert` lets through: no empty label.

`ListUpdate` is who uses them: the tcpip thread that searches
(`EmpiezaBusqueda`, `AcabaBusqueda`), `carga_lista` at the boot, and
`tarea_update` step by step: suspend, reset, a line at a time, `Activa`, erase,
sector by sector, and `Recarga`/`Restaura` after an error. `part` is what can be
read of the partition; a cut or a failed write may leave a sector in part
(`Rotas`). An entry split between two sectors counts as in the second.

Abstractions: the arena of bytes (a search disturbed by a writer is excluded by
`SinCarrera`, so what it would read is not modelled); the count of discarded
entries; failing to map the partition, and lists bigger than it (6 MB, more than
the arena). C gives no order between the task's writes of the entries and of
`state`, which is a plain field, seen from the other core: the model takes them
in program order. Two things were seen on the way, without a run. After a failed
write the reload empties an *active* list from the task, so `SinCarrera` asks
for no failure; and what comes back is what the partition has, which is not the
previous list once it was erased (the comment at listupdate.c:161 says intact).
A download without a single name counts as good, is persisted empty, and the
next boot loads the test list.

## 3. Runs

| Run | Question | Result |
|---|---|---|
| `upstream_safety` | Does the forwarder ever mix answers, answer twice, accept a wrong origin, or leave its service's contract? | holds |
| `upstream_live` | Does every request hear something, with a timer that handles one entry a run and nobody answering? | holds |
| `upstream_retry` | Does the answer to the attempt in flight complete its entry (pending.h:84)? | **violated** |
| `dhcp` | Is an address ever promised to two clients? Is a conflict respected? Does a client get its present lease again, but for a conflict it met? | never; yes; yes |
| `cache` | Do the links stay in step and implement `Lru`, and does a client get its own answer with what is left of each record? | holds |
| `dot` | One task, forward in its place, clean connection, justified SERVFAIL, queries attended, if answers come at once and boot and web do not call at once? | holds |
| `boot` | Across cuts, failed writes and restarts between any two steps: is what is marked as proved really so, do bad credentials and a reset reach the portal, can a trial always go back, and does it end? | yes |
| `boot_fresh` | Are the credentials just saved those it connects with (provisioning.c:132), out of the box? | **violated** |
| `web` | Who may enter enters and nobody else; a proof serves once; guessing is bounded? | holds |
| `lista` | Does the search find what it should, undisturbed; is the list in use the one a restart would load; does blocking come back? | yes |
| `netdns` | Does the limiter give each client what a bucket refilled all the time would, is no bucket won back early, and does the registry add up to the counters? | yes |
| `tcp` | Are the answers of a connection its own and in order, is no query lost to the idle timeout, does everybody who calls and falls silent leave the table, if peers read their answers? | yes |

Properties, and the steps it takes to break them, are commented where they are
defined. Each has a mutant in `PROJECT.json` that TLC refutes.

**Bounds.** `upstream_safety`: two entries and three questions, so that the
third evicts; two waiters an entry and three requests, so that an entry fills;
three ids for two entries, so that each is reused while late answers to its
former owner are about; two upstreams, one failure to be down; a clock of four
values, so that it wraps within one query's life; one query in flight at a time
(`MaxWire`), any answer to it late or repeated; the callback at most one period
late (`MaxLag`). It has no passthrough (`Crudas = {}`): that one is in
`upstream_live` and in the theorems, which have no bounds. `upstream_live` has one
action a run and two entries, so that the second waits for its turn, and both are
slots that `IntentoAcotado` bounds (section 5). `dhcp`: two clients, two
addresses, two slots, leases of two seconds over a clock of eight values, so
that leases expire, wrap and are reused, probes of up to one second. `cache`:
three slots (an element with both neighbours), four questions (eviction), three
in one bucket, a scan of two; a positive answer whose least TTL passes the cap
and whose last record is cut, a denial that dies in a second, and one answer for
each reason not to keep it. `dot`: three
resolvers (a cycle that starts anywhere), three queries, one of them left whole, a
queue of two; a state in which two callers have overlapped is reached and looked
at, but not gone on from (`SinSolape`), since nothing is claimed of what follows.
`boot`: two networks and a wrong password, so that halves of forms can be mixed
up; two download tasks; one cut and one failed write, placed anywhere, besides
the restarts the code itself asks for, which are not bounded: each of those is
also a cut for the tasks it does not come from. `web`: two sessions and two
challenges at a time, and three of each in all, so that both tables evict; two
passwords; a clock of four seconds against lives of two and one, so that entries expire, are
refreshed, and the window of failed logins ends twice. `lista`: every download
of up to four of five names, among them a parent, its child, and what sorts
between them; an index for three, so that it fills; two entries a sector, so
that a list takes two; every query of five bytes or less. `netdns`: three local
clients and a foreign one over two buckets and two entries, so that both evict;
two thousandths to a token and one a tick, so that a refill leaves a remainder;
a clock of six values over nine ticks, so that it wraps and a bucket may be idle
for more than half of it; a blocked query, one that is not, one left whole and
one malformed. `tcp`: three connections, one foreign, over a table of two, so
that it fills and slots are used again; a buffer of two messages, so that two
whole ones, or one and the half of another, are in it; four halves sent and not
yet answered, over all connections (`MaxMedias`), without an end to how many are
sent in all; one answer unread (`ENVIO`), so that the second waits; waits of one
tick against an idle timeout of one, so that a turn outlasts the timeout; a
single id, so that only the origin tells attempts apart.

**Fairness.** `Upstream`: `WF(Tick)`, `WF(ProcesaExpiraciones)` since esp_timer
is periodic and `tcpip_callback` work is run, `WF(Consume(r))` for a client that
reads its answers. Nothing makes the network deliver. `NetDot`: `WF` of the
clock, of each task's steps (every blocking call ends) and of callers. Nothing
makes a resolver answer or a client ask. `Boot`: `WF` of the steps of `app_main` that
wait for nobody or with a limit, of each task's writes, of handlers that have
begun, and of timers. Nothing makes the user press or type, the network accept,
or a download come; the portal may stay open for ever. `Web` has no liveness.
`TcpDns`: `WF` of the task, whose waits all have
a limit but the one for room to send, where its step is not enabled; `SF` of the
clock, as peers that go on writing keep `select` from waiting, and yet time goes
by; `WF` of `Olvida`. No peer writes, reads or hangs up, no send fails and no
upstream answers unless it wants. So `TodosPasan` has two hypotheses, and each is
needed: that the task is not left sending for ever to a peer that does not read,
and that the peer it speaks of falls silent in the end (section 4). `NetDns` and `Cache` have no liveness.
`ListUpdate`: `WF` of the task and of the end of a search and a download; `SF`
of the suspension, since the tcpip thread serves its mailbox in order.

## 4. Findings

* **A retry that wraps around cannot be answered** (`upstream_retry`).
  `pending_expire` stores `upstream_idx + 1` unreduced, `procesa_expiraciones`
  sends to `upstream_idx % upstream_count`, and `addr_es_upstream` refuses an
  index that is not below the count: with one upstream every retry is lost.
* **A device out of the box never uses what the portal stored** (`boot_fresh`).
  `config_load` gives the compiled defaults until `cfg_ver` is in NVS; only
  `config_save` writes it, and only the web, on a device that is connected,
  calls `config_save`.

Seen while modelling, without a run of their own (each property excludes what it
must, in its comment):

* A client that met a conflict may not be renewed, although dhcp_lease.h:38 says
  an offer is "su lease actual si la hay": `dhcp_lease_decline` leaves its MAC in
  the BAD entry and `find_mac` stops there (dhcp_lease.c:107). 32 conflicts leave
  the server without entries until it restarts.
* The join of `net_dot_stop` can be outlived (net_dot.c:446), against the comment
  above it, by a resolver that sends a byte at a time: a reload then makes a
  second task.
* `net_dot_start` looks at `s_running` long before it sets it (net_dot.c:380, 417).
  A user who saves the DoT settings while the device is still starting may be let
  through together with the boot: two tasks are made, against net_dot.c:443-445,
  or DoT's own forward is saved as the UDP one. Both were found by TLC.
* A query left whole by `net_dns` hears nothing from DoT when every resolver fails:
  `send_servfail` can build no answer without a question (net_dot.c:212-216,
  dns_wire.c:182-184), though net_dot.c:11-12 promises a local SERVFAIL.
* A peer that sends queries over TCP and never reads the answers fills the send
  buffer, and the task then waits in `lwip_send` (tcp_dns.c:65, 68) for as long as
  that peer is there, with every other connection; only the socket to the upstream
  has a timeout (tcp_dns.c:84). One that sends a byte every 4.9 s keeps its slot
  for ever (tcp_dns.c:277).
* A query over TCP goes out in the clear with DoT on (tcp_dns.c:163), against
  test/target/DOT.md:47.
* One datagram is read for each attempt of `upstream_sync`: a late answer of the
  first upstream uses up the attempt with the second (tcp_dns.c:122).
* The id of a passthrough query is drawn without a look at the table
  (upstream.c:169) and looked for before origin and question (upstream.c:234): an
  answer to an entry with the same id goes to the passthrough's client, and the
  entry's clients wait for the retry.
* An upstream or a bucket that nobody looks at for 2^31 ms looks recent again
  (upstream.c:89, ratelimit.c).
* The cache keeps an answer with TC set and serves it over TCP as well
  (cache.c:181). The table's answers go to every waiter with the letters of the
  first (upstream.c:205), unlike the cache's. A label with a dot inside is taken
  for two (dns_wire.c:100).
* An OPT among the answers would count for the deadline (dns_wire.c:335), where
  its flags are taken for a TTL, and is not aged (dns_wire.c:387): an answer may
  then be kept for less than the other answers last, and never for more.
* DoT takes an answer of more than 512 bytes (net_dot.c:236) for a failure of every
  resolver, and so the answer to a query left whole whose question cannot be
  walked, as one that has none (dot_frame.c:77): its circuit breaker then refuses
  everybody for 2 s.

## 5. What is proved

| Theorem | Module | States |
|---|---|---|
| `TipoCorrecto` | `UpstreamProofs` | the forwarder's types |
| `TxidsUnicos` | `UpstreamProofs` | live entries never share an id |
| `EsperasUnicas` | `UpstreamProofs` | a request waits in one place, under its question, unanswered |
| `RespuestasPropias` | `UpstreamProofs` | one answer at most, to the question asked |
| `OrigenesValidados` | `UpstreamProofs` | an entry is completed by the upstream of its present attempt only |
| `ReenvioImplementado` | `UpstreamProofs` | `Upstream` implements `Reenvio` |
| `IntentosAcotados` | `UpstreamProofs` | an attempt ends within its timeout and the timer's runs to its slot |
| `TipoCorrecto` | `DhcpProofs` | the server's types |
| `IpsSinRepetir` | `DhcpProofs` | one entry an address |
| `IpsExclusivas` | `DhcpProofs` | two clients never hold the same address |
| `PromesasRespaldadas` | `DhcpProofs` | what a client holds has an entry that lasts as long |
| `ConflictosIntactos` | `DhcpProofs` | an address in conflict is given to nobody (action property) |
| `OfertaRenueva` | `DhcpProofs` | a client is offered the lease it has (action property) |
| `UnaSolaTarea` | `NetDotProofs` | one DoT task at a time, until two callers overlap |
| `ForwardEnSuSitio` | `NetDotProofs` | the forward is DoT's exactly while there is a task, until two callers overlap |
| `SinRestos` | `NetDotProofs` | no answer is left over on the kept connection, until two callers overlap |
| `ServfailFundado` | `NetDotProofs` | a SERVFAIL comes with every resolver down (action property), until two callers overlap |
| `MarcaFiable` | `BootProofs` | what is marked as proved is a network with its own password |
| `SiempreHayImagen` | `BootProofs` | there is always an image to go back to, and one download |
| `FormularioEntero` | `BootProofs` | the portal never closes on two half forms (action property) |
| `SoloQuienDebe` | `WebProofs` | who may enter, and who is put out |
| `DosVentanas` | `WebProofs` | guessing is bounded |
| `UnaPrueba` | `WebProofs` | a proof serves once, in time (action property) |
| `RecargaExacta` | `NetDnsProofs` | a bucket holds what its rate says, through any wrap |
| `CuboConservado` | `NetDnsProofs` | a bucket is lost only to a table full of others |
| `RegistroCuadra` | `NetDnsProofs` | the registry adds up to the counters |
| `EstructuraSiempre` | `NetDnsProofs` | a slot of the cache is free or in use, and its lists are in step |
| `RespuestaFielSiempre` | `NetDnsProofs` | a client gets its own answer with what is left of it (action property) |
| `ImplementaLruSiempre` | `NetDnsProofs` | `Cache` implements `Lru` |
| `RespuestasEnOrden` | `TcpDnsProofs` | answers of a connection in the order of its messages |
| `NadaSePierde` | `TcpDnsProofs` | the visit of the table closes no connection over what `select` had seen of it, and leaves no whole message behind (action property) |
| `Finaliza` | `ListUpdateProofs` | `blocklist_finalize` sorts, drops repetitions and keeps the rest, for every list |
| `Contiene` | `ListUpdateProofs` | `blocklist_contains` finds what is, or is under, an entry, for every list and name |
| `BusquedaFiel` | `ListUpdateProofs` | the list in service blocks what it took and nothing else |
| `BusquedaTranquila` | `ListUpdateProofs` | nobody writes the list a search walks (action property) |
| `ListaPersistente` | `ListUpdateProofs` | the list in service is the one a restart would load |

They hold for every value of the constants that meets the named assumptions:
any number of slots, clients, connections, upstreams, ids, cuts and failures, any
clock width and time to live. The bounds of the runs (`MaxT`, `MaxTotal`, ...)
are constants like the others.

*Forwarder.* None of the properties is inductive alone. `Invariante` joins the
types, unique ids, one place for each waiter with its question, and that who
asked nothing has nothing. Unique ids after a timer run need `TrasVencerTxids`:
several entries draw ids in slot order, each against the table left by the ones
before. One answer at most needs that a waiter is unanswered, which needs that
it waits in one place only. The refinement has a lemma for each action; the
timer's maps to one `Vence` of all failed waiters. `OrigenesValidados` says that
a delivered answer came from a query of `wire` with the entry's present id,
question and upstream. `IntentoAcotado` is a counting argument: if the timer has
passed over an expired entry `w` times, each run handled `ACTS_CAP` slots before
it, and what was handled in the last periods cannot have expired again, so
`(w + 1) * ACTS_CAP` slots before it are recent (`Turnos`). That bounds the slots
reached within a timeout: with the shipped 6 periods, one period of lag and 8
actions a run, 48 of the 64. The other 16 have no bound, as the first ones
may expire again before (a hazard). It needs `2 * TIMEOUT + MaxLag <= ClockMod`.

*DHCP.* `Exclusividad` follows from `Respaldo` (each promise has its entry) and
`UnaPorIp`, but neither survives a step alone. `Invariante` is the table's
soundness for the promises (`Sana`: one entry an address, each promise backed by
its own entry, not longer than the entry and within `LEASE`), `Separadas`
(exclusivity), `Sondeo` (the address being probed is reserved for the client that
asked, by an entry stamped with the instant read before), and `EnCurso` (a
client in the middle of a request that gives up its address holds none).
`DuraVigente` is the heart: an entry that lasts at `now` is in force also at the
older `ahora`, because `LEASE + MaxArp` is under half the clock; so the stale
instant never frees somebody's address. Each operation of the table has a lemma
that it keeps `Sana`. `ConflictosIntactos` needs that a bad entry has no deadline
(`SinPlazo`), or the first expiry would free it; `OfertaRenueva`, that `find_mac`
stops at the client's one live entry when no bad one bears its name.

*DoT.* The four theorems of `NetDotProofs` have a hypothesis,
`2 * LECTURA + 1 < JOIN`: what a task that is being stopped may still do is read
over the connection it kept, make another (one tick) and read over that one. With
the shipped 15 s (6 ticks) it says that no resolver drips an answer for more than
5 s; without it the join is outlived (section 4). `Invariante` says, for each
place a caller may be in, what there is meanwhile (`Papeles`), what the flags say
of the task (`Avisos`), and that the caller's wait and what is left to the task
(`Falta`) add up to less than the join (`Tiempo`); `Unicos` is then inductive.
`Recorrido` goes with `s_active` as the task moves it: the resolvers behind it have
failed. `NetDotAssumption` has one caller besides the boot: the handlers that start
and stop DoT run in the one task of the HTTP server. The two may call at any
time, and what is inductive is `Hasta`: `Invariante`, until they have overlapped.
A step that begins with nobody overlapping finds the other caller quiet (`Queda`),
so it is alone inside start or stop.

*Boot.* `Invariante` says of each task that writes NVS how far it has got
(`Sufijo`: what is yet to be written is the end of one batch, and what was written
is there), so that a cut needs no case of its own. The proof found that
`CredencialesProbadas` was false as first stated, for any number of failed writes:
`config_clear_wifi` goes on after a failure (config_nvs.c:191), so when the mark
and the network both stay and the password goes, the device is marked with a
password that never worked and waits for it in `connect_sta` for ever. It takes
two failed writes in one reset and the run has one; the property now excludes it
(`fallos < 2`), and `VuelveAlPortal` too. `FormaAssumption` is about the forms
that are tried: a valid one has its network's password or a wrong one.

*Web.* The tables hold no more than the history says (`Entradas`, `Desafios`), and
a session that lost its entry with a right to it was the oldest of a full table
(`Desalojos`), which is counted with an injection from the slots. `fallidos`
counts failures up to each second, so that any stretch is a difference, and
`Ventanas` has the window in course and the stretch of its length before it.

*Fast path.* A bucket's stamp is a remainder of `ultima`, which does not wrap, so
`Edad` is the time gone by, or that less whole turns (`EdadBien`), and the sign of
a difference orders stamps of the last half turn (`AntesBien`). `Cubos` and
`Techo` say that a bucket refilled by the time gone by is at most the ideal one,
and equal while `ordenado`; `Idos`, that whoever lost its bucket is followed by a
table full of later clients. The ceiling is never stamped without a bucket, but
when it is full. `NetDnsAssumption` has finitely many addresses, or `Conserva`
could not count them. What the scan for a victim, the sums of the registry and
the remainders amount to is recursive, and no induction theorem can be
instantiated: the lemmas (`Induccion`, `Recursiva`, `SumaCambia`, `VictimaBien`,
`Division`) argue from the least counterexample of a set of numbers, over
recursive functions.

*Cache.* Its proofs are in `NetDnsProofs` too, as the fast path is who asks it.
`CacheInvariante` says of the links that some sequences without repetition are
there to be read (`Enlazado`): the list of use in both directions (`EsDoble`), the
free list, and a chain for each bucket (`EsLista`); of the slots, that each is in
one of use and free (`Entera`), in the chain of its question's bucket and no
other (`EnSuCadena`), with an answer that could be kept and no other slot's
question (`Guardado`). `ListaBien` shows that walking the links finds the sequence
that is there, from the least step at which it would not. Each function of
`cache.c` is then taking a slot out of a sequence or putting it in front (`Saca`,
`Pon`), and while an operation has a slot in its hands only that slot is nowhere
(`Hueco`). `FielBien` follows the walk that ages the records (`DescuentaBien`):
whatever decided the deadline was reached by the same walk, and the deadline has
not come, so nothing that counts is left unaged or reaches zero. The refinement
has a lemma for each action over `Entradas`, the sequence of use as `Lru` sees it:
`LugarBien` that a question is in one place of it, `VictimaFiel` that both forget
the same answer, `TtlServido` that the least TTL of a copy is what is left of the
least TTL, which is where `OptAssumption` is used.

*List.* The loops are recursive functions, which exist (`Recursion`) and of which
one argues by the least counterexample again (`Induccion`). `Finaliza`: siftDown
puts right a heap that is wrong at its root only (`SiftDown`), the first loop makes
a heap, the second keeps the greatest entries in order behind it (`PrimerBucle`,
`SegundoBucle`), every exchange keeps the entries, and what `Dedupe` has written
so far is the entries so far, in strict order. `Contiene`: the binary search finds
the last entry not after the name (`BuscaBien`); whatever sorts between a prefix
and the name has that prefix (`Emparedado`), so the entries a jump skips have no
parent of the name, and each jump leaves a shorter prefix (`PasoBien`).
`Invariante` says that the index has what was put in it, in order when in service
(`EnServicio`), that a list is written when in service and read into an empty one
(`Fases`), and that what is written is the beginning of what is in service
(`Guardada`). `Turnos`, for `BusquedaTranquila`, says who may write meanwhile.
`ListaAssumption` has names as `domain_normalize_invert` leaves them (`EsNombre`):
both the lines of a download (listupdate.c:52) and the names asked (net_dns.c:169)
go through it. Of that the proofs use that a name is not empty and has no NUL.

*TCP.* Everything is counted in halves of messages: a buffer is what was read of
its connection less two for each answer (`Tabla`), so the message at its front is
the next to be answered, and what is under way to the socket of `upstream_sync`
is about it, and so is the answer being sent (`Turno`). Each of the two counts of
a connection bounds the next, `2 * Len(salida) <= leidas <= escritas`
(`Salidas`), so that forgetting what was answered (`Olvida`) takes the same from
all of them and leaves none negative. `LibreAssumption` only says that a free
slot is no connection.

*Not proved.* Liveness and fairness are beyond TLAPS and stay with TLC
(`TodosSaben`, `ConsultaAtendida`, `VuelveAlPortal`, `PruebaTermina`,
`BloqueoVuelve`, `TodosPasan`). Every safety invariant, action property and
refinement of the passing runs is a theorem.

## 6. Plan

Done: 1. the forwarder and its service; 2. DHCP; 3. the cache; 4. DNS over TLS;
5. the boot with NVS and OTA; 6. access to the web; 7. the block list and its
update; 8. the fast path, its limiter and its registry; 9. the TCP listener;
10. messages as the parser and the cache walk them.

What a later extension could add: the settings of DHCP and DoT as keys of NVS
against what runs; the captive DNS and its port; the answers the device builds
itself and their truncation; delayed duplicates in `Dhcp`.

Theorems to come: none for what the runs check, liveness aside. What would be
worth stating next is what the numbers of section 5 leave open, as the 16 slots
that `IntentosAcotados` does not bound.

## 7. Not modelled

The bytes of DNS and DHCP messages and the building of answers, JSON, UTF-8, name
normalisation and QR text (pure functions with host tests); the settings of DHCP,
DoT and the list as keys of NVS (read at a start and written by one handler at a
time); metrics but two (nothing reads them back); the web page; the bench; the
offline list generator; ESP-IDF, lwIP and mbedTLS themselves, which appear as
the environment each model needs. `PROJECT.json` lists every component with its
status and the reason.
