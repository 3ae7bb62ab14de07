CONSTANTS
  k1 = k1
  k2 = k2
  k3 = k3
  k4 = k4
  Claves = {k1, k2, k3, k4}
  upstream = upstream
  cliente = cliente
  Pidientes = {cliente}
  Mensajes = {1, 2, 3, 4, 5, 6, 7}
  Wire <- MCWire
  RESP_MAX = 5
  CAPACITY = 3
  TTL_CAP = 2
  EVICT_SCAN = 2
  MaxNow = 3
  Nada = Nada
  Hash <- MCHash
SPECIFICATION CacheSpec
SYMMETRY Simetria
INVARIANT
  Estructura
PROPERTIES
  ImplementaLru
  RespuestaFiel
