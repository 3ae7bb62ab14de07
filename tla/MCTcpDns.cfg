CONSTANTS
  k1 = k1
  k2 = k2
  k3 = k3
  x1 = x1
  Conex = {k1, k2, k3}
  Foraneas = {k3}
  TCP_DNS_MAX_CONNS = 2
  BUF = 4
  TCP_IDLE_TIMEOUT = 1
  UP_TIMEOUT = 1
  ENVIO = 1
  Txids = {x1}
  MaxMedias = 4
  Libre = Libre
SPECIFICATION FairSpec
INVARIANTS
  EnOrden
PROPERTIES
  CierreJusto
  TodosPasan
