CONSTANTS
  m1 = m1
  m2 = m2
  m3 = m3
  Macs = {m1, m2}
  MacCero = MacCero
  DHCP_LEASES_MAX = 2
  OFFER_RESERVE = 2
  LEASE = 2
  OWN = 11
  GATEWAY = 15
  RED = 10
  BCAST = 15
  POOL_INI = 12
  POOL_FIN = 13
  Rangos <- MCRangos
  Pedidas = {0, 12, 13}
  MaxArp = 1
  ClockMod = 8
SPECIFICATION Spec
SYMMETRY Simetria
INVARIANTS
  TypeOK
  UnaPorIp
  Exclusividad
  Respaldo
PROPERTIES
  ConflictoRespetado
  RenuevaLaSuya
