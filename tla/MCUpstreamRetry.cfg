CONSTANTS
  r1 = r1
  r2 = r2
  r3 = r3
  k1 = k1
  k2 = k2
  k3 = k3
  c1 = c1
  r4 = r4
  t1 = t1
  t2 = t2
  t3 = t3
  Reqs = {r1, r2}
  Keys = {k1}
  Crudas = {c1}
  Txids = {t1, t2, t3}
  PENDING_ENTRIES = 2
  PENDING_WAITERS = 1
  RAW_ENTRIES = 1
  UPSTREAM_COUNT = 2
  CAIDO = 1
  BACKOFF = 1
  TIMEOUT = 2
  ACTS_CAP = 1
  ClockMod = 6
  MaxLag = 1
  MaxWire = 1
  Libre = Libre
  Nada = Nada
SPECIFICATION Spec
INVARIANT IntentoVigenteCasa
