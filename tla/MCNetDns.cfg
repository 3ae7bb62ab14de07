CONSTANTS
  ca = ca
  cb = cb
  cc = cc
  fuera = fuera
  Clientes = {ca, cb, cc, fuera}
  Locales = {ca, cb, cc}
  RATELIMIT_TABLE = 2
  CLIENTS_TABLE = 2
  MIL = 2
  ip_rate = 1
  ip_burst = 1
  glob_rate = 1
  glob_burst = 2
  ClockMod = 6
  Consultas = {1, 2, 3, 4}
  Pregunta <- MCPregunta
  Bloqueadas = {1, 3}
  SEGUNDO = 2
  MaxT = 9
  MaxTotal = 4
  Vacio = Vacio
  Nadie = Nadie
SPECIFICATION Spec
SYMMETRY Simetria
INVARIANTS
  Exacto
  Conserva
  Cuadra
