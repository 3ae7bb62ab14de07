CONSTANTS
  q1 = q1
  q2 = q2
  q3 = q3
  web = web
  app_main = app_main
  x1 = x1
  x2 = x2
  Consultas = {q1, q2, q3}
  Llamadores = {web, app_main}
  Arranque = app_main
  Tareas = {x1, x2}
  COUNT = 3
  DOT_QUEUE_DEPTH = 2
  DOT_BACKOFF = 2
  JOIN = 6
  LECTURA = 2
  Crudas = {q3}
  Nada = Nada
SPECIFICATION FairSpec
CONSTRAINT SinSolape
INVARIANTS
  UnaTarea
  ForwardCoherente
  ConexionLimpia
PROPERTIES
  ServfailJustificado
  ConsultaAtendida
