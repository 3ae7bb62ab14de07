CONSTANTS
  Nombres <- MCNombres
  Consultas <- MCConsultas
  LISTA_PRUEBA <- MCPrueba
  Previa <- MCPrevia
  INDEX_CAP = 3
  SECT = 2
  MaxLineas = 4
  MaxCortes = 1
  MaxFallos = 1
SPECIFICATION FairSpec
INVARIANTS
  BusquedaCorrecta
  ReinicioNoCambia
PROPERTIES
  SinCarrera
  BloqueoVuelve
