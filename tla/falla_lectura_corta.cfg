CONSTANTS
  TamPagina = 4
  CantMarcos = 4
  Tablas <- DosTablas
  Accesos <- Variados
  MaxAccesos = 4
  Cruces = FALSE
  Nulo = Nulo
SPECIFICATION Spec
INVARIANT MemoriaViva
CHECK_DEADLOCK FALSE
