CONSTANTS
  TamPagina = 4
  CantMarcos = 4
  Tablas <- DosTablas
  Accesos <- Variados
  MaxAccesos = 4
  Cruces = FALSE
  Nulo = Nulo
SPECIFICATION Spec
INVARIANT TypeOK
PROPERTY CumpleEspacio AccesosSeHacen
CHECK_DEADLOCK FALSE
