CONSTANTS
  TamPagina = 4
  CantMarcos = 4
  Tablas <- DosTablas
  Accesos <- Cruzados
  MaxAccesos = 4
  Cruces = TRUE
  Nulo = Nulo
SPECIFICATION Spec
PROPERTY EscrituraPropia
CHECK_DEADLOCK FALSE
