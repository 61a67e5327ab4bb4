CONSTANTS
  Mod8 = 4
  Mod32 = 16
  TamPagina = 4
  MarcosDe <- DosTablas
  Textos <- DosTextos
  MaxInterrupciones = 1
  CarreraDesalojo = TRUE
  CarreraInicio = FALSE
  Nulo = Nulo
SPECIFICATION Spec
INVARIANT InterrupcionPropia
CHECK_DEADLOCK FALSE
