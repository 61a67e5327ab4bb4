CONSTANTS
  Mod8 = 4
  Mod32 = 16
  TamPagina = 4
  MarcosDe <- DosTablas
  Textos <- DosTextos
  MaxInterrupciones = 1
  CarreraDesalojo = FALSE
  CarreraInicio = TRUE
  Nulo = Nulo
SPECIFICATION Spec
PROPERTY CumpleMaquina
CHECK_DEADLOCK FALSE
