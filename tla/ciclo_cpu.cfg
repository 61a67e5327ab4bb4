CONSTANTS
  Mod8 = 4
  Mod32 = 16
  TamPagina = 4
  MarcosDe <- DosTablas
  Textos <- DosTextos
  MaxInterrupciones = 1
  CarreraDesalojo = FALSE
  CarreraInicio = FALSE
  Nulo = Nulo
SPECIFICATION SpecJusta
INVARIANTS
  TypeOK
  QuantumSinPendientes
PROPERTIES
  CumpleMaquina
  TodosTerminan
CHECK_DEADLOCK FALSE
