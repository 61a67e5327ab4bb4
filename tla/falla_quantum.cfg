\* One property at a time: the ones after the first are left as comments.
CONSTANTS
  Algoritmo = "RR"
  GradoMax = 2
  Interfaces = {}
  Pedidos = {"EXIT", "RECURSO"}
  MaxProcesos = 2
  MaxOrdenes = 0
  MaxInterrupciones = 2
  CarreraIO = FALSE
  CarreraEstado = TRUE
  CarreraBloqueados = TRUE
  Nulo = Nulo
SPECIFICATION SpecJusta
PROPERTY InterrumpeAlQueSigue
\* PROPERTY VencidoDejaCpu
CHECK_DEADLOCK FALSE
