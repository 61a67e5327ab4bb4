CONSTANTS
  Algoritmo = "FIFO"
  GradoMax = 3
  Interfaces = {io1}
  Pedidos = {"EXIT", "ERROR", "IO", "IO_INVALIDA", "RECURSO"}
  MaxProcesos = 4
  MaxOrdenes = 0
  MaxInterrupciones = 0
  CarreraIO = FALSE
  CarreraEstado = FALSE
  CarreraBloqueados = TRUE
  Nulo = Nulo
SPECIFICATION SpecFifoJusta
INVARIANTS
  EstadoFiel
  BloqueadosContados
  BloqueadosAtendidos
  SinFalla
PROPERTIES
  SinAdelantos
  BloqueadoVuelve
CHECK_DEADLOCK FALSE
