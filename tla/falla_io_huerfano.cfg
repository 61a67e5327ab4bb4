CONSTANTS
  Algoritmo = "FIFO"
  GradoMax = 2
  Interfaces = {io1}
  Pedidos = {"EXIT", "IO"}
  MaxProcesos = 2
  MaxOrdenes = 0
  MaxInterrupciones = 0
  CarreraIO = TRUE
  CarreraEstado = TRUE
  CarreraBloqueados = TRUE
  Nulo = Nulo
SPECIFICATION SpecFifoJusta
PROPERTY BloqueadoVuelve
CHECK_DEADLOCK FALSE
