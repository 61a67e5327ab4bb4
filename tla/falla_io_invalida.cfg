CONSTANTS
  Algoritmo = "FIFO"
  GradoMax = 2
  Interfaces = {io1}
  Pedidos = {"EXIT", "IO_INVALIDA"}
  MaxProcesos = 2
  MaxOrdenes = 0
  MaxInterrupciones = 0
  CarreraIO = FALSE
  CarreraEstado = TRUE
  CarreraBloqueados = TRUE
  Nulo = Nulo
SPECIFICATION SpecFifoJusta
PROPERTY InvalidaFinaliza
CHECK_DEADLOCK FALSE
