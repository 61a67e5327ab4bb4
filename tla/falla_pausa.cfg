\* One property at a time: the ones after the first are left as comments.
CONSTANTS
  Algoritmo = "FIFO"
  GradoMax = 2
  Interfaces = {io1}
  Pedidos = {"EXIT"}
  MaxProcesos = 2
  MaxOrdenes = 1
  MaxInterrupciones = 0
  CarreraIO = FALSE
  CarreraEstado = TRUE
  CarreraBloqueados = TRUE
  Nulo = Nulo
SPECIFICATION SpecFifoJusta
PROPERTY IniciarReanuda
\* INVARIANT SoloDosSePausan
CHECK_DEADLOCK FALSE
