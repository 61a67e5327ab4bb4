CONSTANTS
  Algoritmo = "FIFO"
  GradoMax = 2
  Interfaces = {io1, io2}
  Pedidos = {"EXIT", "IO"}
  MaxProcesos = 2
  MaxOrdenes = 0
  MaxInterrupciones = 0
  CarreraIO = FALSE
  CarreraEstado = FALSE
  CarreraBloqueados = TRUE
  Nulo = Nulo
SYMMETRY SimetriaInterfaces
SPECIFICATION Spec
INVARIANT UnaSolaCola
CHECK_DEADLOCK FALSE
