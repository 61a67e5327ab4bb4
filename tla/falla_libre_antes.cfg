CONSTANTS
  Algoritmo = "FIFO"
  GradoMax = 3
  Interfaces = {io1, io2}
  Pedidos = {"EXIT", "IO"}
  MaxProcesos = 2
  MaxOrdenes = 0
  MaxInterrupciones = 0
  CarreraIO = FALSE
  CarreraEstado = TRUE
  CarreraBloqueados = TRUE
  Nulo = Nulo
SYMMETRY SimetriaInterfaces
SPECIFICATION Spec
INVARIANT SinFalla
CHECK_DEADLOCK FALSE
