CONSTANTS
  Algoritmo = "RR"
  GradoMax = 2
  Interfaces = {io1}
  Pedidos = {"EXIT"}
  MaxProcesos = 2
  MaxOrdenes = 0
  MaxInterrupciones = 1
  CarreraIO = FALSE
  CarreraEstado = TRUE
  CarreraBloqueados = FALSE
  Nulo = Nulo
SPECIFICATION Spec
INVARIANT EstadoFiel
CHECK_DEADLOCK FALSE
