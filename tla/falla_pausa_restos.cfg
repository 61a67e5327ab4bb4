CONSTANTS
  Algoritmo = "VRR"
  GradoMax = 2
  Interfaces = {io1}
  Pedidos = {"EXIT"}
  MaxProcesos = 2
  MaxOrdenes = 1
  MaxInterrupciones = 1
  CarreraIO = FALSE
  CarreraEstado = TRUE
  CarreraBloqueados = TRUE
  Nulo = Nulo
SPECIFICATION Spec
INVARIANT PausaSinRestos
CHECK_DEADLOCK FALSE
