CONSTANTS
  Algoritmo = "RR"
  GradoMax = 2
  Interfaces = {io1}
  Pedidos = {"EXIT", "IO"}
  MaxProcesos = 2
  MaxOrdenes = 0
  MaxInterrupciones = 1
  CarreraIO = TRUE
  CarreraEstado = TRUE
  CarreraBloqueados = TRUE
  Nulo = Nulo
SPECIFICATION SpecJusta
PROPERTY ListoEjecuta
CHECK_DEADLOCK FALSE
