CONSTANTS
  Algoritmo = "VRR"
  GradoMax = 2
  Interfaces = {io1}
  Pedidos = {"EXIT", "IO"}
  MaxProcesos = 2
  MaxOrdenes = 1
  MaxInterrupciones = 1
  CarreraIO = FALSE
  CarreraEstado = TRUE
  CarreraBloqueados = TRUE
  Nulo = Nulo
SPECIFICATION Spec
INVARIANTS
  TypeOK
  SemaforosFieles
  CpuExclusiva
  UnaSolaCola
  GradoConservado
  UnSoloQuantum
PROPERTY CumpleDiagrama
CHECK_DEADLOCK FALSE
