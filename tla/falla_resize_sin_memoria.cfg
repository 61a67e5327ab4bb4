CONSTANTS
  Pids = {p1, p2}
  CantMarcos = 2
  TamPagina = 2
  Tamanios = {1, 5}
  Achican = {p1, p2}
  Terminan = {}
  EntradasTlb = 0
  AlgoritmoTlb = "FIFO"
  MaxPedidos = 3
  Nulo = Nulo
SPECIFICATION Spec
INVARIANT CpuAtenta
CHECK_DEADLOCK FALSE
