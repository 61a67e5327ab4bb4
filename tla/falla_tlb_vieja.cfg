CONSTANTS
  Pids = {p1, p2}
  CantMarcos = 6
  TamPagina = 2
  Tamanios = {1, 3}
  Achican = {p1, p2}
  Terminan = {}
  EntradasTlb = 2
  AlgoritmoTlb = "FIFO"
  MaxPedidos = 3
  Nulo = Nulo
SPECIFICATION Spec
INVARIANT
  AccesoDeTodos
CHECK_DEADLOCK FALSE
