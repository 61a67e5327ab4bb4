\* One property at a time: the ones after the first are left as comments.
CONSTANTS
  Pids = {p1, p2}
  CantMarcos = 4
  TamPagina = 2
  Tamanios = {0, 1, 3}
  Achican = {p1, p2}
  Terminan = {p1}
  EntradasTlb = 0
  AlgoritmoTlb = "FIFO"
  MaxPedidos = 3
  Nulo = Nulo
SPECIFICATION Spec
INVARIANT MarcosDevueltos
\* INVARIANT NuloSoloSiEliminado
CHECK_DEADLOCK FALSE
