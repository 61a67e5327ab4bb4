\* One property at a time: the ones after the first are left as comments.
CONSTANTS
  Pids = {p1, p2}
  CantMarcos = 6
  TamPagina = 2
  Tamanios = {2, 4}
  Achican = {p1, p2}
  Terminan = {}
  EntradasTlb = 0
  AlgoritmoTlb = "FIFO"
  MaxPedidos = 3
  Nulo = Nulo
SPECIFICATION SpecJusta
PROPERTY PedidoRespondido
\* INVARIANT SoloLaDiferencia
CHECK_DEADLOCK FALSE
