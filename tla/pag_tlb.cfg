CONSTANTS
  Pids = {p1, p2}
  CantMarcos = 6
  TamPagina = 2
  Tamanios = {1, 3}
  Achican = {p2}
  Terminan = {}
  EntradasTlb = 2
  AlgoritmoTlb = "LRU"
  MaxPedidos = 3
  Nulo = Nulo
SPECIFICATION SpecJusta
INVARIANT
  AccesoPropio
PROPERTIES
  UltimaQueda
  PedidoRespondido
CHECK_DEADLOCK FALSE
