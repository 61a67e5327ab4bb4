CONSTANTS
  Programas <- TresProgramas
  InstanciasDe <- DosRecursos
  GradoMax = 2
  GradosPedidos = {}
  ModSem = 16
  MaxOrdenes = 1
  CarreraConsola = FALSE
  BajaDelGrado = FALSE
  Nulo = Nulo
SPECIFICATION SpecJusta
PROPERTY
  FinalizarSiempreTermina
CHECK_DEADLOCK FALSE
