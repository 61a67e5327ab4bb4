CONSTANTS
  Programas <- TresProgramas
  InstanciasDe <- DosRecursos
  GradoMax = 2
  GradosPedidos = {1, 2, 3}
  ModSem = 16
  MaxOrdenes = 2
  CarreraConsola = FALSE
  BajaDelGrado = FALSE
  Nulo = Nulo
SPECIFICATION SpecJusta
INVARIANTS
  TypeOK
  InstanciasConservadas
  EsperaFiel
  GradoConservado
  SemaforosFieles
  SinFalla
PROPERTIES
  CumpleFifo
  EsperaTermina
  FinalizarTermina
CHECK_DEADLOCK FALSE
