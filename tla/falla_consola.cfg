\* One property at a time: the ones after the first are left as comments.
CONSTANTS
  Programas <- TresProgramas
  InstanciasDe <- DosRecursos
  GradoMax = 3
  GradosPedidos = {1, 2, 3}
  ModSem = 16
  MaxOrdenes = 2
  CarreraConsola = TRUE
  BajaDelGrado = FALSE
  Nulo = Nulo
SPECIFICATION SpecJusta
INVARIANT InstanciasConservadas
\* INVARIANT EsperaFiel
\* INVARIANT SinFalla
\* INVARIANT SemaforosFieles
\* INVARIANT GradoConservado
\* PROPERTY FinalizarTermina
CHECK_DEADLOCK FALSE
