CONSTANTS
  Programas <- SinDevolver
  InstanciasDe <- DosRecursos
  GradoMax = 2
  GradosPedidos = {1, 2, 3}
  ModSem = 16
  MaxOrdenes = 0
  CarreraConsola = FALSE
  BajaDelGrado = FALSE
  Nulo = Nulo
SPECIFICATION Spec
INVARIANT
  RecursosDevueltos
CHECK_DEADLOCK FALSE
