CONSTANTS
  Programas <- TresProgramas
  InstanciasDe <- DosRecursos
  GradoMax = 2
  GradosPedidos = {1, 2, 3}
  ModSem = 16
  MaxOrdenes = 2
  CarreraConsola = FALSE
  BajaDelGrado = TRUE
  Nulo = Nulo
SPECIFICATION Spec
PROPERTY
  AdmiteConLugar
CHECK_DEADLOCK FALSE
