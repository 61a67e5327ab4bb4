\* One property at a time: the ones after the first are left as comments.
CONSTANTS
  Nombres = {"a", "b"}
  CantBloques = 3
  TamBloque = 1
  Tamanios = {0, 1}
  Inexistentes = TRUE
  Repetidos = FALSE
  Escritos = {0}
  MaxCaidas = 0
SPECIFICATION Spec
INVARIANT VacioConBloque
\* PROPERTY InexistenteNoToca
CHECK_DEADLOCK FALSE
