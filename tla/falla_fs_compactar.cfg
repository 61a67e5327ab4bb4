CONSTANTS
  Nombres = {"a", "b", "c"}
  CantBloques = 5
  TamBloque = 1
  Tamanios = {1, 2}
  Inexistentes = FALSE
  Repetidos = FALSE
  Escritos = {0}
  MaxCaidas = 0
SPECIFICATION Spec
INVARIANT LecturaFiel
