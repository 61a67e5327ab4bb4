CONSTANTS
  Nombres = {"a", "b"}
  CantBloques = 3
  TamBloque = 2
  Tamanios = {2}
  Inexistentes = FALSE
  Repetidos = FALSE
  Escritos = {0}
  MaxCaidas = 2
SPECIFICATION Spec
PROPERTY EscritoConBloque
