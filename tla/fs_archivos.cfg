CONSTANTS
  Nombres = {"a", "b", "c"}
  CantBloques = 4
  TamBloque = 2
  Tamanios = {2, 4, 6}
  Inexistentes = TRUE
  Repetidos = FALSE
  Escritos = {}
  MaxCaidas = 0
SPECIFICATION Spec
INVARIANTS
  TypeOK
  BitmapFiel
  MetadataGuardada
