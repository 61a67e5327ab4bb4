------------------------------- MODULE DialFS -------------------------------
(***************************************************************************)
(* The file system of the DialFS interface: entradasalida/src/io.c.        *)
(* Files take contiguous blocks; bitmap.dat and bloques.dat are mapped in  *)
(* memory and survive the program, like the metadata file of each file;    *)
(* lista_global_archivos_abiertos is rebuilt from them when it starts.     *)
(*                                                                         *)
(* The program serves one operation at a time.  An operation is split      *)
(* where something reaches the disk, so that the program may be killed     *)
(* between two writes; config_save, of the commons, is one.  Lengths are   *)
(* in bytes, positions and offsets in blocks.  An operation that the code  *)
(* refuses changes nothing, and is not an action.                          *)
(***************************************************************************)
EXTENDS Integers, FiniteSets, SequencesExt

CONSTANTS
  Nombres,       \* names of files
  CantBloques,   \* BLOCK_COUNT
  TamBloque,     \* BLOCK_SIZE
  Tamanios,      \* sizes given to IO_FS_TRUNCATE
  Inexistentes,  \* programs name files that do not exist
  Repetidos,     \* programs create files that exist
  Escritos,      \* bound: parts of a file, in blocks, that programs write
  MaxCaidas      \* bound: times the program is killed

Bloques == 0..CantBloques - 1

ASSUME NombresFinitos == IsFiniteSet(Nombres)
ASSUME DiscoAssumption == CantBloques \in Nat /\ TamBloque \in Nat \ {0}
ASSUME TamaniosAssumption == Tamanios \subseteq Nat
ASSUME ProgramasAssumption == Inexistentes \in BOOLEAN /\ Repetidos \in BOOLEAN
ASSUME CotasAssumption == MaxCaidas \in Nat /\ Escritos \subseteq Bloques

VARIABLES
  bitmap,      \* bitmap.dat: blocks taken
  bloquesmap,  \* bloques.dat: in each block, what file and which part of it
  metadata,    \* directory metadata: BLOQUE_INICIAL and TAMANIO_ARCHIVO
  archivos,    \* lista_global_archivos_abiertos
  op,          \* the operation under way
  paralelo,    \* bloquesmap_paralelo
  viva,        \* the program is running
  caidas,
  escrito      \* history: the parts of files that programs wrote

disco == <<bitmap, bloquesmap, metadata>>
vars == <<disco, archivos, op, paralelo, viva, caidas, escrito>>

Vacio == <<>>
SinArchivo == [ini |-> -1, tam |-> -1]
Datos(i, t) == [ini |-> i, tam |-> t]
Archivo(n, i, t) == [nombre |-> n, ini |-> i, tam |-> t]
DatosDe(a) == Datos(a.ini, a.tam)

\* A metadata file that is empty: it has no keys, and config_get_int_value of
\* one of them kills the program.
SinClaves == Datos(-2, 0)
Legible(a) == a.ini # -2

Ociosa == [paso |-> "ociosa", k |-> 0, tam |-> 0, nuevos |-> 0, i |-> 0, ultimo |-> 0, offset |-> 0]
Libre == viva /\ op.paso = "ociosa"
Sigue(paso) == op' = [op EXCEPT !.paso = paso]

Init ==
  /\ bitmap = [b \in Bloques |-> FALSE]
  /\ bloquesmap = [b \in Bloques |-> Vacio]
  /\ metadata = [n \in Nombres |-> SinArchivo]
  /\ archivos = <<>>
  /\ op = Ociosa
  /\ paralelo = [b \in Bloques |-> Vacio]
  /\ viva = TRUE
  /\ caidas = 0
  /\ escrito = {}

Techo(t) == (t + TamBloque - 1) \div TamBloque

\* A file of size 0 has one block.
CantidadDe(t) == IF t = 0 THEN 1 ELSE Techo(t)
Extension(a) == a.ini..a.ini + CantidadDe(a.tam) - 1

Existe(n) == \E k \in DOMAIN archivos : archivos[k].nombre = n

\* obtener_archivo_con_nombre: without the name, the last one of the list.
Buscado(n) ==
  LET con == {k \in DOMAIN archivos : archivos[k].nombre = n}
  IN IF con = {} THEN Len(archivos) ELSE CHOOSE k \in con : \A j \in con : k <= j

\* config_set_value and config_save of one file of the list, in each of the
\* operations that save (io.c:628, 776, 798, 863, 892, 917, 1131).
Guardar(k, d) ==
  /\ archivos' = [archivos EXCEPT ![k] = Archivo(@.nombre, d.ini, d.tam)]
  /\ metadata' = [metadata EXCEPT ![archivos[k].nombre] = d]

(***************************************************************************)
(* IO_FS_CREATE.                                                           *)
(***************************************************************************)
BloquesLibres == {b \in Bloques : ~bitmap[b]}

\* fopen of crear_metadata.  The list, that nobody reads before the end of
\* the operation, has the file already.
FsCreate(n) ==
  /\ Libre /\ BloquesLibres # {}
  /\ Repetidos \/ ~Existe(n)
  /\ metadata' = [metadata EXCEPT ![n] = SinClaves]
  /\ archivos' = Append(archivos, Archivo(n, SinClaves.ini, SinClaves.tam))
  /\ op' = [Ociosa EXCEPT !.paso = "crea", !.k = Len(archivos) + 1]
  /\ escrito' = {e \in escrito : e[1] # n}
  /\ UNCHANGED <<bitmap, bloquesmap, paralelo, viva, caidas>>

\* config_save of crear_metadata.
CrearMetadata ==
  /\ op.paso = "crea"
  /\ Guardar(op.k, Datos(-1, 0))
  /\ Sigue("asigna")
  /\ UNCHANGED <<bitmap, bloquesmap, paralelo, viva, caidas, escrito>>

\* obtener_indice_bloque_libre: takes the first one.
AsignarBloque ==
  /\ op.paso = "asigna"
  /\ LET i == CHOOSE b \in BloquesLibres : \A c \in BloquesLibres : b <= c
     IN /\ bitmap' = [bitmap EXCEPT ![i] = TRUE]
        /\ op' = [op EXCEPT !.paso = "guarda_inicial", !.ultimo = i]
  /\ UNCHANGED <<bloquesmap, metadata, archivos, paralelo, viva, caidas, escrito>>

\* Mutation: config_set_value without config_save.
GuardarInicialSinSave ==
  /\ op.paso = "guarda_inicial"
  /\ archivos' = [archivos EXCEPT ![op.k].ini = op.ultimo]
  /\ op' = Ociosa
  /\ UNCHANGED <<disco, paralelo, viva, caidas, escrito>>

GuardarInicial ==
  /\ op.paso = "guarda_inicial"
  /\ Guardar(op.k, Datos(op.ultimo, archivos[op.k].tam))
  /\ op' = Ociosa
  /\ UNCHANGED <<bitmap, bloquesmap, paralelo, viva, caidas, escrito>>

(***************************************************************************)
(* IO_FS_TRUNCATE.                                                         *)
(***************************************************************************)
Pide(n) == Libre /\ archivos # <<>> /\ (Inexistentes \/ Existe(n))
Nombra(n) == Pide(n) /\ Legible(archivos[Buscado(n)])

\* Mutation: the bit of the last block stays on.
BitsSinUltimo(desde, hasta) == desde..hasta - 1

\* The bits that reducir_tamanio clears.
BitsALimpiar(desde, hasta) == desde..hasta

\* Integer division: a last block that is not full does not count.
ReducirTamanio(n, t) ==
  /\ Nombra(n)
  /\ LET k == Buscado(n)
         a == archivos[k]
         quedan == t \div TamBloque
         antes == a.tam \div TamBloque
     IN /\ t < a.tam /\ quedan # antes
        /\ bitmap' = [b \in Bloques |->
                        bitmap[b] /\ b \notin BitsALimpiar(a.ini + quedan, a.ini + antes - 1)]
        /\ escrito' = {e \in escrito : e[1] = a.nombre => e[2] < Techo(t)}
        /\ op' = [Ociosa EXCEPT !.paso = "guarda_tamanio", !.k = k, !.tam = t]
  /\ UNCHANGED <<bloquesmap, metadata, archivos, paralelo, viva, caidas>>

\* Blocks that ampliar_tamanio needs after the last one of the file.
Nuevos(a, t) == Techo(t) - CantidadDe(a.tam)
Contiguos(a, t) == a.ini + CantidadDe(a.tam)..a.ini + Techo(t) - 1
HayContiguos(a, t) == Contiguos(a, t) \subseteq BloquesLibres

\* The blocks after the file are free, or are not needed.
AmpliarContiguo(n, t) ==
  /\ Nombra(n)
  /\ LET k == Buscado(n)
         a == archivos[k]
     IN /\ t >= a.tam /\ Nuevos(a, t) >= 0 /\ HayContiguos(a, t)
        /\ bitmap' = [b \in Bloques |-> bitmap[b] \/ b \in Contiguos(a, t)]
        /\ bloquesmap' = [b \in Bloques |-> IF b \in Contiguos(a, t) THEN Vacio ELSE bloquesmap[b]]
        /\ op' = [Ociosa EXCEPT !.paso = "guarda_tamanio", !.k = k, !.tam = t]
  /\ UNCHANGED <<metadata, archivos, paralelo, viva, caidas, escrito>>

\* There are enough, elsewhere: compactar_y_asignar.
AmpliarCompactando(n, t) ==
  /\ Nombra(n)
  /\ LET k == Buscado(n)
         a == archivos[k]
     IN /\ t >= a.tam /\ Nuevos(a, t) > 0 /\ ~HayContiguos(a, t)
        /\ Cardinality(BloquesLibres) >= Nuevos(a, t)
        /\ op' = [Ociosa EXCEPT !.paso = "copia", !.k = k, !.tam = t,
                                !.nuevos = Nuevos(a, t), !.i = 1]
  /\ paralelo' = [b \in Bloques |-> Vacio]
  /\ UNCHANGED <<disco, archivos, viva, caidas, escrito>>

\* Mutation: the size is saved in blocks.
GuardarTamanioEnBloques ==
  /\ op.paso = "guarda_tamanio"
  /\ Guardar(op.k, Datos(archivos[op.k].ini, Techo(op.tam)))
  /\ op' = Ociosa
  /\ UNCHANGED <<bitmap, bloquesmap, paralelo, viva, caidas, escrito>>

GuardarTamanio ==
  /\ op.paso = "guarda_tamanio"
  /\ Guardar(op.k, Datos(archivos[op.k].ini, op.tam))
  /\ op' = Ociosa
  /\ UNCHANGED <<bitmap, bloquesmap, paralelo, viva, caidas, escrito>>

(***************************************************************************)
(* Compaction.                                                             *)
(***************************************************************************)
\* What a memcpy outside of the mapping finds.
Basura == <<"basura">>

\* memcpy of the blocks of a to the place after the last one copied.  The
\* offset of the origin adds up from file to file.
Copiar(a) ==
  LET desde == op.offset + a.ini
  IN paralelo' = [b \in Bloques |->
                    IF b \in op.ultimo..op.ultimo + CantidadDe(a.tam) - 1
                      THEN IF desde + b - op.ultimo \in Bloques
                             THEN bloquesmap[desde + b - op.ultimo] ELSE Basura
                      ELSE paralelo[b]]

\* recrear_bloquesmap, one file at a time; the one that grows, at the end.
CopiarArchivo ==
  /\ op.paso = "copia" /\ op.i <= Len(archivos) /\ Legible(archivos[op.i])
  /\ archivos[op.i].nombre # archivos[op.k].nombre
  /\ LET a == archivos[op.i]
     IN /\ Copiar(a)
        /\ Guardar(op.i, Datos(op.ultimo, a.tam))
        /\ op' = [op EXCEPT !.i = @ + 1, !.ultimo = @ + CantidadDe(a.tam), !.offset = @ + a.ini]
  /\ UNCHANGED <<bitmap, bloquesmap, viva, caidas, escrito>>

SaltarArchivo ==
  /\ op.paso = "copia" /\ op.i <= Len(archivos)
  /\ archivos[op.i].nombre = archivos[op.k].nombre
  /\ op' = [op EXCEPT !.i = @ + 1]
  /\ UNCHANGED <<disco, archivos, paralelo, viva, caidas, escrito>>

CopiarAmpliado ==
  /\ op.paso = "copia" /\ op.i > Len(archivos)
  /\ LET a == archivos[op.k]
     IN /\ Copiar(a)
        /\ Guardar(op.k, Datos(op.ultimo, a.tam))
        /\ op' = [op EXCEPT !.paso = "pisa", !.ultimo = @ + CantidadDe(a.tam) + op.nuevos]
  /\ UNCHANGED <<bitmap, bloquesmap, viva, caidas, escrito>>

PisarBloques ==
  /\ op.paso = "pisa"
  /\ bloquesmap' = paralelo
  /\ paralelo' = [b \in Bloques |-> Vacio]
  /\ Sigue("bits")
  /\ UNCHANGED <<bitmap, metadata, archivos, viva, caidas, escrito>>

PisarBitmap ==
  /\ op.paso = "bits"
  /\ bitmap' = [b \in Bloques |-> b < op.ultimo]
  /\ Sigue("guarda_tamanio")
  /\ UNCHANGED <<bloquesmap, metadata, archivos, paralelo, viva, caidas, escrito>>

(***************************************************************************)
(* IO_FS_DELETE, IO_FS_WRITE.                                              *)
(***************************************************************************)
\* Mutation: the metadata file stays.
FsDeleteSinBorrar(n) ==
  /\ Libre /\ Existe(n) /\ Legible(archivos[Buscado(n)])
  /\ LET k == Buscado(n)
     IN /\ op' = [Ociosa EXCEPT !.paso = "libera", !.ultimo = archivos[k].ini, !.tam = archivos[k].tam]
        /\ archivos' = RemoveAt(archivos, k)
  /\ escrito' = {e \in escrito : e[1] # n}
  /\ UNCHANGED <<disco, paralelo, viva, caidas>>

\* The metadata file goes first, then the entry of the list.
FsDelete(n) ==
  /\ Libre /\ Existe(n) /\ Legible(archivos[Buscado(n)])
  /\ LET k == Buscado(n)
     IN /\ op' = [Ociosa EXCEPT !.paso = "libera", !.ultimo = archivos[k].ini, !.tam = archivos[k].tam]
        /\ archivos' = RemoveAt(archivos, k)
  /\ metadata' = [metadata EXCEPT ![n] = SinArchivo]
  /\ escrito' = {e \in escrito : e[1] # n}
  /\ UNCHANGED <<bitmap, bloquesmap, paralelo, viva, caidas>>

\* Mutation: the loop goes one block too far.
LiberarEspacioDeMas ==
  /\ op.paso = "libera"
  /\ bitmap' = [b \in Bloques |-> bitmap[b] /\ b \notin op.ultimo..op.ultimo + CantidadDe(op.tam)]
  /\ op' = Ociosa
  /\ UNCHANGED <<bloquesmap, metadata, archivos, paralelo, viva, caidas, escrito>>

\* liberar_espacio_en_disco.  The bit -1 of a file without a block is none.
LiberarEspacio ==
  /\ op.paso = "libera"
  /\ bitmap' = [b \in Bloques |-> bitmap[b] /\ b \notin Extension(Datos(op.ultimo, op.tam))]
  /\ op' = Ociosa
  /\ UNCHANGED <<bloquesmap, metadata, archivos, paralelo, viva, caidas, escrito>>

\* A program writes inside the size it gave to the file.
EnTamanio(n, j) == Nombra(n) /\ j * TamBloque < archivos[Buscado(n)].tam
BloqueDe(n, j) == archivos[Buscado(n)].ini + j

\* When the file has no block, the memcpy goes below bloquesmap: the last of
\* the two files that were mapped, so that it finds no block and no bit.  It
\* is lost, or it kills the program.
FsWrite(n, j) ==
  /\ EnTamanio(n, j)
  /\ bloquesmap' = [b \in Bloques |-> IF b = BloqueDe(n, j) THEN <<n, j>> ELSE bloquesmap[b]]
  /\ escrito' = escrito \cup {<<n, j>>}
  /\ UNCHANGED <<bitmap, metadata, archivos, op, paralelo, viva, caidas>>

(***************************************************************************)
(* The program ends: exit(EXIT_FAILURE) on a name that is not in an empty  *)
(* list, a buffer destroyed twice by a DELETE that finds nothing (it may   *)
(* also go unnoticed), or somebody kills it.                               *)
(***************************************************************************)
Terminar ==
  /\ viva' = FALSE /\ op' = Ociosa /\ archivos' = <<>>
  /\ UNCHANGED <<disco, paralelo, escrito>>

FsWriteAfuera(n, j) ==
  EnTamanio(n, j) /\ BloqueDe(n, j) \notin Bloques /\ Terminar /\ UNCHANGED caidas

\* A truncation, a write or a compaction reads the keys of k.
LeeClaves(k) ==
  \/ \E n \in Nombres : Pide(n) /\ k = Buscado(n)
  \/ op.paso = "copia" /\ k = op.i /\ archivos[k].nombre # archivos[op.k].nombre
SinClavesTermina ==
  /\ \E k \in DOMAIN archivos : LeeClaves(k) /\ ~Legible(archivos[k])
  /\ Terminar /\ UNCHANGED caidas

\* A deletion removes the metadata file before it reads the keys.
FsDeleteSinClaves(n) ==
  /\ Libre /\ Existe(n) /\ ~Legible(archivos[Buscado(n)])
  /\ metadata' = [metadata EXCEPT ![n] = SinArchivo]
  /\ viva' = FALSE /\ op' = Ociosa /\ archivos' = <<>>
  /\ UNCHANGED <<bitmap, bloquesmap, paralelo, caidas, escrito>>

FsInexistente == Libre /\ Inexistentes /\ (\E n \in Nombres : ~Existe(n)) /\ Terminar /\ UNCHANGED caidas

Caida == viva /\ caidas < MaxCaidas /\ Terminar /\ caidas' = caidas + 1

\* levantar_archivos: in the order of the directory, which is any.
Reiniciar ==
  /\ ~viva
  /\ viva' = TRUE
  /\ archivos' \in SetToSeqs({Archivo(n, metadata[n].ini, metadata[n].tam) :
                                n \in {m \in Nombres : metadata[m] # SinArchivo}})
  /\ UNCHANGED <<disco, op, paralelo, caidas, escrito>>

Operacion ==
  \/ \E n \in Nombres :
       \/ FsCreate(n) \/ FsDelete(n) \/ FsDeleteSinClaves(n)
       \/ \E t \in Tamanios : ReducirTamanio(n, t) \/ AmpliarContiguo(n, t) \/ AmpliarCompactando(n, t)
       \/ \E j \in Escritos : FsWrite(n, j) \/ FsWriteAfuera(n, j)
  \/ CrearMetadata \/ AsignarBloque \/ GuardarInicial \/ GuardarTamanio
  \/ CopiarArchivo \/ SaltarArchivo \/ CopiarAmpliado \/ PisarBloques \/ PisarBitmap
  \/ LiberarEspacio \/ SinClavesTermina

Next == Operacion \/ FsInexistente \/ Caida \/ Reiniciar

Spec == Init /\ [][Next]_vars

(***************************************************************************)
(* Properties.                                                             *)
(***************************************************************************)
TipoDatos == [ini : Bloques \cup {-1, -2}, tam : Tamanios \cup {0}]

\* Every variable keeps its type: no file starts outside of the disk.
TypeOK ==
  /\ bitmap \in [Bloques -> BOOLEAN]
  /\ DOMAIN bloquesmap = Bloques
  /\ metadata \in [Nombres -> TipoDatos \cup {SinArchivo}]
  /\ \A k \in DOMAIN archivos : archivos[k].nombre \in Nombres /\ DatosDe(archivos[k]) \in TipoDatos
  /\ op.paso \in {"ociosa", "crea", "asigna", "guarda_inicial", "guarda_tamanio", "copia", "pisa",
                  "bits", "libera"}
  /\ viva \in BOOLEAN /\ caidas \in 0..MaxCaidas

Duenios(b) == {k \in DOMAIN archivos : b \in Extension(archivos[k])}

\* Between operations a block is taken exactly when one file has it: no two
\* files share a block and none is lost, however files are created, deleted,
\* truncated and compacted.
BitmapFiel ==
  Libre => \A b \in Bloques : Cardinality(Duenios(b)) = IF bitmap[b] THEN 1 ELSE 0

\* Between operations the metadata directory says the same as the list, so
\* that starting again finds the same files.
MetadataGuardada ==
  Libre => \A n \in Nombres :
             IF Existe(n) THEN metadata[n] = DatosDe(archivos[Buscado(n)])
                          ELSE metadata[n] = SinArchivo

\* Killed at any moment of a creation or a deletion, the file system may lose
\* a block but gives no block to two files.
SinSolapes ==
  Libre => \A b \in Bloques : /\ Cardinality(Duenios(b)) <= 1
                              /\ Duenios(b) # {} => bitmap[b]

(***************************************************************************)
(* What comments of the code say, and the code does not do.                *)
(***************************************************************************)
\* Compaction and everything else keep what was written in each file that has
\* a block.
LecturaFiel ==
  Libre => \A n \in Nombres, j \in Bloques :
             <<n, j>> \in escrito /\ Existe(n) /\ BloqueDe(n, 0) >= 0 =>
               bloquesmap[BloqueDe(n, j)] = <<n, j>>

\* io.c:1131, -1 says that the file has no block: a program that is told that
\* its write was done wrote in one.
EscritoConBloque ==
  [][\A n \in Nombres, j \in Bloques :
       <<n, j>> \in escrito' \ escrito => BloqueDe(n, j) \in Bloques]_vars

\* A file of size 0 has a block.
VacioConBloque ==
  Libre => \A k \in DOMAIN archivos :
             archivos[k].tam = 0 /\ archivos[k].ini >= 0 => bitmap[archivos[k].ini]

\* An operation on a name that does not exist leaves the files as they are.
InexistenteNoToca ==
  [][\A n \in Nombres, j \in Bloques :
       <<n, j>> \in escrito' \ escrito => Existe(n)]_vars
=============================================================================
