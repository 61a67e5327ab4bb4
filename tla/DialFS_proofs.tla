--------------------------- MODULE DialFS_proofs ---------------------------
(***************************************************************************)
(* What DialFS keeps, proved for any names, any number and size of blocks  *)
(* and any files: the list, the metadata directory, the bitmap and, with   *)
(* files of a block, their data.                                           *)
(*                                                                         *)
(* A name has a zone: the blocks of its file, or the ones it is about to   *)
(* have when the operation under way ends.  Zones are disjoint and the     *)
(* bitmap is their union, except in a compaction, where what is copied     *)
(* fills the start of the disk and what is left to copy still fits.        *)
(***************************************************************************)
EXTENDS DialFS, FiniteSetTheorems, Secuencias_lemas, TLAPS

\* What is asked of programs.  Sizes fill their blocks: reducir_tamanio and
\* ampliar_tamanio round the others in different ways.  Nobody creates a file
\* that exists: its metadata would be overwritten, its entry repeated.  And
\* the program is killed only if files have a block: a size that is lost
\* with its bits already changed, or half a compaction, cannot be undone.
Llenos == \A t \in Tamanios : \E q \in Nat \ {0} : t = q * TamBloque
DeUnBloque == Tamanios \subseteq {TamBloque}
Uso == ~Repetidos /\ Llenos /\ (MaxCaidas = 0 \/ DeUnBloque)

\* An entry of lista_global_archivos_abiertos, and the operation under way.
Inicios == Bloques \cup {-1, -2}
Entrada == [nombre : Nombres, ini : Inicios, tam : Tamanios \cup {0}]
Pasos == {"ociosa", "crea", "asigna", "guarda_inicial", "guarda_tamanio", "copia", "pisa", "bits",
          "libera"}
Operaciones == [paso : Pasos, k : Nat, tam : Tamanios \cup {0}, nuevos : Int, i : Nat,
                ultimo : Int, offset : Int]

\* The operation, when it is on a file of the list, is on one that is there.
TipoOp ==
  /\ op \in Operaciones
  /\ op.paso \notin {"ociosa", "libera"} => op.k \in DOMAIN archivos
  /\ op.paso = "guarda_inicial" => op.ultimo \in Bloques
  /\ ~viva => op.paso = "ociosa"

Tipos == TypeOK /\ archivos \in Seq(Entrada) /\ TipoOp

\* The names with a metadata file.
Presentes == {n \in Nombres : metadata[n] # SinArchivo}

\* The list is the directory: each file once, with the data that was saved.
Lista ==
  viva =>
    /\ \A j, l \in DOMAIN archivos : archivos[j].nombre = archivos[l].nombre => j = l
    /\ \A j \in DOMAIN archivos : metadata[archivos[j].nombre] = DatosDe(archivos[j])
    /\ \A n \in Presentes : Existe(n)

\* The operation under way is on the file n.
EsDe(n) == n = archivos[op.k].nombre

\* The data of a file when the operation under way ends: a config_save that
\* is still to come counts.
Previsto(n) ==
  IF op.paso = "guarda_inicial" /\ EsDe(n) THEN Datos(op.ultimo, metadata[n].tam)
  ELSE IF op.paso \in {"pisa", "bits", "guarda_tamanio"} /\ EsDe(n) THEN Datos(metadata[n].ini, op.tam)
  ELSE metadata[n]

\* The blocks of each file; those of the file that is being deleted; and the
\* bitmap, as it will be if a compaction is about to overwrite it.
Zona == [n \in Nombres |-> IF n \in Presentes THEN Extension(Previsto(n)) \cap Bloques ELSE {}]
Sueltos == IF op.paso = "libera" THEN Extension(Datos(op.ultimo, op.tam)) \cap Bloques ELSE {}
Tomados == IF op.paso \in {"pisa", "bits"} THEN {b \in Bloques : b < op.ultimo} ELSE {b \in Bloques : bitmap[b]}

\* Zones z are disjoint and, with the loose blocks s, they are the taken ones
\* t; a program that is killed leaves blocks taken that nobody has.
Reparte(z, s, t) ==
  /\ \A n, m \in Nombres : n # m => z[n] \cap z[m] = {}
  /\ \A n \in Nombres : z[n] \subseteq t \ s
  /\ s \subseteq t
  /\ MaxCaidas = 0 => t \subseteq s \cup UNION {z[n] : n \in Nombres}

\* Files are inside of the disk; without a block, only while they are created
\* or if the program was killed then.
Enteros ==
  \A n \in Presentes :
    /\ Previsto(n).ini \in {-1, -2} \/ Extension(Previsto(n)) \subseteq Bloques
    /\ MaxCaidas = 0 /\ Previsto(n).ini \in {-1, -2} => op.paso \in {"crea", "asigna"} /\ EsDe(n)

\* In a compaction zones overlap: what is copied goes over what is not.
Reparto == op.paso # "copia" => Enteros /\ Reparte(Zona, Sueltos, Tomados)

\* Blocks of each file, and pairs of a file of J and one of its blocks: their
\* number is what the files of J take.
Largos == [j \in DOMAIN archivos |-> CantidadDe(archivos[j].tam)]
Partes(c, J) == {x \in J \X Bloques : x[2] < c[x[1]]}

\* In a compaction: the files copied fill the start of the disk with no gap,
\* so what is left, and the new blocks of the file that grows, still fit.
Copiados == {j \in DOMAIN archivos : j < op.i /\ j # op.k}
Copia ==
  op.paso = "copia" =>
    /\ op.i <= Len(archivos) + 1 /\ op.i > 0 /\ op.nuevos > 0
    /\ CantidadDe(op.tam) = CantidadDe(archivos[op.k].tam) + op.nuevos
    /\ \A j \in DOMAIN archivos : archivos[j].ini \notin {-1, -2} /\ CantidadDe(archivos[j].tam) <= CantBloques
    /\ Cardinality(Partes(Largos, DOMAIN archivos)) + op.nuevos <= CantBloques
    /\ op.ultimo = Cardinality(Partes(Largos, Copiados))
    /\ \A j \in Copiados : Extension(archivos[j]) \subseteq 0..op.ultimo - 1
    /\ \A j, l \in Copiados : j # l => Extension(archivos[j]) \cap Extension(archivos[l]) = {}
    /\ \A b \in 0..op.ultimo - 1 : \E j \in Copiados : b \in Extension(archivos[j])

\* A file that is being created has no block and no size; there is a block
\* for it; and nobody kills the program in the middle of a compaction.
EnCreacion ==
  /\ op.paso = "crea" => DatosDe(archivos[op.k]) = SinClaves
  /\ op.paso \in {"asigna", "guarda_inicial"} => DatosDe(archivos[op.k]) = Datos(-1, 0)
HayLibre == op.paso \in {"crea", "asigna"} => BloquesLibres # {}
Compacta == op.paso \in {"copia", "pisa", "bits"} => MaxCaidas = 0

\* The inductive invariant, and bloquesmap_paralelo, which is as large as the
\* disk that it is copied to.
DInv == Tipos /\ Lista /\ EnCreacion /\ HayLibre /\ Compacta /\ Reparto /\ Copia

Espejo == DOMAIN paralelo = Bloques

\* Each part that a program wrote is inside of its file, in its place if the
\* file has a block; the one that is being created has none yet.
Creando(n) == op.paso \in {"crea", "asigna", "guarda_inicial"} /\ EsDe(n)
EscritoFiel ==
  \A n \in Presentes, j \in Bloques :
    <<n, j>> \in escrito =>
      /\ ~Creando(n) /\ j \in 0..CantidadDe(Previsto(n).tam) - 1
      /\ metadata[n].ini >= 0 => bloquesmap[metadata[n].ini + j] = <<n, j>>

\* Nothing is being compacted.
SinCopia == op.paso \notin {"copia", "pisa", "bits"}

(***************************************************************************)
(* Sizes.                                                                  *)
(***************************************************************************)

LEMMA Multiplo ==
  ASSUME NEW q \in Nat \ {0}
  PROVE  (q * TamBloque) \div TamBloque = q /\ Techo(q * TamBloque) = q
<1> DEFINE b == TamBloque
           t == q * b
<1>1. b \in Nat /\ b > 0 /\ t \in Nat
  BY DiscoAssumption
<1>2. ASSUME NEW r \in Nat, r < b PROVE (t + r) \div b = q
  <2> DEFINE d == (t + r) \div b
  <2>1. d \in Int /\ d * b <= t + r /\ t + r < (d + 1) * b
    BY <1>1, <1>2
  <2> HIDE DEF d
  <2>2. ASSUME d >= q + 1 PROVE FALSE
    <3>1. d * b >= (q + 1) * b
      BY <1>1, <2>1, <2>2
    <3>2. (q + 1) * b = t + b /\ d * b \in Int
      BY <1>1, <2>1
    <3> QED BY <1>1, <1>2, <2>1, <3>1, <3>2
  <2>3. ASSUME d + 1 <= q PROVE FALSE
    <3>1. (d + 1) * b <= q * b
      BY <1>1, <2>1, <2>3
    <3>2. (d + 1) * b \in Int
      BY <1>1, <2>1
    <3> QED BY <1>1, <1>2, <2>1, <3>1, <3>2
  <2>4. d = q
    BY <2>1, <2>2, <2>3
  <2> QED BY <2>4 DEF d
<1>3. (t + 0) \div b = q /\ (t + (b - 1)) \div b = q
  BY <1>1, <1>2
<1>4. t + 0 = t /\ t + (b - 1) = t + b - 1
  BY <1>1
<1> QED BY <1>3, <1>4 DEF Techo

\* Sizes that fill their blocks: the two divisions of the code agree.
LEMMA Cantidades ==
  ASSUME Llenos
  PROVE  /\ CantidadDe(0) = 1 /\ 0 \div TamBloque = 0
         /\ \A t \in Tamanios : /\ t > 0 /\ CantidadDe(t) \in Nat \ {0}
                                /\ Techo(t) = CantidadDe(t) /\ t \div TamBloque = CantidadDe(t)
         /\ \A t, u \in Tamanios : t < u => CantidadDe(t) <= CantidadDe(u)
         /\ DeUnBloque => \A t \in Tamanios : CantidadDe(t) = 1
<1>1. TamBloque \in Nat \ {0} /\ Tamanios \subseteq Nat
  BY DiscoAssumption, TamaniosAssumption
<1>2. ASSUME NEW t \in Tamanios
      PROVE  \E q \in Nat \ {0} : /\ t = q * TamBloque /\ t > 0 /\ CantidadDe(t) = q
                                  /\ Techo(t) = q /\ t \div TamBloque = q
  <2>1. PICK q \in Nat \ {0} : t = q * TamBloque
    BY DEF Llenos
  <2>2. t > 0
    BY <1>1, <2>1
  <2> QED BY <2>1, <2>2, Multiplo DEF CantidadDe
<1>3. ASSUME NEW t \in Tamanios, NEW u \in Tamanios, t < u PROVE CantidadDe(t) <= CantidadDe(u)
  <2>1. PICK q \in Nat \ {0} : t = q * TamBloque /\ CantidadDe(t) = q
    BY <1>2
  <2>2. PICK r \in Nat \ {0} : u = r * TamBloque /\ CantidadDe(u) = r
    BY <1>2
  <2>3. ASSUME q > r PROVE FALSE
    <3>1. q * TamBloque >= r * TamBloque
      BY <1>1, <2>3
    <3> QED BY <1>1, <1>3, <2>1, <2>2, <3>1
  <2> QED BY <2>1, <2>2, <2>3
<1>4. ASSUME DeUnBloque, NEW t \in Tamanios PROVE CantidadDe(t) = 1
  <2>1. t = 1 * TamBloque /\ t # 0
    BY <1>1, <1>2, <1>4 DEF DeUnBloque
  <2> QED BY <2>1, Multiplo DEF CantidadDe
<1>5. CantidadDe(0) = 1
  BY DEF CantidadDe
<1>6. 0 \div TamBloque = 0
  BY <1>1
<1> QED BY <1>2, <1>3, <1>4, <1>5, <1>6

(***************************************************************************)
(* The list of files.                                                      *)
(***************************************************************************)

LEMMA Positivos == \A t \in Tamanios \cup {0} : t \in Nat
BY TamaniosAssumption

LEMMA Busqueda ==
  ASSUME archivos \in Seq(Entrada), archivos # <<>>, NEW n \in Nombres
  PROVE  /\ Buscado(n) \in DOMAIN archivos
         /\ Existe(n) => archivos[Buscado(n)].nombre = n
<1> DEFINE con == {k \in DOMAIN archivos : archivos[k].nombre = n}
<1>1. DOMAIN archivos = 1..Len(archivos) /\ Len(archivos) \in Nat /\ Len(archivos) > 0
  BY EmptySeq
<1>2. CASE con = {}
  <2>1. Buscado(n) = Len(archivos)
    BY <1>2 DEF Buscado
  <2> QED BY <1>1, <1>2, <2>1 DEF Existe
<1>3. CASE con # {}
  <2>1. con \subseteq Nat
    BY <1>1
  <2>2. PICK x \in con : \A y \in con : x <= y
    BY <1>3, <2>1, MinimoNatural
  <2>3. Buscado(n) = CHOOSE k \in con : \A j \in con : k <= j
    BY <1>3 DEF Buscado
  <2> QED BY <2>2, <2>3
<1> QED BY <1>2, <1>3

LEMMA EnCurso ==
  ASSUME Tipos, op.paso \notin {"ociosa", "libera"}
  PROVE  /\ viva /\ op.k \in DOMAIN archivos
         /\ archivos[op.k] \in Entrada /\ archivos[op.k].nombre \in Nombres
         /\ DOMAIN archivos = 1..Len(archivos) /\ Len(archivos) \in Nat
<1>1. archivos \in Seq(Entrada) /\ op.k \in DOMAIN archivos /\ viva
  BY DEF Tipos, TipoOp, TypeOK
<1>2. archivos[op.k] \in Entrada /\ DOMAIN archivos = 1..Len(archivos) /\ Len(archivos) \in Nat
  BY <1>1
<1> QED BY <1>1, <1>2 DEF Entrada

\* The files of the list are the ones of the directory.
LEMMA DeLista ==
  ASSUME Tipos, Lista, viva
  PROVE  /\ \A j \in DOMAIN archivos : /\ archivos[j] \in Entrada /\ archivos[j].nombre \in Presentes
                                       /\ metadata[archivos[j].nombre] = DatosDe(archivos[j])
         /\ \A n \in Nombres : n \in Presentes <=> Existe(n)
         /\ Presentes \subseteq Nombres
<1>1. archivos \in Seq(Entrada)
  BY DEF Tipos
<1>2. ASSUME NEW j \in DOMAIN archivos
      PROVE  /\ archivos[j] \in Entrada /\ archivos[j].nombre \in Presentes
             /\ metadata[archivos[j].nombre] = DatosDe(archivos[j])
  <2>1. archivos[j] \in Entrada
    BY <1>1
  <2>4. archivos[j].tam \in Nat /\ archivos[j].nombre \in Nombres
    BY <2>1, Positivos DEF Entrada
  <2>2. metadata[archivos[j].nombre] = DatosDe(archivos[j])
    BY DEF Lista
  <2>3. DatosDe(archivos[j]) # SinArchivo
    BY <2>4 DEF DatosDe, Datos, SinArchivo
  <2> QED BY <2>1, <2>2, <2>3, <2>4 DEF Presentes
<1> QED BY <1>2 DEF Lista, Presentes, Existe

\* config_save and the entry of the list change together.
LEMMA Guardado ==
  ASSUME Tipos, Lista, viva, viva', NEW j \in DOMAIN archivos,
         NEW i \in Inicios, NEW t \in Tamanios \cup {0}, Guardar(j, Datos(i, t))
  PROVE  /\ archivos' \in Seq(Entrada) /\ DOMAIN archivos' = DOMAIN archivos
         /\ archivos' = [archivos EXCEPT ![j] = Archivo(archivos[j].nombre, i, t)]
         /\ \A l \in DOMAIN archivos : archivos'[l].nombre = archivos[l].nombre
         /\ metadata' \in [Nombres -> TipoDatos \cup {SinArchivo}]
         /\ metadata' = [metadata EXCEPT ![archivos[j].nombre] = Datos(i, t)]
         /\ Presentes' = Presentes /\ archivos[j].nombre \in Presentes
         /\ Lista'
<1> DEFINE n == archivos[j].nombre
           e == Archivo(n, i, t)
<1>1. /\ archivos \in Seq(Entrada) /\ archivos[j] \in Entrada /\ n \in Presentes /\ n \in Nombres
      /\ metadata \in [Nombres -> TipoDatos \cup {SinArchivo}]
  BY DeLista DEF Tipos, TypeOK
<1>2. e \in Entrada /\ e.nombre = n /\ DatosDe(e) = Datos(i, t)
  BY <1>1 DEF Archivo, Entrada, DatosDe, Datos
<1>3. archivos' = [archivos EXCEPT ![j] = e] /\ metadata' = [metadata EXCEPT ![n] = Datos(i, t)]
  BY DEF Guardar, Datos
<1>4. Datos(i, t) \in TipoDatos /\ Datos(i, t) # SinArchivo
  BY Positivos DEF Datos, TipoDatos, SinArchivo, Inicios
<1> HIDE DEF e
<1>5. /\ archivos' \in Seq(Entrada) /\ DOMAIN archivos' = DOMAIN archivos
      /\ archivos'[j] = e /\ \A l \in DOMAIN archivos : l # j => archivos'[l] = archivos[l]
  BY <1>1, <1>2, <1>3
<1>6. \A l \in DOMAIN archivos : archivos'[l].nombre = archivos[l].nombre
  BY <1>2, <1>5
<1>7. /\ metadata' \in [Nombres -> TipoDatos \cup {SinArchivo}]
      /\ metadata'[n] = Datos(i, t) /\ \A m \in Nombres : m # n => metadata'[m] = metadata[m]
  BY <1>1, <1>3, <1>4
<1>8. Presentes' = Presentes
  BY <1>1, <1>4, <1>7 DEF Presentes
<1>9. Lista'
  <2>1. \A l \in DOMAIN archivos : metadata'[archivos'[l].nombre] = DatosDe(archivos'[l])
    <3>1. metadata'[archivos'[j].nombre] = DatosDe(archivos'[j])
      BY <1>2, <1>5, <1>7
    <3>2. ASSUME NEW l \in DOMAIN archivos, l # j
          PROVE  metadata'[archivos'[l].nombre] = DatosDe(archivos'[l])
      <4>1. archivos[l].nombre # n /\ archivos[l].nombre \in Nombres
        BY <3>2, DeLista DEF Lista
      <4> QED BY <1>5, <1>7, <3>2, <4>1, DeLista
    <3> QED BY <3>1, <3>2
  <2>2. \A m \in Presentes' : Existe(m)'
    BY <1>5, <1>6, <1>8, DeLista DEF Existe
  <2> QED BY <1>5, <1>6, <2>1, <2>2 DEF Lista
<1> QED BY <1>1, <1>3, <1>5, <1>6, <1>7, <1>8, <1>9 DEF e

(***************************************************************************)
(* Zones.                                                                  *)
(***************************************************************************)

LEMMA Entradas ==
  ASSUME NEW s \in Seq(Entrada)
  PROVE  \A k \in DOMAIN s : s[k] \in Entrada /\ s[k].nombre \in Nombres /\ DatosDe(s[k]) \in TipoDatos
<1>1. \A k \in DOMAIN s : s[k] \in Entrada
  OBVIOUS
<1>2. \A e \in Entrada : e.nombre \in Nombres /\ DatosDe(e) \in TipoDatos
  BY DEF Entrada, Inicios, DatosDe, Datos, TipoDatos
<1> QED BY <1>1, <1>2

LEMMA BloquesFinitos ==
  /\ IsFiniteSet(Bloques) /\ Cardinality(Bloques) = CantBloques
  /\ Bloques \subseteq Nat /\ CantBloques \in Nat /\ -1 \notin Bloques /\ -2 \notin Bloques
<1>1. CantBloques \in Nat /\ Bloques = 0..CantBloques - 1
  BY DiscoAssumption DEF Bloques
<1>2. IsFiniteSet(0..CantBloques - 1) /\ Cardinality(0..CantBloques - 1) = CantBloques
  BY <1>1, FS_Interval
<1> QED BY <1>1, <1>2

\* A file takes at least a block.
LEMMA Extensiones ==
  ASSUME Llenos, NEW i \in Int, NEW t \in Tamanios \cup {0}
  PROVE  /\ CantidadDe(t) \in Nat \ {0}
         /\ Extension(Datos(i, t)) = i..i + CantidadDe(t) - 1
         /\ i \in Extension(Datos(i, t))
         /\ CantidadDe(t) = 1 => Extension(Datos(i, t)) = {i}
<1>1. CantidadDe(t) \in Nat \ {0}
  BY Cantidades
<1>2. Extension(Datos(i, t)) = i..i + CantidadDe(t) - 1
  BY DEF Extension, Datos
<1> QED BY <1>1, <1>2

\* The operation is over, or did not begin: no zone is being changed.
Quieta == op.paso \in {"ociosa", "crea", "asigna", "libera"}

LEMMA ZonaQuieta ==
  ASSUME Quieta
  PROVE  /\ \A n \in Nombres : Previsto(n) = metadata[n]
         /\ Zona = [n \in Nombres |-> IF n \in Presentes THEN Extension(metadata[n]) \cap Bloques ELSE {}]
<1>1. \A n \in Nombres : Previsto(n) = metadata[n]
  BY DEF Quieta, Previsto
<1> QED BY <1>1 DEF Zona, Presentes

LEMMA ZonaQuietaDespues ==
  ASSUME Quieta'
  PROVE  /\ \A n \in Nombres : Previsto(n)' = metadata'[n]
         /\ Zona' = [n \in Nombres |-> IF n \in Presentes' THEN Extension(metadata'[n]) \cap Bloques ELSE {}]
<1>1. \A n \in Nombres : Previsto(n)' = metadata'[n]
  BY DEF Quieta, Previsto
<1> QED BY <1>1 DEF Zona, Presentes

LEMMA OciosaEs ==
  /\ Ociosa \in Operaciones /\ Ociosa.paso = "ociosa" /\ Ociosa.k = 0 /\ Ociosa.tam = 0
  /\ Ociosa.nuevos = 0 /\ Ociosa.i = 0 /\ Ociosa.ultimo = 0 /\ Ociosa.offset = 0
BY DEF Ociosa, Pasos, Operaciones

\* An operation begins.
LEMMA EmpiezaCrear ==
  ASSUME NEW k \in Nat, op' = [Ociosa EXCEPT !.paso = "crea", !.k = k]
  PROVE  op' \in Operaciones /\ op'.paso = "crea" /\ op'.k = k
BY OciosaEs DEF Operaciones, Pasos

LEMMA EmpiezaTruncar ==
  ASSUME NEW k \in Nat, NEW t \in Tamanios \cup {0},
         op' = [Ociosa EXCEPT !.paso = "guarda_tamanio", !.k = k, !.tam = t]
  PROVE  op' \in Operaciones /\ op'.paso = "guarda_tamanio" /\ op'.k = k /\ op'.tam = t
BY OciosaEs DEF Operaciones, Pasos

LEMMA EmpiezaBorrar ==
  ASSUME NEW u \in Int, NEW t \in Tamanios \cup {0},
         op' = [Ociosa EXCEPT !.paso = "libera", !.ultimo = u, !.tam = t]
  PROVE  op' \in Operaciones /\ op'.paso = "libera" /\ op'.ultimo = u /\ op'.tam = t
BY OciosaEs DEF Operaciones, Pasos

LEMMA EmpiezaCompactar ==
  ASSUME NEW k \in Nat, NEW t \in Tamanios \cup {0}, NEW u \in Int,
         op' = [Ociosa EXCEPT !.paso = "copia", !.k = k, !.tam = t, !.nuevos = u, !.i = 1]
  PROVE  /\ op' \in Operaciones /\ op'.paso = "copia" /\ op'.k = k /\ op'.tam = t /\ op'.nuevos = u
         /\ op'.i = 1 /\ op'.ultimo = 0
BY OciosaEs DEF Operaciones, Pasos

(***************************************************************************)
(* Creation.                                                               *)
(***************************************************************************)

LEMMA PasoCrear ==
  ASSUME DInv, Uso, NEW n \in Nombres, FsCreate(n)
  PROVE  DInv'
<1> DEFINE e == Archivo(n, SinClaves.ini, SinClaves.tam)
           l == Len(archivos)
<1>1. /\ archivos \in Seq(Entrada) /\ viva /\ op.paso = "ociosa" /\ l \in Nat
      /\ metadata \in [Nombres -> TipoDatos \cup {SinArchivo}]
  BY DEF DInv, Tipos, TypeOK, FsCreate, Libre
<1>2. n \notin Presentes
  BY <1>1, DeLista DEF FsCreate, Uso, DInv
<1>3. e \in Entrada /\ DatosDe(e) = SinClaves /\ e.nombre = n
  BY DEF Archivo, Entrada, Inicios, DatosDe, Datos, SinClaves
<1>4. archivos' = Append(archivos, e) /\ metadata' = [metadata EXCEPT ![n] = SinClaves]
  BY DEF FsCreate
<1>5. SinClaves \in TipoDatos /\ SinClaves # SinArchivo /\ SinClaves.ini = -2
  BY DEF Datos, TipoDatos, SinArchivo, SinClaves
<1> HIDE DEF e
<1>6. /\ archivos' \in Seq(Entrada) /\ archivos'[l + 1] = e
      /\ DOMAIN archivos = 1..l /\ DOMAIN archivos' = 1..(l + 1) /\ l + 1 \in Nat
      /\ \A j \in 1..l : archivos'[j] = archivos[j]
  BY <1>1, <1>3, <1>4, AppendProperties
<1>7. /\ op'.paso = "crea" /\ op'.k = l + 1
      /\ op' \in Operaciones
  <2>1. op' = [Ociosa EXCEPT !.paso = "crea", !.k = l + 1]
    BY DEF FsCreate
  <2>2. l + 1 \in Nat
    BY <1>1
  <2> QED BY <2>1, <2>2, EmpiezaCrear, Zenon
<1>8. /\ metadata' \in [Nombres -> TipoDatos \cup {SinArchivo}] /\ metadata'[n] = SinClaves
      /\ \A m \in Nombres : m # n => metadata'[m] = metadata[m]
  BY <1>1, <1>4, <1>5
<1>9. Tipos'
  <2>1. TypeOK'
    BY <1>1, <1>6, <1>7, <1>8, Entradas DEF TypeOK, FsCreate, DInv, Tipos
  <2>2. TipoOp'
    BY <1>1, <1>6, <1>7 DEF TipoOp, FsCreate
  <2> QED BY <1>6, <2>1, <2>2 DEF Tipos
<1>10. Lista'
  <2>1. \A j \in 1..l : archivos[j].nombre # n /\ archivos[j].nombre \in Nombres
    BY <1>1, <1>2, <1>6, DeLista DEF DInv, Presentes
  <2>2. \A j, q \in 1..(l + 1) : archivos'[j].nombre = archivos'[q].nombre => j = q
    BY <1>1, <1>3, <1>6, <2>1 DEF DInv, Lista
  <2>3. \A j \in 1..(l + 1) : metadata'[archivos'[j].nombre] = DatosDe(archivos'[j])
    BY <1>1, <1>3, <1>6, <1>8, <2>1 DEF DInv, Lista
  <2>4. ASSUME NEW m \in Presentes' PROVE Existe(m)'
    <3>1. CASE m = n
      BY <1>3, <1>6, <3>1 DEF Existe
    <3>2. CASE m # n
      <4>1. m \in Presentes
        BY <1>8, <3>2 DEF Presentes
      <4>2. PICK j \in 1..l : archivos[j].nombre = m
        BY <1>1, <1>6, <4>1 DEF DInv, Lista, Existe
      <4> QED BY <1>6, <4>2 DEF Existe
    <3> QED BY <3>1, <3>2
  <2> QED BY <1>6, <2>2, <2>3, <2>4 DEF Lista
<1>11. Presentes' = Presentes \cup {n}
  BY <1>5, <1>8 DEF Presentes
<1>12. Enteros /\ Reparte(Zona, Sueltos, Tomados) /\ Quieta /\ Quieta'
  BY <1>1, <1>7 DEF DInv, Reparto, Quieta
<1>13. Zona' = Zona
  <2>1. Extension(SinClaves) \cap Bloques = {}
    <3>1. Extension(SinClaves) = {-2}
      BY Extensiones, Cantidades DEF Uso, SinClaves
    <3> QED BY <3>1, BloquesFinitos
  <2>2. \A m \in Nombres :
          (IF m \in Presentes' THEN Extension(metadata'[m]) \cap Bloques ELSE {}) =
          (IF m \in Presentes THEN Extension(metadata[m]) \cap Bloques ELSE {})
    BY <1>2, <1>8, <1>11, <2>1
  <2> QED BY <1>12, <2>2, ZonaQuieta, ZonaQuietaDespues
<1>14. Sueltos' = Sueltos /\ Tomados' = Tomados
  BY <1>1, <1>7 DEF Sueltos, Tomados, FsCreate
<1>15. Enteros'
  <2>1. Previsto(n)' = SinClaves /\ EsDe(n)'
    BY <1>3, <1>6, <1>7, <1>8, <1>12, ZonaQuietaDespues DEF EsDe
  <2>2. \A m \in Presentes : Previsto(m)' = Previsto(m)
    BY <1>2, <1>8, <1>12, ZonaQuieta, ZonaQuietaDespues DEF Presentes
  <2>3. \A m \in Presentes : MaxCaidas = 0 => Previsto(m).ini \notin {-1, -2}
    BY <1>1, <1>12 DEF Enteros
  <2> QED BY <1>5, <1>7, <1>11, <1>12, <2>1, <2>2, <2>3 DEF Enteros
<1>16. EnCreacion' /\ HayLibre' /\ Compacta'
  BY <1>3, <1>6, <1>7 DEF EnCreacion, HayLibre, Compacta, FsCreate, BloquesLibres, Libre
<1> QED BY <1>7, <1>9, <1>10, <1>12, <1>13, <1>14, <1>15, <1>16 DEF DInv, Reparto, Copia

(***************************************************************************)
(* What operations do to zones.                                            *)
(***************************************************************************)

LEMMA MismasZonas ==
  ASSUME Enteros, Reparte(Zona, Sueltos, Tomados), op.paso \notin {"crea", "asigna"},
         \A m \in Presentes : Previsto(m)' = Previsto(m),
         Presentes' = Presentes, Sueltos' = Sueltos, Tomados' = Tomados
  PROVE  Enteros' /\ Reparte(Zona, Sueltos, Tomados)'
<1>1. Zona' = Zona
  <2>1. \A m \in Nombres :
          (IF m \in Presentes' THEN Extension(Previsto(m)') \cap Bloques ELSE {}) =
          (IF m \in Presentes THEN Extension(Previsto(m)) \cap Bloques ELSE {})
    OBVIOUS
  <2> QED BY <2>1 DEF Zona
<1>2. Enteros'
  BY DEF Enteros
<1> QED BY <1>1, <1>2

\* config_save of crear_metadata: the file has its keys, and no block yet.
LEMMA PasoCrearMetadata ==
  ASSUME DInv, Uso, CrearMetadata
  PROVE  DInv'
<1>0. PICK n \in Nombres : n = archivos[op.k].nombre
  BY EnCurso DEF CrearMetadata, DInv
<1>1. /\ op.paso = "crea" /\ viva /\ n \in Presentes /\ op.k \in DOMAIN archivos
      /\ metadata[n] = SinClaves /\ op \in Operaciones
      /\ metadata \in [Nombres -> TipoDatos \cup {SinArchivo}]
  BY <1>0, EnCurso, DeLista DEF CrearMetadata, DInv, EnCreacion, Tipos, TypeOK, TipoOp, Presentes
<1>2. /\ op' = [op EXCEPT !.paso = "asigna"] /\ Guardar(op.k, Datos(-1, 0))
      /\ UNCHANGED <<bitmap, bloquesmap, viva, caidas>>
  BY DEF CrearMetadata, Sigue
<1>3. op' \in Operaciones /\ op'.paso = "asigna" /\ op'.k = op.k
  BY <1>1, <1>2 DEF Operaciones, Pasos
<1>4. /\ archivos' \in Seq(Entrada) /\ DOMAIN archivos' = DOMAIN archivos
      /\ archivos' = [archivos EXCEPT ![op.k] = Archivo(n, -1, 0)]
      /\ metadata' \in [Nombres -> TipoDatos \cup {SinArchivo}]
      /\ metadata' = [metadata EXCEPT ![n] = Datos(-1, 0)]
      /\ Presentes' = Presentes /\ Lista'
  <2>1. Tipos /\ Lista /\ viva'
    BY <1>1, <1>2 DEF DInv
  <2>2. -1 \in Inicios /\ 0 \in Tamanios \cup {0}
    BY DEF Inicios
  <2> QED BY <1>0, <1>1, <1>2, <2>1, <2>2, Guardado
<1>5. DatosDe(archivos'[op.k]) = Datos(-1, 0) /\ archivos'[op'.k].nombre = n
  BY <1>1, <1>3, <1>4 DEF Archivo, DatosDe, Datos
<1>6. Tipos'
  <2>1. TypeOK'
    BY <1>2, <1>3, <1>4, Entradas DEF TypeOK, DInv, Tipos
  <2>2. TipoOp'
    BY <1>1, <1>2, <1>3, <1>4 DEF TipoOp
  <2> QED BY <1>4, <2>1, <2>2 DEF Tipos
<1>7. Enteros /\ Reparte(Zona, Sueltos, Tomados) /\ Quieta /\ Quieta'
  BY <1>1, <1>3 DEF DInv, Reparto, Quieta
<1>8. \A m \in Nombres : metadata'[m] = IF m = n THEN Datos(-1, 0) ELSE metadata[m]
  BY <1>1, <1>4
<1>9. Extension(Datos(-1, 0)) \cap Bloques = {} /\ Extension(SinClaves) \cap Bloques = {}
  <2>1. Llenos /\ CantidadDe(0) = 1
    BY Cantidades DEF Uso
  <2>2. \A x \in Int : Extension(Datos(x, 0)) = {x}
    BY <2>1, Extensiones
  <2> QED BY <2>2, BloquesFinitos DEF SinClaves
<1>10. Zona' = Zona
  <2>1. \A m \in Nombres :
          (IF m \in Presentes' THEN Extension(metadata'[m]) \cap Bloques ELSE {}) =
          (IF m \in Presentes THEN Extension(metadata[m]) \cap Bloques ELSE {})
    BY <1>1, <1>4, <1>8, <1>9
  <2> QED BY <1>7, <2>1, ZonaQuieta, ZonaQuietaDespues
<1>11. Sueltos' = Sueltos /\ Tomados' = Tomados
  BY <1>1, <1>2, <1>3 DEF Sueltos, Tomados
<1>12. Enteros'
  <2>1. Previsto(n)' = Datos(-1, 0) /\ Datos(-1, 0).ini = -1 /\ EsDe(n)'
    BY <1>5, <1>7, <1>8, ZonaQuietaDespues DEF EsDe, Datos
  <2>2. ASSUME NEW m \in Presentes, m # n
        PROVE  Previsto(m)' = Previsto(m) /\ (MaxCaidas = 0 => Previsto(m).ini \notin {-1, -2})
    <3>1. m \in Nombres /\ ~EsDe(m)
      BY <1>0, <2>2 DEF Presentes, EsDe
    <3> QED BY <1>7, <1>8, <2>2, <3>1, ZonaQuieta, ZonaQuietaDespues DEF Enteros
  <2>3. ASSUME NEW m \in Presentes'
        PROVE  /\ Previsto(m)'.ini \in {-1, -2} \/ Extension(Previsto(m)') \subseteq Bloques
               /\ MaxCaidas = 0 /\ Previsto(m)'.ini \in {-1, -2} => EsDe(m)'
    BY <1>4, <1>7, <2>1, <2>2 DEF Enteros
  <2> QED BY <1>3, <2>3 DEF Enteros
<1>13. EnCreacion' /\ HayLibre' /\ Compacta'
  BY <1>1, <1>2, <1>3, <1>5 DEF EnCreacion, HayLibre, Compacta, DInv, BloquesLibres
<1> QED BY <1>3, <1>4, <1>6, <1>7, <1>10, <1>11, <1>12, <1>13 DEF DInv, Reparto, Copia

LEMMA ZonaTipo == Zona \in [Nombres -> SUBSET Bloques]
BY DEF Zona

\* A file takes free blocks.
LEMMA ReparteSuma ==
  ASSUME NEW z \in [Nombres -> SUBSET Bloques], NEW n \in Nombres, NEW s, NEW t, NEW X,
         Reparte(z, s, t), X \cap t = {}
  PROVE  Reparte([z EXCEPT ![n] = z[n] \cup X], s, t \cup X)
<1> DEFINE y == [z EXCEPT ![n] = z[n] \cup X]
<1>1. y[n] = z[n] \cup X /\ \A m \in Nombres : m # n => y[m] = z[m]
  OBVIOUS
<1> HIDE DEF y
<1>2. \A m \in Nombres : z[m] \subseteq t \ s
  BY DEF Reparte
<1>3. s \subseteq t
  BY DEF Reparte
<1>4. \A m, q \in Nombres : m # q => y[m] \cap y[q] = {}
  BY <1>1, <1>2 DEF Reparte
<1>5. \A m \in Nombres : y[m] \subseteq (t \cup X) \ s
  BY <1>1, <1>2, <1>3
<1>6. MaxCaidas = 0 => t \cup X \subseteq s \cup UNION {y[m] : m \in Nombres}
  BY <1>1 DEF Reparte
<1> QED BY <1>3, <1>4, <1>5, <1>6 DEF Reparte, y

\* A file gives back blocks it has.
LEMMA ReparteResta ==
  ASSUME NEW z \in [Nombres -> SUBSET Bloques], NEW n \in Nombres, NEW s, NEW t, NEW X,
         Reparte(z, s, t), X \subseteq z[n]
  PROVE  Reparte([z EXCEPT ![n] = z[n] \ X], s, t \ X)
<1> DEFINE y == [z EXCEPT ![n] = z[n] \ X]
<1>1. y[n] = z[n] \ X /\ \A m \in Nombres : m # n => y[m] = z[m]
  OBVIOUS
<1> HIDE DEF y
<1>2. \A m \in Nombres : z[m] \subseteq t \ s
  BY DEF Reparte
<1>3. s \subseteq t \ X
  BY <1>2 DEF Reparte
<1>4. \A m, q \in Nombres : m # q => y[m] \cap y[q] = {}
  BY <1>1 DEF Reparte
<1>5. \A m \in Nombres : y[m] \subseteq (t \ X) \ s
  BY <1>1, <1>2 DEF Reparte
<1>6. MaxCaidas = 0 => t \ X \subseteq s \cup UNION {y[m] : m \in Nombres}
  BY <1>1 DEF Reparte
<1> QED BY <1>3, <1>4, <1>5, <1>6 DEF Reparte, y

\* The blocks of a file that is deleted are nobody's, until they are free.
LEMMA ReparteSuelta ==
  ASSUME NEW z \in [Nombres -> SUBSET Bloques], NEW n \in Nombres, NEW t, Reparte(z, {}, t)
  PROVE  Reparte([z EXCEPT ![n] = {}], z[n], t)
<1> DEFINE y == [z EXCEPT ![n] = {}]
<1>1. y[n] = {} /\ \A m \in Nombres : m # n => y[m] = z[m]
  OBVIOUS
<1> HIDE DEF y
<1>2. \A m, q \in Nombres : m # q => y[m] \cap y[q] = {}
  BY <1>1 DEF Reparte
<1>3. \A m \in Nombres : y[m] \subseteq t \ z[n]
  BY <1>1 DEF Reparte
<1>4. MaxCaidas = 0 => t \subseteq z[n] \cup UNION {y[m] : m \in Nombres}
  BY <1>1 DEF Reparte
<1>5. z[n] \subseteq t
  BY DEF Reparte
<1> QED BY <1>2, <1>3, <1>4, <1>5 DEF Reparte, y

LEMMA ReparteLibera ==
  ASSUME NEW z \in [Nombres -> SUBSET Bloques], NEW s, NEW t, Reparte(z, s, t)
  PROVE  Reparte(z, {}, t \ s)
<1>1. \A m \in Nombres : z[m] \subseteq (t \ s) \ {}
  BY DEF Reparte
<1>2. MaxCaidas = 0 => t \ s \subseteq {} \cup UNION {z[m] : m \in Nombres}
  BY DEF Reparte
<1> QED BY <1>1, <1>2 DEF Reparte

LEMMA PasoAsignar ==
  ASSUME DInv, Uso, AsignarBloque
  PROVE  DInv'
<1>0. PICK n \in Nombres : n = archivos[op.k].nombre
  BY EnCurso DEF AsignarBloque, DInv
<1>1. /\ op.paso = "asigna" /\ viva /\ n \in Presentes /\ n \in Nombres
      /\ archivos[op.k] \in Entrada /\ op.k \in DOMAIN archivos
      /\ DatosDe(archivos[op.k]) = Datos(-1, 0) /\ metadata[n] = Datos(-1, 0)
      /\ op \in Operaciones /\ bitmap \in [Bloques -> BOOLEAN]
  BY <1>0, EnCurso, DeLista DEF AsignarBloque, DInv, EnCreacion, Tipos, TypeOK, TipoOp, Presentes
<1>2. PICK i \in BloquesLibres : /\ bitmap' = [bitmap EXCEPT ![i] = TRUE]
                                 /\ op' = [op EXCEPT !.paso = "guarda_inicial", !.ultimo = i]
  <2>1. BloquesLibres \subseteq Nat /\ BloquesLibres # {}
    BY <1>1, BloquesFinitos DEF DInv, HayLibre, BloquesLibres
  <2>2. PICK x \in BloquesLibres : \A y \in BloquesLibres : x <= y
    BY <2>1, MinimoNatural
  <2>3. (CHOOSE b \in BloquesLibres : \A c \in BloquesLibres : b <= c) \in BloquesLibres
    BY <2>2
  <2> QED BY <2>3 DEF AsignarBloque
<1>3. i \in Bloques /\ i \in Int /\ ~bitmap[i]
  BY <1>2, BloquesFinitos DEF BloquesLibres
<1>4. op' \in Operaciones /\ op'.paso = "guarda_inicial" /\ op'.k = op.k /\ op'.ultimo = i
  <2>1. "guarda_inicial" \in Pasos
    BY DEF Pasos
  <2>2. op \in Operaciones /\ i \in Int
    BY <1>1, <1>3
  <2>3. op' = [op EXCEPT !.paso = "guarda_inicial", !.ultimo = i]
    BY <1>2
  <2> QED BY <2>1, <2>2, <2>3 DEF Operaciones
<1>5. UNCHANGED <<metadata, archivos, viva, caidas, bloquesmap>>
  BY DEF AsignarBloque
<1>6. Tipos'
  <2>1. TypeOK'
    BY <1>1, <1>2, <1>3, <1>4, <1>5 DEF TypeOK, DInv, Tipos
  <2>2. TipoOp'
    BY <1>1, <1>3, <1>4, <1>5 DEF TipoOp, DInv, Tipos
  <2> QED BY <1>5, <2>1, <2>2 DEF Tipos, DInv
<1>7. Lista' /\ Presentes' = Presentes
  BY <1>5, <1>1 DEF DInv, Lista, Presentes, Existe
<1>8. Enteros /\ Reparte(Zona, Sueltos, Tomados) /\ Quieta
  BY <1>1 DEF DInv, Reparto, Quieta
<1>9. \A m \in Nombres : Previsto(m)' = IF m = n THEN Datos(i, 0) ELSE metadata[m]
  <2>1. metadata[n].tam = 0
    BY <1>1 DEF Datos
  <2> QED BY <1>0, <1>4, <1>5, <2>1 DEF Previsto, EsDe
<1>10. Extension(Datos(i, 0)) = {i} /\ Extension(Datos(-1, 0)) = {-1} /\ Datos(i, 0).ini = i
  <2>1. Llenos /\ CantidadDe(0) = 1
    BY Cantidades DEF Uso
  <2>2. \A x \in Int : Extension(Datos(x, 0)) = {x}
    BY <2>1, Extensiones
  <2> QED BY <1>3, <2>2 DEF Datos
<1>11. Zona[n] = {}
  BY <1>1, <1>8, <1>10, ZonaQuieta, BloquesFinitos
<1>12. Zona' = [Zona EXCEPT ![n] = Zona[n] \cup {i}]
  <2>1. \A m \in Nombres : m # n => Zona'[m] = Zona[m]
    BY <1>7, <1>8, <1>9, ZonaQuieta DEF Zona
  <2>2. Zona'[n] = {i}
    BY <1>1, <1>3, <1>7, <1>9, <1>10 DEF Zona
  <2>3. Zona' \in [Nombres -> SUBSET Bloques]
    BY DEF Zona
  <2> QED BY <1>11, <2>1, <2>2, <2>3, ZonaTipo
<1>13. Sueltos' = Sueltos /\ Tomados' = Tomados \cup {i} /\ {i} \cap Tomados = {}
  BY <1>1, <1>2, <1>3, <1>4 DEF Sueltos, Tomados
<1>14. Reparte(Zona, Sueltos, Tomados)'
  BY <1>1, <1>8, <1>12, <1>13, ZonaTipo, ReparteSuma
<1>15. Enteros'
  <2>1. ASSUME NEW m \in Presentes, m # n
        PROVE  /\ Previsto(m)' = Previsto(m)
               /\ MaxCaidas = 0 => Previsto(m).ini \notin {-1, -2}
    BY <1>0, <1>8, <1>9, <2>1, ZonaQuieta DEF Enteros, EsDe, Presentes
  <2>2. Previsto(n)' = Datos(i, 0)
    BY <1>1, <1>9
  <2>3. Extension(Datos(i, 0)) \subseteq Bloques /\ Datos(i, 0).ini \notin {-1, -2}
    BY <1>3, <1>10, BloquesFinitos
  <2>4. \A m \in Presentes :
          /\ Previsto(m)'.ini \in {-1, -2} \/ Extension(Previsto(m)') \subseteq Bloques
          /\ MaxCaidas = 0 => Previsto(m)'.ini \notin {-1, -2}
    BY <1>8, <2>1, <2>2, <2>3 DEF Enteros
  <2> QED BY <1>7, <2>4 DEF Enteros
<1>16. EnCreacion' /\ HayLibre' /\ Compacta'
  BY <1>1, <1>4, <1>5 DEF EnCreacion, HayLibre, Compacta
<1> QED BY <1>4, <1>6, <1>7, <1>14, <1>15, <1>16 DEF DInv, Reparto, Copia

\* config_save at the end of an operation: what was to come is there.
LEMMA PasoGuardar ==
  ASSUME DInv, Uso, GuardarInicial \/ GuardarTamanio
  PROVE  DInv'
<1>0. PICK n \in Nombres : n = archivos[op.k].nombre
  BY EnCurso DEF GuardarInicial, GuardarTamanio, DInv
<1>1. /\ op.paso \in {"guarda_inicial", "guarda_tamanio"} /\ viva /\ n \in Presentes /\ n \in Nombres
      /\ archivos[op.k] \in Entrada /\ op.k \in DOMAIN archivos
      /\ metadata[n] = DatosDe(archivos[op.k]) /\ op \in Operaciones
  BY <1>0, EnCurso, DeLista DEF GuardarInicial, GuardarTamanio, DInv, Tipos, TipoOp, Presentes
<1>2. op' = Ociosa /\ UNCHANGED <<bitmap, bloquesmap, viva, caidas>>
  BY DEF GuardarInicial, GuardarTamanio
<1>3. PICK i \in Bloques \cup {-1, -2}, t \in Tamanios \cup {0} :
        /\ Guardar(op.k, Datos(i, t)) /\ Previsto(n) = Datos(i, t)
  <2>1. archivos[op.k].ini \in Bloques \cup {-1, -2} /\ archivos[op.k].tam \in Tamanios \cup {0}
    BY <1>1 DEF Entrada, Inicios
  <2>2. metadata[n].ini = archivos[op.k].ini /\ metadata[n].tam = archivos[op.k].tam
    BY <1>1 DEF DatosDe, Datos
  <2>3. CASE GuardarInicial
    BY <1>1, <2>1, <2>2, <2>3, <1>0 DEF GuardarInicial, Previsto, EsDe, DInv, Tipos, TipoOp
  <2>4. CASE GuardarTamanio
    BY <1>1, <2>1, <2>2, <2>4, <1>0 DEF GuardarTamanio, Previsto, EsDe, Operaciones
  <2> QED BY <2>3, <2>4
<1>4. /\ archivos' \in Seq(Entrada) /\ Lista' /\ Presentes' = Presentes
      /\ metadata' \in [Nombres -> TipoDatos \cup {SinArchivo}]
      /\ metadata' = [metadata EXCEPT ![n] = Datos(i, t)]
  <2>1. viva' /\ Tipos /\ Lista
    BY <1>1, <1>2 DEF DInv
  <2>2. op.k \in DOMAIN archivos /\ viva /\ Guardar(op.k, Datos(i, t))
    BY <1>1, <1>3
  <2>4. i \in Inicios /\ t \in Tamanios \cup {0}
    BY <1>3 DEF Inicios
  <2>3. /\ archivos' \in Seq(Entrada) /\ Lista' /\ Presentes' = Presentes
        /\ metadata' \in [Nombres -> TipoDatos \cup {SinArchivo}]
        /\ metadata' = [metadata EXCEPT ![archivos[op.k].nombre] = Datos(i, t)]
    BY <2>1, <2>2, <2>4, Guardado
  <2> QED BY <1>0, <2>3
<1>5. op' \in Operaciones /\ op'.paso = "ociosa"
  BY <1>2, OciosaEs
<1>6. Tipos'
  <2>1. TypeOK'
    BY <1>2, <1>4, <1>5, Entradas DEF TypeOK, DInv, Tipos
  <2>2. TipoOp'
    BY <1>1, <1>2, <1>5 DEF TipoOp
  <2> QED BY <1>4, <2>1, <2>2 DEF Tipos
<1>7. Enteros /\ Reparte(Zona, Sueltos, Tomados)
  BY <1>1 DEF DInv, Reparto
<1>8. \A m \in Presentes : Previsto(m)' = Previsto(m)
  <2>1. \A m \in Nombres : metadata'[m] = IF m = n THEN Datos(i, t) ELSE metadata[m]
    BY <1>1, <1>4 DEF DInv, Tipos, TypeOK
  <2>2. \A m \in Nombres : Previsto(m)' = metadata'[m]
    BY <1>5, ZonaQuietaDespues DEF Quieta
  <2>3. \A m \in Nombres : m # n => Previsto(m) = metadata[m]
    BY <1>0, <1>1 DEF Previsto, EsDe
  <2> QED BY <1>3, <2>1, <2>2, <2>3 DEF Presentes
<1>9. Sueltos' = Sueltos /\ Tomados' = Tomados
  BY <1>1, <1>2, <1>5 DEF Sueltos, Tomados
<1>10. Enteros' /\ Reparte(Zona, Sueltos, Tomados)'
  BY <1>1, <1>4, <1>7, <1>8, <1>9, MismasZonas
<1> QED BY <1>4, <1>5, <1>6, <1>10 DEF DInv, Reparto, Copia, EnCreacion, HayLibre, Compacta

(***************************************************************************)
(* Truncation.                                                             *)
(***************************************************************************)

\* The file a program names, before the operation.
Elegible(k) ==
  /\ k \in DOMAIN archivos /\ k \in Nat /\ archivos[k] \in Entrada
  /\ archivos[k].nombre \in Presentes /\ archivos[k].nombre \in Nombres
  /\ metadata[archivos[k].nombre] = DatosDe(archivos[k])
  /\ archivos[k].ini \in Int /\ archivos[k].tam \in Tamanios \cup {0}
  /\ Zona[archivos[k].nombre] =
       (archivos[k].ini..archivos[k].ini + CantidadDe(archivos[k].tam) - 1) \cap Bloques
  /\ \/ archivos[k].ini \in {-1, -2}
     \/ archivos[k].ini..archivos[k].ini + CantidadDe(archivos[k].tam) - 1 \subseteq Bloques
  /\ MaxCaidas = 0 => archivos[k].ini \notin {-1, -2}

EnReposo ==
  /\ viva /\ op.paso = "ociosa" /\ Quieta /\ Enteros /\ Sueltos = {}
  /\ Tomados = {b \in Bloques : bitmap[b]} /\ Reparte(Zona, {}, Tomados)

LEMMA Reposo == ASSUME DInv, Libre PROVE EnReposo
BY DEF DInv, Libre, Reparto, Quieta, Sueltos, Tomados, EnReposo

LEMMA Elegido ==
  ASSUME DInv, Uso, Libre, NEW k \in DOMAIN archivos
  PROVE  Elegible(k)
<1>1. /\ k \in Nat /\ archivos[k] \in Entrada
      /\ archivos[k].nombre \in Presentes /\ archivos[k].nombre \in Nombres
      /\ metadata[archivos[k].nombre] = DatosDe(archivos[k])
  <2>1. archivos \in Seq(Entrada) /\ viva
    BY DEF DInv, Tipos, Libre
  <2> QED BY <2>1, DeLista DEF DInv, Presentes
<1>2. archivos[k].ini \in Bloques \cup {-1, -2} /\ archivos[k].tam \in Tamanios \cup {0}
  BY <1>1 DEF Entrada, Inicios
<1>3. archivos[k].ini \in Int
  <2>1. \A x \in Bloques \cup {-1, -2} : x \in Int
    BY BloquesFinitos
  <2> QED BY <1>2, <2>1
<1>4. PICK i \in Int, t \in Tamanios \cup {0}, n \in Presentes :
        i = archivos[k].ini /\ t = archivos[k].tam /\ n = archivos[k].nombre
  BY <1>1, <1>2, <1>3
<1>5. metadata[n] = Datos(i, t) /\ Datos(i, t).ini = i
  BY <1>1, <1>4 DEF DatosDe, Datos
<1>6. Extension(Datos(i, t)) = i..i + CantidadDe(t) - 1
  BY Extensiones DEF Uso
<1>7. EnReposo
  BY Reposo
<1>8. Previsto(n) = Datos(i, t) /\ Zona[n] = (i..i + CantidadDe(t) - 1) \cap Bloques
  <2>1. n \in Nombres
    BY DEF Presentes
  <2> QED BY <1>4, <1>5, <1>6, <1>7, <2>1, ZonaQuieta DEF EnReposo
<1>9. (i \in {-1, -2} \/ i..i + CantidadDe(t) - 1 \subseteq Bloques) /\ (MaxCaidas = 0 => i \notin {-1, -2})
  BY <1>4, <1>5, <1>6, <1>7, <1>8 DEF Enteros, EnReposo
<1> QED BY <1>1, <1>2, <1>3, <1>4, <1>8, <1>9 DEF Elegible

\* The size is still to be saved; the bits are as they will be.
LEMMA Truncado ==
  ASSUME DInv, Uso, Libre, NEW k \in DOMAIN archivos, NEW t \in Tamanios, NEW X,
         op' = [Ociosa EXCEPT !.paso = "guarda_tamanio", !.k = k, !.tam = t],
         UNCHANGED <<metadata, archivos, viva, caidas>>,
         bitmap' \in [Bloques -> BOOLEAN], DOMAIN bloquesmap' = Bloques,
         X = archivos[k].ini..archivos[k].ini + CantidadDe(t) - 1,
         archivos[k].ini \in {-1, -2} \/ X \subseteq Bloques,
         Reparte([Zona EXCEPT ![archivos[k].nombre] = X \cap Bloques], {}, {b \in Bloques : bitmap'[b]})
  PROVE  DInv'
<1>1. Elegible(k) /\ EnReposo
  BY Elegido, Reposo
<1>2. PICK n \in Nombres, i \in Int : n = archivos[k].nombre /\ i = archivos[k].ini
  BY <1>1 DEF Elegible
<1>3. op' \in Operaciones /\ op'.paso = "guarda_tamanio" /\ op'.k = k /\ op'.tam = t
  <2>1. k \in Nat /\ t \in Tamanios \cup {0}
    BY <1>1 DEF Elegible
  <2> QED BY <2>1, EmpiezaTruncar, Zenon
<1>4. Tipos'
  <2>1. TypeOK'
    BY <1>3 DEF TypeOK, DInv, Tipos
  <2>2. TipoOp'
    BY <1>1, <1>3 DEF TipoOp, EnReposo
  <2> QED BY <2>1, <2>2 DEF Tipos, DInv
<1>5. Lista' /\ Presentes' = Presentes
  BY <1>1, <1>3 DEF DInv, Lista, Presentes, Existe, EnReposo
<1>6. \A m \in Nombres : Previsto(m)' = IF m = n THEN Datos(i, t) ELSE metadata[m]
  <2>1. metadata[n].ini = i
    BY <1>1, <1>2 DEF Elegible, DatosDe, Datos
  <2> QED BY <1>2, <1>3, <2>1 DEF Previsto, EsDe
<1>7. Extension(Datos(i, t)) = X /\ Datos(i, t).ini = i
  BY <1>2, Extensiones DEF Uso, Datos
<1>8. Zona' = [Zona EXCEPT ![n] = X \cap Bloques]
  <2>1. n \in Presentes
    BY <1>1, <1>2 DEF Elegible
  <2>2. \A m \in Nombres : m # n => Zona'[m] = Zona[m]
    BY <1>1, <1>5, <1>6, ZonaQuieta DEF Zona, EnReposo
  <2>3. Zona'[n] = X \cap Bloques
    BY <1>5, <1>6, <1>7, <2>1 DEF Zona
  <2>4. Zona' \in [Nombres -> SUBSET Bloques]
    BY DEF Zona
  <2> QED BY <2>2, <2>3, <2>4, ZonaTipo
<1>9. Sueltos' = {} /\ Tomados' = {b \in Bloques : bitmap'[b]}
  BY <1>3 DEF Sueltos, Tomados
<1>10. Reparte(Zona, Sueltos, Tomados)'
  BY <1>2, <1>8, <1>9
<1>11. Enteros'
  <2>1. ASSUME NEW m \in Presentes, m # n
        PROVE  /\ Previsto(m)' = Previsto(m)
               /\ MaxCaidas = 0 => Previsto(m).ini \notin {-1, -2}
    BY <1>1, <1>6, <2>1, ZonaQuieta DEF Enteros, EnReposo, Presentes
  <2>2. \A m \in Presentes :
          /\ Previsto(m)'.ini \in {-1, -2} \/ Extension(Previsto(m)') \subseteq Bloques
          /\ MaxCaidas = 0 => Previsto(m)'.ini \notin {-1, -2}
    BY <1>1, <1>2, <1>6, <1>7, <2>1 DEF Enteros, EnReposo, Elegible
  <2> QED BY <1>5, <2>2 DEF Enteros
<1> QED BY <1>3, <1>4, <1>5, <1>10, <1>11 DEF DInv, Reparto, Copia, EnCreacion, HayLibre, Compacta

\* reducir_tamanio: the blocks past the new size are the ones it clears.
LEMMA PasoReducir ==
  ASSUME DInv, Uso, NEW n \in Nombres, NEW t \in Tamanios, ReducirTamanio(n, t)
  PROVE  DInv'
<1>1. Libre /\ archivos # <<>> /\ archivos \in Seq(Entrada)
  BY DEF ReducirTamanio, Nombra, Pide, DInv, Tipos
<1>2. PICK k \in DOMAIN archivos : k = Buscado(n)
  BY <1>1, Busqueda
<1>3. Elegible(k) /\ EnReposo
  BY <1>1, Elegido, Reposo
<1>4. PICK m \in Nombres, i \in Int, u \in Tamanios \cup {0} :
        m = archivos[k].nombre /\ i = archivos[k].ini /\ u = archivos[k].tam
  BY <1>3 DEF Elegible
<1>5. /\ t < u /\ t \div TamBloque # u \div TamBloque
      /\ bitmap' = [b \in Bloques |->
           bitmap[b] /\ b \notin BitsALimpiar(i + t \div TamBloque, i + u \div TamBloque - 1)]
      /\ op' = [Ociosa EXCEPT !.paso = "guarda_tamanio", !.k = k, !.tam = t]
      /\ UNCHANGED <<bloquesmap, metadata, archivos, paralelo, viva, caidas>>
  BY <1>2, <1>4 DEF ReducirTamanio
<1>6. u \in Tamanios /\ t \div TamBloque = CantidadDe(t) /\ u \div TamBloque = CantidadDe(u)
  <2>1. u # 0
    BY <1>5, TamaniosAssumption
  <2> QED BY <2>1, Cantidades DEF Uso
<1>7. PICK c \in Nat \ {0}, d \in Nat \ {0} : c = CantidadDe(t) /\ d = CantidadDe(u) /\ c < d
  <2>1. /\ CantidadDe(t) \in Nat \ {0} /\ CantidadDe(u) \in Nat \ {0}
        /\ CantidadDe(t) <= CantidadDe(u) /\ CantidadDe(t) # CantidadDe(u)
    BY <1>5, <1>6, Cantidades DEF Uso
  <2> QED BY <2>1
<1>8. MaxCaidas = 0 /\ i \notin {-1, -2} /\ i..i + d - 1 \subseteq Bloques
  <2>1. ~DeUnBloque
    <3>1. c = d \/ ~DeUnBloque
      BY <1>6, <1>7, Cantidades DEF Uso
    <3> QED BY <1>7, <3>1
  <2>2. MaxCaidas = 0
    BY <2>1 DEF Uso
  <2> QED BY <1>3, <1>4, <1>7, <2>2 DEF Elegible
<1>9. PICK L : L = i + c..i + d - 1
  OBVIOUS
<1>10. bitmap' = [b \in Bloques |-> bitmap[b] /\ b \notin L]
  BY <1>5, <1>6, <1>7, <1>9 DEF BitsALimpiar
<1>11. /\ Zona[m] = i..i + d - 1 /\ L \subseteq Zona[m]
       /\ Zona[m] \ L = (i..i + c - 1) \cap Bloques /\ i..i + c - 1 \subseteq Bloques
  <2>1. Zona[m] = i..i + d - 1
    BY <1>3, <1>4, <1>7, <1>8 DEF Elegible
  <2>2. L \subseteq i..i + d - 1 /\ (i..i + d - 1) \ L = i..i + c - 1
    BY <1>7, <1>9
  <2> QED BY <1>8, <2>1, <2>2
<1>12. Reparte([Zona EXCEPT ![m] = (i..i + c - 1) \cap Bloques], {}, Tomados \ L)
  <2>1. Reparte([Zona EXCEPT ![m] = Zona[m] \ L], {}, Tomados \ L)
    BY <1>3, <1>11, ZonaTipo, ReparteResta DEF EnReposo
  <2> QED BY <1>11, <2>1
<1>13. Tomados \ L = {b \in Bloques : bitmap'[b]}
  BY <1>3, <1>10 DEF EnReposo
<1>14. bitmap' \in [Bloques -> BOOLEAN] /\ DOMAIN bloquesmap' = Bloques
  BY <1>5, <1>10 DEF DInv, Tipos, TypeOK
<1>15. PICK X : X = archivos[k].ini..archivos[k].ini + CantidadDe(t) - 1 /\ X = i..i + c - 1
  BY <1>4, <1>7
<1>16. /\ UNCHANGED <<metadata, archivos, viva, caidas>>
       /\ archivos[k].ini \in {-1, -2} \/ X \subseteq Bloques
       /\ Reparte([Zona EXCEPT ![archivos[k].nombre] = X \cap Bloques], {}, {b \in Bloques : bitmap'[b]})
  BY <1>4, <1>5, <1>11, <1>12, <1>13, <1>15
<1> QED BY <1>1, <1>5, <1>14, <1>15, <1>16, Truncado, Zenon

\* ampliar_tamanio in place: the blocks after the file were nobody's.
LEMMA PasoAmpliarContiguo ==
  ASSUME DInv, Uso, NEW n \in Nombres, NEW t \in Tamanios, AmpliarContiguo(n, t)
  PROVE  DInv'
<1>1. Libre /\ archivos # <<>> /\ archivos \in Seq(Entrada)
  BY DEF AmpliarContiguo, Nombra, Pide, DInv, Tipos
<1>2. PICK k \in DOMAIN archivos : k = Buscado(n)
  BY <1>1, Busqueda
<1>3. Elegible(k) /\ EnReposo
  BY <1>1, Elegido, Reposo
<1>4. PICK m \in Nombres, i \in Int, u \in Tamanios \cup {0} :
        m = archivos[k].nombre /\ i = archivos[k].ini /\ u = archivos[k].tam
  BY <1>3 DEF Elegible
<1>5. PICK c \in Nat \ {0}, d \in Nat \ {0} : c = CantidadDe(u) /\ d = CantidadDe(t) /\ d = Techo(t)
  BY Cantidades DEF Uso
<1>6. PICK L : L = i + c..i + d - 1
  OBVIOUS
<1>7. /\ d >= c /\ L \subseteq BloquesLibres
      /\ bitmap' = [b \in Bloques |-> bitmap[b] \/ b \in L]
      /\ DOMAIN bloquesmap' = Bloques
      /\ op' = [Ociosa EXCEPT !.paso = "guarda_tamanio", !.k = k, !.tam = t]
      /\ UNCHANGED <<metadata, archivos, paralelo, viva, caidas>>
  <2>1. Contiguos(archivos[k], t) = L
    BY <1>4, <1>5, <1>6 DEF Contiguos
  <2>2. Nuevos(archivos[k], t) = d - c
    BY <1>4, <1>5 DEF Nuevos
  <2>3. Nuevos(archivos[k], t) >= 0
    BY <1>2 DEF AmpliarContiguo
  <2>4. d >= c
    BY <1>5, <2>2, <2>3
  <2> QED BY <1>2, <2>1, <2>4 DEF AmpliarContiguo, HayContiguos
<1>8. /\ Zona[m] = (i..i + c - 1) \cap Bloques /\ L \subseteq Bloques /\ L \cap Tomados = {}
      /\ (i..i + c - 1) \cup L = i..i + d - 1
  <2>1. Zona[m] = (i..i + c - 1) \cap Bloques
    BY <1>3, <1>4, <1>5 DEF Elegible
  <2>2. (i..i + c - 1) \cup L = i..i + d - 1
    BY <1>5, <1>6, <1>7
  <2> QED BY <1>3, <1>7, <2>1, <2>2 DEF BloquesLibres, EnReposo
<1>9. Zona[m] \cup L = (i..i + d - 1) \cap Bloques
  BY <1>8
<1>10. Reparte([Zona EXCEPT ![m] = (i..i + d - 1) \cap Bloques], {}, Tomados \cup L)
  <2>1. Reparte([Zona EXCEPT ![m] = Zona[m] \cup L], {}, Tomados \cup L)
    BY <1>3, <1>8, ZonaTipo, ReparteSuma DEF EnReposo
  <2> QED BY <1>9, <2>1
<1>11. Tomados \cup L = {b \in Bloques : bitmap'[b]} /\ bitmap' \in [Bloques -> BOOLEAN]
  <2>1. bitmap \in [Bloques -> BOOLEAN]
    BY DEF DInv, Tipos, TypeOK
  <2> QED BY <1>3, <1>7, <1>8, <2>1 DEF EnReposo
<1>12. i \in {-1, -2} \/ i..i + d - 1 \subseteq Bloques
  <2>1. i \in {-1, -2} \/ i..i + c - 1 \subseteq Bloques
    BY <1>3, <1>4, <1>5 DEF Elegible
  <2> QED BY <1>8, <2>1
<1>13. PICK X : X = archivos[k].ini..archivos[k].ini + CantidadDe(t) - 1 /\ X = i..i + d - 1
  BY <1>4, <1>5
<1>14. /\ UNCHANGED <<metadata, archivos, viva, caidas>>
       /\ archivos[k].ini \in {-1, -2} \/ X \subseteq Bloques
       /\ Reparte([Zona EXCEPT ![archivos[k].nombre] = X \cap Bloques], {}, {b \in Bloques : bitmap'[b]})
  BY <1>4, <1>7, <1>10, <1>11, <1>12, <1>13
<1> QED BY <1>1, <1>7, <1>11, <1>13, <1>14, Truncado, Zenon

(***************************************************************************)
(* Deletion, writing, the end of the program and its start.                *)
(***************************************************************************)

\* list_remove of a file: the others stay in the list, once.
LEMMA ListaSin ==
  ASSUME Tipos, Lista, viva, NEW k \in DOMAIN archivos,
         archivos' = RemoveAt(archivos, k), viva' = viva,
         metadata' = [metadata EXCEPT ![archivos[k].nombre] = SinArchivo]
  PROVE  /\ archivos' \in Seq(Entrada) /\ Lista'
         /\ Presentes' = Presentes \ {archivos[k].nombre}
         /\ metadata' \in [Nombres -> TipoDatos \cup {SinArchivo}]
         /\ \A m \in Nombres : metadata'[m] = IF m = archivos[k].nombre THEN SinArchivo ELSE metadata[m]
<1>1. archivos \in Seq(Entrada) /\ metadata \in [Nombres -> TipoDatos \cup {SinArchivo}]
  BY DEF Tipos, TypeOK
<1>2. PICK l \in Nat : l = Len(archivos)
  BY <1>1
<1>3. DOMAIN archivos = 1..l /\ k \in 1..l
  BY <1>1, <1>2
<1>4. /\ archivos' \in Seq(Entrada) /\ Len(archivos') = l - 1
      /\ \A j \in 1..(l - 1) : archivos'[j] = IF j < k THEN archivos[j] ELSE archivos[j + 1]
  BY <1>1, <1>2, <1>3, QuitarPosicion
<1>5. DOMAIN archivos' = 1..(l - 1)
  BY <1>4
<1>6. PICK n \in Nombres : n = archivos[k].nombre
  BY <1>1, Entradas
<1>7. \A m \in Nombres : metadata'[m] = IF m = n THEN SinArchivo ELSE metadata[m]
  BY <1>1, <1>6
<1>8. metadata' \in [Nombres -> TipoDatos \cup {SinArchivo}]
  BY <1>1
<1>9. Presentes' = Presentes \ {n}
  BY <1>7 DEF Presentes
<1>10. \A j \in 1..(l - 1) : \E q \in 1..l :
         archivos'[j] = archivos[q] /\ q # k /\ q = IF j < k THEN j ELSE j + 1
  BY <1>2, <1>3, <1>4
<1>11. \A j, q \in DOMAIN archivos' : archivos'[j].nombre = archivos'[q].nombre => j = q
  <2> SUFFICES ASSUME NEW j \in 1..(l - 1), NEW q \in 1..(l - 1),
                      archivos'[j].nombre = archivos'[q].nombre
               PROVE  j = q
    BY <1>5
  <2>1. PICK x \in 1..l : archivos'[j] = archivos[x] /\ x = IF j < k THEN j ELSE j + 1
    BY <1>10
  <2>2. PICK y \in 1..l : archivos'[q] = archivos[y] /\ y = IF q < k THEN q ELSE q + 1
    BY <1>10
  <2>3. x = y
    BY <1>3, <2>1, <2>2 DEF Lista
  <2> QED BY <1>3, <2>1, <2>2, <2>3
<1>12. \A j \in DOMAIN archivos' : metadata'[archivos'[j].nombre] = DatosDe(archivos'[j])
  <2> SUFFICES ASSUME NEW j \in 1..(l - 1)
               PROVE  metadata'[archivos'[j].nombre] = DatosDe(archivos'[j])
    BY <1>5
  <2>1. PICK x \in 1..l : archivos'[j] = archivos[x] /\ x # k
    BY <1>10
  <2>2. archivos[x].nombre \in Nombres /\ metadata[archivos[x].nombre] = DatosDe(archivos[x])
    BY <1>1, <1>3, Entradas DEF Lista
  <2>3. archivos[x].nombre # n
    BY <1>3, <1>6, <2>1 DEF Lista
  <2> QED BY <1>7, <2>1, <2>2, <2>3
<1>13. ASSUME NEW m \in Presentes' PROVE Existe(m)'
  <2>1. m \in Presentes /\ m # n
    BY <1>9
  <2>2. PICK x \in 1..l : archivos[x].nombre = m
    BY <1>3, <2>1 DEF Lista, Existe
  <2>3. x # k
    BY <1>6, <2>1, <2>2
  <2>4. PICK j \in 1..(l - 1) : x = IF j < k THEN j ELSE j + 1
    <3>1. CASE x < k
      BY <1>3, <3>1
    <3>2. CASE x > k
      <4>1. x - 1 \in 1..(l - 1) /\ ~(x - 1 < k) /\ x = (x - 1) + 1
        BY <1>3, <3>2
      <4> QED BY <4>1
    <3> QED BY <1>3, <2>3, <3>1, <3>2
  <2>5. archivos'[j].nombre = m
    BY <1>4, <2>2, <2>4
  <2> QED BY <1>5, <2>5 DEF Existe
<1> QED BY <1>4, <1>6, <1>7, <1>8, <1>9, <1>11, <1>12, <1>13 DEF Lista

LEMMA PasoBorrar ==
  ASSUME DInv, Uso, NEW n \in Nombres, FsDelete(n)
  PROVE  DInv'
<1>1. Libre /\ archivos # <<>> /\ archivos \in Seq(Entrada) /\ Existe(n)
  BY DEF FsDelete, Existe, DInv, Tipos
<1>2. PICK k \in DOMAIN archivos : k = Buscado(n) /\ archivos[k].nombre = n
  BY <1>1, Busqueda
<1>3. Elegible(k) /\ EnReposo
  BY <1>1, Elegido, Reposo
<1>4. PICK i \in Int, u \in Tamanios \cup {0} : i = archivos[k].ini /\ u = archivos[k].tam
  BY <1>3 DEF Elegible
<1>5. /\ op' = [Ociosa EXCEPT !.paso = "libera", !.ultimo = i, !.tam = u]
      /\ archivos' = RemoveAt(archivos, k)
      /\ metadata' = [metadata EXCEPT ![archivos[k].nombre] = SinArchivo]
      /\ UNCHANGED <<bitmap, bloquesmap, viva, caidas>>
  BY <1>2, <1>4 DEF FsDelete
<1>6. op' \in Operaciones /\ op'.paso = "libera" /\ op'.ultimo = i /\ op'.tam = u
  BY <1>5, EmpiezaBorrar, Zenon
<1>7. /\ archivos' \in Seq(Entrada) /\ Lista'
      /\ Presentes' = Presentes \ {n}
      /\ metadata' \in [Nombres -> TipoDatos \cup {SinArchivo}]
      /\ \A m \in Nombres : metadata'[m] = IF m = n THEN SinArchivo ELSE metadata[m]
  <2>1. Tipos /\ Lista /\ viva /\ viva' = viva
    BY <1>3, <1>5 DEF DInv, EnReposo
  <2> QED BY <1>2, <1>5, <2>1, ListaSin
<1>8. Tipos'
  <2>1. TypeOK'
    BY <1>5, <1>6, <1>7, Entradas DEF TypeOK, DInv, Tipos
  <2>2. TipoOp'
    BY <1>3, <1>5, <1>6 DEF TipoOp, EnReposo
  <2> QED BY <1>7, <2>1, <2>2 DEF Tipos
<1>9. Quieta' /\ \A m \in Presentes' : Previsto(m)' = Previsto(m) /\ m \in Presentes
  BY <1>3, <1>6, <1>7, ZonaQuieta, ZonaQuietaDespues DEF Quieta, Presentes, EnReposo
<1>10. Zona' = [Zona EXCEPT ![n] = {}]
  <2>1. \A m \in Nombres : Zona'[m] = IF m = n THEN {} ELSE Zona[m]
    BY <1>7, <1>9 DEF Zona
  <2>2. Zona' \in [Nombres -> SUBSET Bloques]
    BY DEF Zona
  <2> QED BY <2>1, <2>2, ZonaTipo
<1>11. Sueltos' = Zona[n] /\ Tomados' = Tomados
  <2>1. Zona[n] = (i..i + CantidadDe(u) - 1) \cap Bloques
    BY <1>2, <1>3, <1>4 DEF Elegible
  <2>2. Extension(Datos(i, u)) = i..i + CantidadDe(u) - 1
    BY Extensiones DEF Uso
  <2> QED BY <1>3, <1>5, <1>6, <2>1, <2>2 DEF Sueltos, Tomados, EnReposo
<1>12. Reparte(Zona, Sueltos, Tomados)'
  BY <1>3, <1>10, <1>11, ZonaTipo, ReparteSuelta DEF EnReposo
<1>13. Enteros'
  BY <1>3, <1>9 DEF Enteros, EnReposo
<1> QED BY <1>6, <1>7, <1>8, <1>12, <1>13 DEF DInv, Reparto, Copia, EnCreacion, HayLibre, Compacta

LEMMA PasoLiberar ==
  ASSUME DInv, Uso, LiberarEspacio
  PROVE  DInv'
<1>1. /\ op.paso = "libera" /\ Quieta /\ Enteros /\ Reparte(Zona, Sueltos, Tomados)
      /\ UNCHANGED <<bloquesmap, metadata, archivos, viva, caidas>> /\ op' = Ociosa
  BY DEF LiberarEspacio, DInv, Reparto, Quieta
<1>2. op' \in Operaciones /\ op'.paso = "ociosa" /\ Quieta'
  BY <1>1, OciosaEs DEF Quieta
<1>3. Tipos'
  <2>1. TypeOK'
    BY <1>1, <1>2 DEF TypeOK, DInv, Tipos, LiberarEspacio
  <2>2. TipoOp'
    BY <1>1, <1>2 DEF TipoOp
  <2> QED BY <1>1, <2>1, <2>2 DEF Tipos, DInv
<1>4. Lista' /\ Presentes' = Presentes
  <2>1. Lista /\ viva
    BY <1>1 DEF DInv, Tipos, TipoOp
  <2> QED BY <1>1, <2>1 DEF Lista, Presentes, Existe
<1>5. \A m \in Nombres : Previsto(m)' = Previsto(m)
  BY <1>1, <1>2, ZonaQuieta, ZonaQuietaDespues
<1>6. Zona' = Zona
  BY <1>4, <1>5 DEF Zona
<1>7. Sueltos' = {} /\ Tomados' = Tomados \ Sueltos
  <2>1. Tomados = {b \in Bloques : bitmap[b]}
    BY <1>1 DEF Tomados
  <2>2. Tomados' = {b \in Bloques : bitmap'[b]}
    BY <1>2 DEF Tomados
  <2>3. \A b \in Bloques : bitmap'[b] <=> bitmap[b] /\ b \notin Sueltos
    BY <1>1 DEF LiberarEspacio, Sueltos
  <2> QED BY <1>2, <2>1, <2>2, <2>3 DEF Sueltos
<1>8. Reparte(Zona, Sueltos, Tomados)'
  BY <1>1, <1>6, <1>7, ZonaTipo, ReparteLibera
<1>9. Enteros'
  BY <1>1, <1>4, <1>5 DEF Enteros, Presentes
<1> QED BY <1>2, <1>3, <1>4, <1>8, <1>9 DEF DInv, Reparto, Copia, EnCreacion, HayLibre, Compacta

\* What does not reach the list, the directory nor the bitmap.
LEMMA PasoAjeno ==
  ASSUME DInv, UNCHANGED <<bitmap, metadata, archivos, op, viva, caidas>>, DOMAIN bloquesmap' = Bloques
  PROVE  DInv'
<1>1. Tipos'
  <2>1. TypeOK'
    BY DEF DInv, Tipos, TypeOK
  <2>2. TipoOp'
    BY DEF DInv, Tipos, TipoOp
  <2> QED BY <2>1, <2>2 DEF DInv, Tipos
<1>2. Lista' /\ Presentes' = Presentes
  BY DEF DInv, Lista, Presentes, Existe
<1>3. EnCreacion' /\ HayLibre' /\ Compacta'
  BY DEF DInv, EnCreacion, HayLibre, Compacta, BloquesLibres
<1>4. \A m \in Nombres : Previsto(m)' = Previsto(m) /\ (EsDe(m)' <=> EsDe(m))
  BY DEF Previsto, EsDe
<1>5. Zona' = Zona
  BY <1>2, <1>4 DEF Zona
<1>6. Sueltos' = Sueltos /\ Tomados' = Tomados
  BY DEF Sueltos, Tomados
<1>7. Enteros <=> Enteros'
  BY <1>2, <1>4 DEF Enteros, Presentes
<1>8. Reparto'
  BY <1>5, <1>6, <1>7 DEF DInv, Reparto
<1>9. Copia'
  <2>1. Copiados' = Copiados
    BY DEF Copiados
  <2>2. Largos' = Largos
    BY DEF Largos
  <2> QED BY <2>1, <2>2 DEF DInv, Copia
<1> QED BY <1>1, <1>2, <1>3, <1>8, <1>9 DEF DInv

LEMMA PasoEscribir ==
  ASSUME DInv, NEW n \in Nombres, NEW j \in Escritos, FsWrite(n, j)
  PROVE  DInv'
<1>1. DOMAIN bloquesmap' = Bloques
  BY DEF FsWrite, DInv, Tipos, TypeOK
<1>2. UNCHANGED <<bitmap, metadata, archivos, op, viva, caidas>>
  BY DEF FsWrite
<1> QED BY <1>1, <1>2, PasoAjeno

\* Without the list, the blocks are those that the directory says.
LEMMA PasoTerminar ==
  ASSUME DInv, Uso,
         FsInexistente \/ Caida \/ SinClavesTermina
           \/ \E n \in Nombres, j \in Escritos : FsWriteAfuera(n, j)
  PROVE  DInv'
<1>0. viva /\ Terminar /\ (Caida \/ (caidas' = caidas /\ (MaxCaidas = 0 => Libre)))
  <2>1. CASE Caida \/ FsInexistente
    BY <2>1 DEF Caida, FsInexistente, Libre
  <2>2. CASE SinClavesTermina
    <3>1. PICK k \in DOMAIN archivos : LeeClaves(k) /\ ~Legible(archivos[k])
      BY <2>2 DEF SinClavesTermina
    <3>2. CASE op.paso = "copia"
      <4>1. archivos[k].ini \notin {-1, -2}
        BY <3>2 DEF DInv, Copia
      <4> QED BY <3>1, <4>1 DEF Legible
    <3>3. CASE op.paso # "copia"
      BY <2>2, <3>1, <3>3 DEF LeeClaves, Pide, Libre, SinClavesTermina
    <3> QED BY <3>2, <3>3
  <2>3. CASE \E n \in Nombres, j \in Escritos : FsWriteAfuera(n, j)
    BY <2>3 DEF FsWriteAfuera, EnTamanio, Nombra, Pide, Libre
  <2> QED BY <2>1, <2>2, <2>3
<1>1. /\ viva' = FALSE /\ op' = Ociosa /\ archivos' = <<>>
      /\ UNCHANGED <<bitmap, bloquesmap, metadata>> /\ viva
  BY <1>0 DEF Terminar, disco
<1>2. op' \in Operaciones /\ op'.paso = "ociosa" /\ Quieta'
  BY <1>1, OciosaEs DEF Quieta
<1>3. archivos' \in Seq(Entrada) /\ DOMAIN archivos' = {}
  BY <1>1
<1>4. caidas' \in 0..MaxCaidas /\ (MaxCaidas = 0 => Libre)
  <2>1. caidas \in 0..MaxCaidas /\ MaxCaidas \in Nat
    BY CotasAssumption DEF DInv, Tipos, TypeOK
  <2>2. CASE Caida
    BY <2>1, <2>2 DEF Caida
  <2> QED BY <1>0, <2>1, <2>2
<1>5. Tipos'
  <2>1. TypeOK'
    BY <1>1, <1>2, <1>3, <1>4 DEF TypeOK, DInv, Tipos
  <2>2. TipoOp'
    BY <1>1, <1>2 DEF TipoOp
  <2> QED BY <1>3, <2>1, <2>2 DEF Tipos
<1>6. Lista' /\ Presentes' = Presentes
  BY <1>1 DEF Lista, Presentes
<1>7. Sueltos' = {} /\ Tomados' = {b \in Bloques : bitmap[b]}
  BY <1>1, <1>2 DEF Sueltos, Tomados
<1>8. Enteros' /\ Reparte(Zona, Sueltos, Tomados)'
  <2>1. CASE MaxCaidas = 0
    <3>1. EnReposo
      BY <1>4, <2>1, Reposo
    <3>2. \A m \in Presentes : Previsto(m)' = Previsto(m)
      BY <1>1, <1>2, <3>1, ZonaQuieta, ZonaQuietaDespues DEF EnReposo, Presentes
    <3> QED BY <1>6, <1>7, <3>1, <3>2, MismasZonas DEF EnReposo
  <2>2. CASE MaxCaidas # 0
    <3>1. \A t \in Tamanios \cup {0} : CantidadDe(t) = 1
      BY <2>2, Cantidades DEF Uso
    <3>2. op.paso \notin {"copia", "pisa", "bits"} /\ Enteros /\ Reparte(Zona, Sueltos, Tomados)
      BY <2>2 DEF DInv, Compacta, Reparto
    <3>3. Tomados = {b \in Bloques : bitmap[b]}
      BY <3>2 DEF Tomados
    <3>4. ASSUME NEW m \in Presentes
          PROVE  /\ Previsto(m)' = metadata[m] /\ Extension(metadata[m]) = {metadata[m].ini}
                 /\ metadata[m].ini \in Bloques \cup {-1, -2}
                 /\ Extension(metadata[m]) \cap Bloques \subseteq Extension(Previsto(m)) \cap Bloques
      <4>1. PICK i \in Bloques \cup {-1, -2}, t \in Tamanios \cup {0} : metadata[m] = Datos(i, t)
        <5>1. metadata[m] \in TipoDatos
          BY DEF Presentes, DInv, Tipos, TypeOK
        <5> QED BY <5>1 DEF TipoDatos, Datos
      <4>2. \A j \in Int, q \in Tamanios \cup {0} : Extension(Datos(j, q)) = {j}
        BY <3>1, Extensiones DEF Uso
      <4>3. i \in Int
        <5>1. \A x \in Bloques \cup {-1, -2} : x \in Int
          BY BloquesFinitos
        <5> QED BY <5>1
      <4>4. metadata[m].ini = i /\ metadata[m].tam = t
        BY <4>1 DEF Datos
      <4>5. Extension(metadata[m]) = {i}
        BY <4>1, <4>2, <4>3
      <4>6. m \in Nombres /\ op.tam \in Tamanios \cup {0}
        BY DEF Presentes, DInv, Tipos, TipoOp, Operaciones
      <4>7. Previsto(m)' = metadata[m]
        BY <1>1, <1>2, <4>6, ZonaQuietaDespues
      <4>8. CASE op.paso = "guarda_inicial" /\ EsDe(m)
        <5>1. metadata[m] = Datos(-1, 0)
          <6>1. archivos[op.k].nombre = m /\ metadata[m] = DatosDe(archivos[op.k])
            BY <1>1, <4>8, EnCurso DEF EsDe, DInv, Lista
          <6> QED BY <4>8, <6>1 DEF DInv, EnCreacion
        <5>2. i = -1
          BY <4>4, <5>1 DEF Datos
        <5> QED BY <4>4, <4>5, <4>7, <5>2, BloquesFinitos
      <4>9. CASE op.paso = "guarda_tamanio" /\ EsDe(m)
        <5>1. Previsto(m) = Datos(i, op.tam)
          BY <4>4, <4>9 DEF Previsto
        <5> QED BY <4>2, <4>3, <4>4, <4>5, <4>6, <4>7, <5>1
      <4>10. CASE ~(op.paso \in {"guarda_inicial", "guarda_tamanio"} /\ EsDe(m))
        <5>1. Previsto(m) = metadata[m]
          BY <3>2, <4>10 DEF Previsto
        <5> QED BY <4>4, <4>5, <4>7, <5>1
      <4> QED BY <4>8, <4>9, <4>10
    <3>5. \A m \in Nombres : Zona'[m] \subseteq Zona[m]
      BY <1>6, <3>4 DEF Zona
    <3>6. Reparte(Zona', {}, Tomados)
      BY <2>2, <3>2, <3>5 DEF Reparte
    <3>7. Enteros'
      BY <1>6, <2>2, <3>4 DEF Enteros
    <3> QED BY <1>7, <3>3, <3>6, <3>7
  <2> QED BY <2>1, <2>2
<1> QED BY <1>2, <1>5, <1>6, <1>8 DEF DInv, Reparto, Copia, EnCreacion, HayLibre, Compacta

\* Only a program that was killed leaves a metadata file without keys, and
\* then every file has one block at most.
LEMMA PasoBorrarSinClaves ==
  ASSUME DInv, Uso, NEW n \in Nombres, FsDeleteSinClaves(n)
  PROVE  DInv'
<1>1. /\ viva' = FALSE /\ op' = Ociosa /\ archivos' = <<>>
      /\ UNCHANGED <<bitmap, bloquesmap, caidas>> /\ Libre /\ EnReposo
      /\ metadata' = [metadata EXCEPT ![n] = SinArchivo]
  BY Reposo DEF FsDeleteSinClaves
<1>2. op' \in Operaciones /\ op'.paso = "ociosa" /\ Quieta'
  BY <1>1, OciosaEs DEF Quieta
<1>3. archivos' \in Seq(Entrada) /\ DOMAIN archivos' = {}
  BY <1>1
<1>4. MaxCaidas # 0
  <2>1. archivos \in Seq(Entrada) /\ archivos # <<>>
    BY DEF FsDeleteSinClaves, Existe, DInv, Tipos
  <2>2. Elegible(Buscado(n))
    BY <1>1, <2>1, Busqueda, Elegido
  <2> QED BY <2>2 DEF Elegible, FsDeleteSinClaves, Legible
<1>5. /\ metadata \in [Nombres -> TipoDatos \cup {SinArchivo}]
      /\ metadata' \in [Nombres -> TipoDatos \cup {SinArchivo}]
      /\ \A m \in Nombres : metadata'[m] = IF m = n THEN SinArchivo ELSE metadata[m]
  BY <1>1 DEF DInv, Tipos, TypeOK
<1>6. Tipos'
  <2>1. TypeOK'
    BY <1>1, <1>2, <1>3, <1>5 DEF TypeOK, DInv, Tipos
  <2>2. TipoOp'
    BY <1>1, <1>2 DEF TipoOp
  <2> QED BY <1>3, <2>1, <2>2 DEF Tipos
<1>7. Lista' /\ Presentes' = Presentes \ {n}
  BY <1>1, <1>5 DEF Lista, Presentes
<1>8. \A m \in Presentes' : Previsto(m)' = Previsto(m) /\ m \in Presentes
  BY <1>1, <1>2, <1>5, <1>7, ZonaQuieta, ZonaQuietaDespues DEF EnReposo, Presentes
<1>9. \A m \in Nombres : Zona'[m] \subseteq Zona[m]
  BY <1>7, <1>8 DEF Zona
<1>10. Sueltos' = {} /\ Tomados' = Tomados
  BY <1>1, <1>2 DEF Sueltos, Tomados, EnReposo
<1>11. Reparte(Zona', {}, Tomados)
  BY <1>1, <1>4, <1>9 DEF Reparte, EnReposo
<1>12. Enteros'
  BY <1>1, <1>4, <1>8 DEF Enteros, EnReposo
<1> QED BY <1>2, <1>6, <1>7, <1>10, <1>11, <1>12 DEF DInv, Reparto, Copia, EnCreacion, HayLibre, Compacta

\* levantar_archivos: whatever the order of the directory, each file is in
\* the list once.
LEMMA PasoReiniciar ==
  ASSUME DInv, Reiniciar
  PROVE  DInv'
<1> DEFINE De(n) == Archivo(n, metadata[n].ini, metadata[n].tam)
           S == {De(n) : n \in Presentes}
           f == [n \in Presentes |-> De(n)]
<1>1. /\ ~viva /\ viva' = TRUE /\ archivos' \in SetToSeqs(S) /\ op.paso = "ociosa" /\ Quieta
      /\ UNCHANGED <<bitmap, bloquesmap, metadata, op, caidas>>
  BY DEF Reiniciar, Presentes, disco, DInv, Tipos, TipoOp, Quieta
<1>2. ASSUME NEW n \in Presentes
      PROVE  De(n) \in Entrada /\ De(n).nombre = n /\ DatosDe(De(n)) = metadata[n]
  <2>1. n \in Nombres /\ metadata[n] \in TipoDatos
    BY DEF Presentes, DInv, Tipos, TypeOK
  <2>2. PICK i \in Bloques \cup {-1, -2}, t \in Tamanios \cup {0} : metadata[n] = Datos(i, t)
    BY <2>1 DEF TipoDatos, Datos
  <2> QED BY <2>1, <2>2 DEF Archivo, Entrada, Inicios, DatosDe, Datos
<1>3. S \subseteq Entrada /\ f \in [Presentes -> S] /\ \A e \in S : \E n \in Presentes : f[n] = e
  BY <1>2
<1>4. IsFiniteSet(S)
  <2>1. IsFiniteSet(Presentes)
    BY NombresFinitos, FS_Subset DEF Presentes
  <2>2. f \in Surjection(Presentes, S)
    BY <1>3 DEF Surjection
  <2> QED BY <2>1, <2>2, FS_Surjection
<1>5. PICK l \in Nat : l = Cardinality(S)
  BY <1>4, FS_CardinalityType
<1>6. archivos' \in [1..l -> S] /\ \A j, q \in 1..l : j # q => archivos'[j] # archivos'[q]
  BY <1>1, <1>5 DEF SetToSeqs
<1>7. archivos' \in Seq(Entrada) /\ DOMAIN archivos' = 1..l
  BY <1>3, <1>6
<1>8. \A e \in S : \E j \in 1..l : archivos'[j] = e
  <2>1. archivos' \in Injection(1..l, S)
    BY <1>6 DEF Injection, IsInjective
  <2>2. Cardinality(1..l) = Cardinality(S)
    BY <1>5, FS_Interval
  <2>3. archivos' \in Surjection(1..l, S)
    BY <1>4, <2>1, <2>2, FS_Injection
  <2> QED BY <2>3 DEF Surjection
<1>9. \A j \in 1..l : /\ archivos'[j].nombre \in Presentes /\ archivos'[j] = De(archivos'[j].nombre)
  <2> SUFFICES ASSUME NEW j \in 1..l
               PROVE  archivos'[j].nombre \in Presentes /\ archivos'[j] = De(archivos'[j].nombre)
    OBVIOUS
  <2>1. archivos'[j] \in S
    BY <1>6
  <2>2. PICK n \in Presentes : archivos'[j] = De(n)
    BY <2>1
  <2> QED BY <1>2, <2>2
<1>10. Presentes' = Presentes
  BY <1>1 DEF Presentes
<1>11. Lista'
  <2>1. \A j, q \in DOMAIN archivos' : archivos'[j].nombre = archivos'[q].nombre => j = q
    BY <1>6, <1>7, <1>9
  <2>2. \A j \in DOMAIN archivos' : metadata'[archivos'[j].nombre] = DatosDe(archivos'[j])
    BY <1>1, <1>2, <1>7, <1>9
  <2>3. \A n \in Presentes' : Existe(n)'
    BY <1>2, <1>7, <1>8, <1>10 DEF Existe
  <2> QED BY <2>1, <2>2, <2>3 DEF Lista
<1>12. Tipos'
  <2>1. TypeOK'
    BY <1>1, <1>7, Entradas DEF TypeOK, DInv, Tipos
  <2>2. TipoOp'
    BY <1>1 DEF TipoOp, DInv, Tipos
  <2> QED BY <1>7, <2>1, <2>2 DEF Tipos
<1>13. Quieta' /\ op'.paso = "ociosa"
  BY <1>1 DEF Quieta
<1>14. \A m \in Presentes : Previsto(m)' = Previsto(m)
  BY <1>1, <1>13, ZonaQuieta, ZonaQuietaDespues DEF Presentes
<1>15. Sueltos' = Sueltos /\ Tomados' = Tomados
  BY <1>1 DEF Sueltos, Tomados
<1>16. Enteros /\ Reparte(Zona, Sueltos, Tomados)
  BY <1>1 DEF DInv, Reparto
<1>17. Enteros' /\ Reparte(Zona, Sueltos, Tomados)'
  BY <1>1, <1>10, <1>14, <1>15, <1>16, MismasZonas
<1> QED BY <1>11, <1>12, <1>13, <1>17 DEF DInv, Reparto, Copia, EnCreacion, HayLibre, Compacta

(***************************************************************************)
(* How many blocks files take.                                             *)
(***************************************************************************)

LEMMA PartesSuma ==
  ASSUME NEW D, IsFiniteSet(D), NEW c \in [D -> Nat], NEW J \in SUBSET D, NEW i \in D \ J,
         c[i] <= CantBloques
  PROVE  /\ IsFiniteSet(Partes(c, J)) /\ Cardinality(Partes(c, J)) \in Nat
         /\ Cardinality(Partes(c, J \cup {i})) = Cardinality(Partes(c, J)) + c[i]
<1>1. \A K \in SUBSET D : IsFiniteSet(Partes(c, K)) /\ Cardinality(Partes(c, K)) \in Nat
  <2> SUFFICES ASSUME NEW K \in SUBSET D
               PROVE  IsFiniteSet(Partes(c, K)) /\ Cardinality(Partes(c, K)) \in Nat
    OBVIOUS
  <2>1. IsFiniteSet(K \X Bloques)
    BY BloquesFinitos, FS_Subset, FS_Product
  <2>2. Partes(c, K) \in SUBSET (K \X Bloques)
    BY DEF Partes
  <2> QED BY <2>1, <2>2, FS_Subset, FS_CardinalityType
<1>2. PICK q \in Nat : q = c[i] /\ q <= CantBloques
  OBVIOUS
<1>3. Partes(c, {i}) = {i} \X (0..q - 1)
  <2>1. 0..q - 1 = {b \in Bloques : b < q}
    BY <1>2, DiscoAssumption DEF Bloques
  <2> QED BY <1>2, <2>1 DEF Partes
<1>4. Cardinality(Partes(c, {i})) = q
  <2>1. IsFiniteSet({i}) /\ Cardinality({i}) = 1
    BY FS_Singleton
  <2>2. 0 \in Int /\ q - 1 \in Int /\ (IF 0 > q - 1 THEN 0 ELSE q - 1 - 0 + 1) = q
    BY <1>2
  <2>3. IsFiniteSet(0..q - 1) /\ Cardinality(0..q - 1) = q
    BY <2>2, FS_Interval
  <2>4. Cardinality({i} \X (0..q - 1)) = 1 * q
    BY <2>1, <2>3, FS_Product
  <2>5. 1 * q = q
    BY <1>2
  <2>6. Cardinality({i} \X (0..q - 1)) = q
    BY <2>4, <2>5, Zenon
  <2> QED BY <1>3, <2>6, Zenon
<1>5. /\ Partes(c, J \cup {i}) = Partes(c, J) \cup Partes(c, {i})
      /\ Partes(c, J) \cap Partes(c, {i}) = {}
  BY DEF Partes
<1>6. /\ IsFiniteSet(Partes(c, J)) /\ Cardinality(Partes(c, J)) \in Nat
      /\ IsFiniteSet(Partes(c, {i}))
  BY <1>1
<1>7. Cardinality(Partes(c, J) \cap Partes(c, {i})) = 0
  BY <1>5, FS_EmptySet
<1>8. Cardinality(Partes(c, J \cup {i})) = Cardinality(Partes(c, J)) + q - 0
  BY <1>4, <1>5, <1>6, <1>7, FS_Union
<1> QED BY <1>2, <1>6, <1>8

(***************************************************************************)
(* Compaction.                                                             *)
(***************************************************************************)

\* The files of the disk take as many blocks as the bitmap has.
LEMMA PartesTomadas ==
  ASSUME DInv, Uso, Libre, MaxCaidas = 0
  PROVE  /\ IsFiniteSet(DOMAIN archivos) /\ Largos \in [DOMAIN archivos -> Nat]
         /\ \A j \in DOMAIN archivos : archivos[j].ini \notin {-1, -2} /\ Largos[j] <= CantBloques
         /\ Cardinality(Partes(Largos, DOMAIN archivos)) + Cardinality(BloquesLibres) <= CantBloques
<1> DEFINE D == DOMAIN archivos
           P == Partes(Largos, D)
           f == [x \in P |-> archivos[x[1]].ini + x[2]]
<1>1. EnReposo /\ \A j \in D : Elegible(j)
  BY Reposo, Elegido
<1>2. IsFiniteSet(D)
  <2>1. archivos \in Seq(Entrada)
    BY DEF DInv, Tipos
  <2>2. D = 1..Len(archivos) /\ Len(archivos) \in Nat
    BY <2>1
  <2> QED BY <2>2, FS_Interval
<1>3. ASSUME NEW j \in D
      PROVE  /\ CantidadDe(archivos[j].tam) \in Nat \ {0} /\ archivos[j].ini \in Nat
             /\ archivos[j].ini..archivos[j].ini + CantidadDe(archivos[j].tam) - 1 \subseteq Bloques
             /\ Zona[archivos[j].nombre] = archivos[j].ini..archivos[j].ini + CantidadDe(archivos[j].tam) - 1
             /\ CantidadDe(archivos[j].tam) <= CantBloques
  <2>1. PICK i \in Int, c \in Nat \ {0} : i = archivos[j].ini /\ c = CantidadDe(archivos[j].tam)
    BY <1>1, Cantidades DEF Elegible, Uso
  <2>2. i..i + c - 1 \subseteq Bloques /\ Zona[archivos[j].nombre] = (i..i + c - 1) \cap Bloques
    BY <1>1, <2>1 DEF Elegible
  <2>3. i \in Bloques /\ i + c - 1 \in Bloques
    BY <2>1, <2>2
  <2>4. i \in Nat /\ c <= CantBloques
    BY <2>1, <2>3, DiscoAssumption DEF Bloques
  <2> QED BY <2>1, <2>2, <2>4
<1>4. Largos \in [D -> Nat] /\ \A j \in D : Largos[j] = CantidadDe(archivos[j].tam)
  BY <1>3 DEF Largos
<1>5. ASSUME NEW x \in P
      PROVE  /\ x[1] \in D /\ x[2] \in Nat /\ f[x] \in Zona[archivos[x[1]].nombre]
             /\ f[x] = archivos[x[1]].ini + x[2] /\ f[x] \in Bloques
  <2>1. x[1] \in D /\ x[2] \in Bloques /\ x[2] < Largos[x[1]]
    BY DEF Partes
  <2>2. PICK i \in Nat, c \in Nat \ {0}, y \in Nat :
          i = archivos[x[1]].ini /\ c = CantidadDe(archivos[x[1]].tam) /\ y = x[2]
    BY <1>3, <2>1, BloquesFinitos
  <2>3. i + y \in i..i + c - 1
    BY <1>4, <2>1, <2>2
  <2> QED BY <1>3, <2>1, <2>2, <2>3
<1>6. ASSUME NEW x \in P, NEW y \in P, f[x] = f[y] PROVE x = y
  <2>1. x[1] = y[1]
    <3>1. archivos[x[1]].nombre \in Nombres /\ archivos[y[1]].nombre \in Nombres
      BY <1>1, <1>5 DEF Elegible
    <3>2. archivos[x[1]].nombre = archivos[y[1]].nombre
      BY <1>1, <1>5, <1>6, <3>1 DEF EnReposo, Reparte
    <3>3. Lista /\ viva
      BY <1>1 DEF DInv, EnReposo
    <3> QED BY <1>5, <3>2, <3>3 DEF Lista
  <2>2. PICK i \in Nat : i = archivos[x[1]].ini
    BY <1>3, <1>5
  <2>3. x[2] = y[2]
    BY <1>5, <1>6, <2>1, <2>2
  <2>4. x = <<x[1], x[2]>> /\ y = <<y[1], y[2]>>
    BY DEF Partes
  <2> QED BY <2>1, <2>3, <2>4
<1>7. PICK T \in SUBSET Bloques : T = Tomados /\ T \cap BloquesLibres = {} /\ BloquesLibres \subseteq Bloques
                                  /\ \A x \in P : f[x] \in T
  <2>1. \A x \in P : f[x] \in Tomados
    BY <1>1, <1>5 DEF EnReposo, Reparte, Elegible
  <2> QED BY <1>1, <2>1 DEF EnReposo, BloquesLibres
<1>8. f \in Injection(P, T)
  BY <1>6, <1>7 DEF Injection, IsInjective
<1>9. IsFiniteSet(T) /\ IsFiniteSet(BloquesLibres) /\ Cardinality(T) \in Nat /\ Cardinality(BloquesLibres) \in Nat
  BY <1>7, BloquesFinitos, FS_Subset, FS_CardinalityType
<1>10. IsFiniteSet(P) /\ Cardinality(P) \in Nat /\ Cardinality(P) <= Cardinality(T)
  BY <1>8, <1>9, FS_Injection, FS_CardinalityType
<1>11. Cardinality(T \cap BloquesLibres) = 0
  BY <1>7, FS_EmptySet
<1>12. /\ Cardinality(T \cup BloquesLibres) = Cardinality(T) + Cardinality(BloquesLibres) - 0
       /\ IsFiniteSet(T \cup BloquesLibres) /\ Cardinality(T \cup BloquesLibres) \in Nat
  BY <1>9, <1>11, FS_Union, FS_CardinalityType
<1>13. Cardinality(T \cup BloquesLibres) <= CantBloques
  BY <1>7, BloquesFinitos, FS_Subset
<1>14. Cardinality(P) + Cardinality(BloquesLibres) <= CantBloques
  BY <1>9, <1>10, <1>12, <1>13, DiscoAssumption
<1> QED BY <1>2, <1>3, <1>4, <1>14, BloquesFinitos

\* compactar_y_asignar begins: there is room, and nothing is copied yet.
LEMMA PasoCompactar ==
  ASSUME DInv, Uso, NEW n \in Nombres, NEW t \in Tamanios, AmpliarCompactando(n, t)
  PROVE  DInv'
<1>1. Libre /\ archivos # <<>> /\ archivos \in Seq(Entrada)
  BY DEF AmpliarCompactando, Nombra, Pide, DInv, Tipos
<1>2. PICK k \in DOMAIN archivos : k = Buscado(n)
  BY <1>1, Busqueda
<1>3. Elegible(k) /\ EnReposo
  BY <1>1, Elegido, Reposo
<1>4. PICK c \in Nat \ {0}, d \in Nat \ {0}, u \in Int :
        /\ c = CantidadDe(archivos[k].tam) /\ d = CantidadDe(t) /\ u = d - c /\ u = Nuevos(archivos[k], t)
  <2>1. Techo(t) = CantidadDe(t) /\ CantidadDe(t) \in Nat \ {0} /\ CantidadDe(archivos[k].tam) \in Nat \ {0}
    BY <1>3, Cantidades DEF Uso, Elegible
  <2> QED BY <2>1 DEF Nuevos
<1>5. /\ u > 0 /\ Cardinality(BloquesLibres) >= u
      /\ op' = [Ociosa EXCEPT !.paso = "copia", !.k = k, !.tam = t, !.nuevos = u, !.i = 1]
      /\ UNCHANGED <<bitmap, bloquesmap, metadata, archivos, viva, caidas>>
  BY <1>2, <1>4 DEF AmpliarCompactando, disco
<1>6. MaxCaidas = 0
  <2>1. ~DeUnBloque
    BY <1>3, <1>4, <1>5, Cantidades DEF Uso, Elegible
  <2> QED BY <2>1 DEF Uso
<1>7. /\ op' \in Operaciones /\ op'.paso = "copia" /\ op'.k = k /\ op'.tam = t /\ op'.nuevos = u
      /\ op'.i = 1 /\ op'.ultimo = 0
  <2>1. k \in Nat /\ t \in Tamanios \cup {0}
    BY <1>3 DEF Elegible
  <2> QED BY <1>5, <2>1, EmpiezaCompactar, Zenon
<1>8. Tipos'
  <2>1. TypeOK'
    BY <1>5, <1>7 DEF TypeOK, DInv, Tipos
  <2>2. TipoOp'
    BY <1>3, <1>5, <1>7 DEF TipoOp, EnReposo
  <2> QED BY <1>5, <2>1, <2>2 DEF Tipos, DInv
<1>9. Lista'
  BY <1>3, <1>5 DEF DInv, Lista, Presentes, Existe, EnReposo
<1>10. Largos' = Largos /\ Copiados' = {}
  <2>1. DOMAIN archivos \subseteq Nat \ {0}
    BY <1>1
  <2> QED BY <1>5, <1>7, <2>1 DEF Largos, Copiados
<1>11. Cardinality(Partes(Largos', Copiados')) = 0
  BY <1>10, FS_EmptySet DEF Partes
<1>12. /\ \A j \in DOMAIN archivos : archivos[j].ini \notin {-1, -2} /\ CantidadDe(archivos[j].tam) <= CantBloques
       /\ Cardinality(Partes(Largos, DOMAIN archivos)) + u <= CantBloques
  <2>1. /\ \A j \in DOMAIN archivos : archivos[j].ini \notin {-1, -2} /\ Largos[j] <= CantBloques
        /\ Cardinality(Partes(Largos, DOMAIN archivos)) + Cardinality(BloquesLibres) <= CantBloques
        /\ IsFiniteSet(DOMAIN archivos) /\ Largos \in [DOMAIN archivos -> Nat]
    BY <1>1, <1>6, PartesTomadas
  <2>2. Cardinality(Partes(Largos, DOMAIN archivos)) \in Nat /\ Cardinality(BloquesLibres) \in Nat
    <3>1. IsFiniteSet((DOMAIN archivos) \X Bloques)
      BY <2>1, BloquesFinitos, FS_Product
    <3>2. Partes(Largos, DOMAIN archivos) \in SUBSET ((DOMAIN archivos) \X Bloques)
      BY DEF Partes
    <3>3. BloquesLibres \in SUBSET Bloques
      BY DEF BloquesLibres
    <3> QED BY <3>1, <3>2, <3>3, BloquesFinitos, FS_Subset, FS_CardinalityType
  <2>3. \A j \in DOMAIN archivos : Largos[j] = CantidadDe(archivos[j].tam)
    BY DEF Largos
  <2> QED BY <1>4, <1>5, <2>1, <2>2, <2>3, DiscoAssumption
<1>13. Copia'
  <2>1. op'.i <= Len(archivos) + 1 /\ op'.i > 0
    <3>1. Len(archivos) \in Nat
      BY <1>1
    <3> QED BY <1>7, <3>1
  <2>2. CantidadDe(t) = CantidadDe(archivos[k].tam) + u
    BY <1>4
  <2>3. 0..0 - 1 = {}
    OBVIOUS
  <2> QED BY <1>5, <1>7, <1>10, <1>11, <1>12, <2>1, <2>2, <2>3 DEF Copia
<1> QED BY <1>6, <1>7, <1>8, <1>9, <1>13 DEF DInv, Reparto, EnCreacion, HayLibre, Compacta

\* What a copy finds: room for what is left, after what is copied.
LEMMA HayLugar ==
  ASSUME DInv, Uso, op.paso = "copia", NEW j \in DOMAIN archivos \ Copiados
  PROVE  /\ op.ultimo \in Bloques /\ op.ultimo \in Nat /\ op.nuevos \in Nat
         /\ Largos[j] = CantidadDe(archivos[j].tam) /\ Largos[j] \in Nat \ {0}
         /\ Cardinality(Partes(Largos, Copiados \cup {j})) = op.ultimo + Largos[j]
         /\ op.ultimo + Largos[j] + op.nuevos <= CantBloques
<1> DEFINE D == DOMAIN archivos
<1>1. archivos \in Seq(Entrada) /\ Len(archivos) \in Nat /\ D = 1..Len(archivos)
  BY DEF DInv, Tipos
<1>2. IsFiniteSet(D)
  BY <1>1, FS_Interval
<1>3. ASSUME NEW l \in D PROVE Largos[l] = CantidadDe(archivos[l].tam) /\ Largos[l] \in Nat \ {0}
  <2>1. archivos[l].tam \in Tamanios \cup {0}
    <3>1. archivos[l] \in Entrada
      BY <1>1
    <3> QED BY <3>1 DEF Entrada
  <2> QED BY <2>1, Cantidades DEF Largos, Uso
<1>4. Largos \in [D -> Nat] /\ Copiados \in SUBSET D
  BY <1>3 DEF Largos, Copiados
<1>5. Copia
  BY DEF DInv
<1>6. Largos[j] <= CantBloques
  BY <1>3, <1>5 DEF Copia
<1>7. /\ Cardinality(Partes(Largos, Copiados)) \in Nat
      /\ Cardinality(Partes(Largos, Copiados \cup {j})) = Cardinality(Partes(Largos, Copiados)) + Largos[j]
  BY <1>2, <1>4, <1>6, PartesSuma
<1>8. PICK u \in Nat : u = op.ultimo /\ u = Cardinality(Partes(Largos, Copiados))
  BY <1>5, <1>7 DEF Copia
<1>9. /\ Cardinality(Partes(Largos, Copiados \cup {j})) <= Cardinality(Partes(Largos, D))
      /\ Cardinality(Partes(Largos, D)) \in Nat
  <2>1. IsFiniteSet(D \X Bloques)
    BY <1>2, BloquesFinitos, FS_Product
  <2>2. Partes(Largos, D) \in SUBSET (D \X Bloques)
    BY DEF Partes
  <2>3. IsFiniteSet(Partes(Largos, D))
    BY <2>1, <2>2, FS_Subset
  <2>4. Partes(Largos, Copiados \cup {j}) \in SUBSET Partes(Largos, D)
    BY <1>4 DEF Partes
  <2> QED BY <2>3, <2>4, FS_Subset, FS_CardinalityType
<1>10. op.nuevos \in Nat /\ Cardinality(Partes(Largos, D)) + op.nuevos <= CantBloques
  <2>1. op.nuevos \in Int
    BY DEF DInv, Tipos, TipoOp, Operaciones
  <2> QED BY <1>5, <2>1 DEF Copia
<1>11. PICK l \in Nat \ {0}, w \in Nat, p \in Nat :
         l = Largos[j] /\ w = op.nuevos /\ p = Cardinality(Partes(Largos, D))
  BY <1>3, <1>9, <1>10
<1>12. u + l + w <= CantBloques
  BY <1>7, <1>8, <1>9, <1>10, <1>11, DiscoAssumption
<1>13. u \in Bloques
  BY <1>8, <1>11, <1>12, DiscoAssumption DEF Bloques
<1> QED BY <1>3, <1>7, <1>8, <1>10, <1>11, <1>12, <1>13

LEMMA PasoSaltar ==
  ASSUME DInv, Uso, SaltarArchivo
  PROVE  DInv'
<1>1. /\ op.paso = "copia" /\ viva /\ op.k \in DOMAIN archivos /\ DOMAIN archivos = 1..Len(archivos)
      /\ Len(archivos) \in Nat /\ op \in Operaciones /\ op.i \in Nat /\ op.i > 0
  BY EnCurso DEF SaltarArchivo, DInv, Tipos, TipoOp, Operaciones, Copia
<1>2. /\ op' = [op EXCEPT !.i = op.i + 1] /\ op.i <= Len(archivos)
      /\ UNCHANGED <<bitmap, bloquesmap, metadata, archivos, viva, caidas>>
  BY DEF SaltarArchivo, disco
<1>3. op.i = op.k
  BY <1>1, <1>2 DEF SaltarArchivo, DInv, Lista
<1>4. /\ op' \in Operaciones /\ op'.paso = "copia" /\ op'.k = op.k /\ op'.tam = op.tam
      /\ op'.nuevos = op.nuevos /\ op'.i = op.i + 1 /\ op'.ultimo = op.ultimo
  BY <1>1, <1>2 DEF Operaciones
<1>5. Tipos'
  <2>1. TypeOK'
    BY <1>2, <1>4 DEF TypeOK, DInv, Tipos
  <2>2. TipoOp'
    BY <1>1, <1>2, <1>4 DEF TipoOp
  <2> QED BY <1>2, <2>1, <2>2 DEF Tipos, DInv
<1>6. Lista'
  BY <1>2 DEF DInv, Lista, Presentes, Existe
<1>7. Copiados' = Copiados /\ Largos' = Largos
  BY <1>1, <1>2, <1>3, <1>4 DEF Copiados, Largos
<1>8. Copia'
  <2>1. Copia
    BY DEF DInv
  <2>2. op'.i <= Len(archivos) + 1 /\ op'.i > 0
    BY <1>1, <1>2, <1>4
  <2> QED BY <1>1, <1>2, <1>4, <1>7, <2>1, <2>2 DEF Copia
<1> QED BY <1>1, <1>4, <1>5, <1>6, <1>8 DEF DInv, Reparto, EnCreacion, HayLibre, Compacta

LEMMA PasoCopiar ==
  ASSUME DInv, Uso, CopiarArchivo
  PROVE  DInv'
<1>1. /\ op.paso = "copia" /\ viva /\ op.k \in DOMAIN archivos /\ DOMAIN archivos = 1..Len(archivos)
      /\ Len(archivos) \in Nat /\ op \in Operaciones /\ op.i \in Nat /\ op.i > 0
      /\ op.ultimo \in Int /\ op.offset \in Int
  BY EnCurso DEF CopiarArchivo, DInv, Tipos, TipoOp, Operaciones, Copia
<1>2. PICK i \in DOMAIN archivos : i = op.i /\ i # op.k
  BY <1>1 DEF CopiarArchivo
<1>3. i \in DOMAIN archivos \ Copiados
  BY <1>1, <1>2 DEF Copiados
<1>4. PICK u \in Bloques, c \in Nat \ {0}, t \in Tamanios \cup {0} :
        /\ u = op.ultimo /\ c = Largos[i] /\ c = CantidadDe(t) /\ t = archivos[i].tam
        /\ Cardinality(Partes(Largos, Copiados \cup {i})) = u + c
        /\ u \in Nat /\ u + c <= CantBloques
  <2>1. archivos[i].tam \in Tamanios \cup {0}
    <3>1. archivos[i] \in Entrada
      BY DEF DInv, Tipos
    <3> QED BY <3>1 DEF Entrada
  <2>2. /\ op.ultimo \in Bloques /\ op.ultimo \in Nat /\ op.nuevos \in Nat
        /\ Largos[i] = CantidadDe(archivos[i].tam) /\ Largos[i] \in Nat \ {0}
        /\ Cardinality(Partes(Largos, Copiados \cup {i})) = op.ultimo + Largos[i]
        /\ op.ultimo + Largos[i] + op.nuevos <= CantBloques
    BY <1>1, <1>3, HayLugar
  <2>3. op.ultimo + Largos[i] <= CantBloques
    BY <2>2, DiscoAssumption
  <2> QED BY <2>1, <2>2, <2>3
<1>5. /\ Guardar(i, Datos(u, t)) /\ UNCHANGED <<bitmap, bloquesmap, viva, caidas>>
      /\ op' = [op EXCEPT !.i = op.i + 1, !.ultimo = op.ultimo + CantidadDe(archivos[op.i].tam),
                          !.offset = op.offset + archivos[op.i].ini]
  BY <1>2, <1>4 DEF CopiarArchivo
<1>6. archivos[i].ini \in Int /\ archivos[i].nombre \in Nombres
  <2>1. archivos[i] \in Entrada
    BY DEF DInv, Tipos
  <2>2. \A x \in Bloques \cup {-1, -2} : x \in Int
    BY BloquesFinitos
  <2> QED BY <2>1, <2>2 DEF Entrada, Inicios
<1>7. /\ op' \in Operaciones /\ op'.paso = "copia" /\ op'.k = op.k /\ op'.tam = op.tam
      /\ op'.nuevos = op.nuevos /\ op'.i = i + 1 /\ op'.ultimo = u + c
  <2>1. PICK f \in Int, e \in Int, h \in Nat :
          /\ f = op.offset + archivos[op.i].ini /\ e = u + c /\ h = i + 1
          /\ op' = [op EXCEPT !.i = h, !.ultimo = e, !.offset = f]
    <3>1. op.i = i /\ CantidadDe(archivos[op.i].tam) = c /\ op.ultimo = u
      BY <1>2, <1>4
    <3>2. op.offset + archivos[op.i].ini \in Int /\ u + c \in Int /\ i + 1 \in Nat
      BY <1>1, <1>2, <1>4, <1>6
    <3>3. op' = [op EXCEPT !.i = i + 1, !.ultimo = u + c, !.offset = op.offset + archivos[op.i].ini]
      BY <1>5, <3>1, Zenon
    <3> QED BY <3>2, <3>3
  <2> QED BY <1>1, <2>1 DEF Operaciones
<1>8. /\ archivos' \in Seq(Entrada) /\ DOMAIN archivos' = DOMAIN archivos /\ Lista'
      /\ archivos' = [archivos EXCEPT ![i] = Archivo(archivos[i].nombre, u, t)]
      /\ metadata' \in [Nombres -> TipoDatos \cup {SinArchivo}]
  <2>1. Tipos /\ Lista /\ viva /\ viva' /\ Guardar(i, Datos(u, t))
    BY <1>1, <1>5 DEF DInv
  <2>2. u \in Inicios /\ t \in Tamanios \cup {0}
    BY <1>4 DEF Inicios
  <2> QED BY <2>1, <2>2, Guardado
<1>9. /\ archivos'[i].ini = u /\ archivos'[i].tam = t /\ \A j \in DOMAIN archivos : j # i => archivos'[j] = archivos[j]
  BY <1>8 DEF Archivo
<1>10. Tipos'
  <2>1. TypeOK'
    BY <1>5, <1>7, <1>8, Entradas DEF TypeOK, DInv, Tipos
  <2>2. TipoOp'
    BY <1>1, <1>5, <1>7, <1>8 DEF TipoOp
  <2> QED BY <1>8, <2>1, <2>2 DEF Tipos
<1>11. Largos' = Largos
  <2>1. \A j \in DOMAIN archivos : archivos'[j].tam = archivos[j].tam
    BY <1>4, <1>9
  <2> QED BY <1>8, <2>1 DEF Largos
<1>12. Copiados' = Copiados \cup {i}
  BY <1>1, <1>2, <1>7, <1>8 DEF Copiados
<1>13. /\ Extension(archivos'[i]) = u..u + c - 1
       /\ \A j \in Copiados : Extension(archivos'[j]) = Extension(archivos[j])
  BY <1>3, <1>4, <1>9 DEF Extension, Copiados
<1>14. Copia
  BY DEF DInv
<1>15. Len(archivos') = Len(archivos) /\ i + 1 <= Len(archivos) + 1 /\ i + 1 > 0
  <2>1. Len(archivos') \in Nat /\ DOMAIN archivos' = 1..Len(archivos')
    BY <1>8
  <2>2. i \in Nat \ {0} /\ i <= Len(archivos)
    BY <1>1
  <2> QED BY <1>1, <1>8, <2>1, <2>2
<1>16. \A j \in DOMAIN archivos' : archivos'[j].ini \notin {-1, -2} /\ CantidadDe(archivos'[j].tam) <= CantBloques
  BY <1>1, <1>4, <1>8, <1>9, <1>14 DEF Copia
<1>17. CantidadDe(archivos'[op.k].tam) = CantidadDe(archivos[op.k].tam)
  BY <1>1, <1>2, <1>9
<1>18. \A j \in Copiados' : Extension(archivos'[j]) \subseteq 0..u + c - 1
  <2>1. \A j \in Copiados : Extension(archivos[j]) \subseteq 0..u - 1
    BY <1>1, <1>4, <1>14 DEF Copia
  <2>2. 0..u - 1 \subseteq 0..u + c - 1 /\ u..u + c - 1 \subseteq 0..u + c - 1
    BY <1>4
  <2> QED BY <1>12, <1>13, <2>1, <2>2
<1>19. \A j, l \in Copiados' : j # l => Extension(archivos'[j]) \cap Extension(archivos'[l]) = {}
  <2>1. \A j \in Copiados : Extension(archivos[j]) \subseteq 0..u - 1
    BY <1>1, <1>4, <1>14 DEF Copia
  <2>2. (0..u - 1) \cap (u..u + c - 1) = {}
    BY <1>4
  <2>3. \A j, l \in Copiados : j # l => Extension(archivos[j]) \cap Extension(archivos[l]) = {}
    BY <1>1, <1>14 DEF Copia
  <2> QED BY <1>12, <1>13, <2>1, <2>2, <2>3
<1>20. \A b \in 0..u + c - 1 : \E j \in Copiados' : b \in Extension(archivos'[j])
  <2>1. \A b \in 0..u - 1 : \E j \in Copiados : b \in Extension(archivos[j])
    BY <1>1, <1>4, <1>14 DEF Copia
  <2>2. 0..u + c - 1 = (0..u - 1) \cup (u..u + c - 1)
    BY <1>4
  <2> QED BY <1>12, <1>13, <2>1, <2>2
<1>21. Copia'
  <2>1. /\ CantidadDe(op.tam) = CantidadDe(archivos[op.k].tam) + op.nuevos /\ op.nuevos > 0
        /\ Cardinality(Partes(Largos, DOMAIN archivos)) + op.nuevos <= CantBloques
    BY <1>1, <1>14 DEF Copia
  <2>2. Cardinality(Partes(Largos', Copiados')) = u + c
    BY <1>4, <1>11, <1>12
  <2>3. op'.i <= Len(archivos') + 1 /\ op'.i > 0 /\ op'.nuevos > 0
    BY <1>7, <1>15, <2>1
  <2>4. CantidadDe(op'.tam) = CantidadDe(archivos'[op'.k].tam) + op'.nuevos
    BY <1>7, <1>17, <2>1
  <2>5. Cardinality(Partes(Largos', DOMAIN archivos')) + op'.nuevos <= CantBloques
    BY <1>7, <1>8, <1>11, <2>1
  <2>6. op'.ultimo = Cardinality(Partes(Largos', Copiados'))
    BY <1>7, <2>2
  <2>7. /\ \A j \in Copiados' : Extension(archivos'[j]) \subseteq 0..op'.ultimo - 1
        /\ \A b \in 0..op'.ultimo - 1 : \E j \in Copiados' : b \in Extension(archivos'[j])
    <3>1. op'.ultimo = u + c
      BY <1>7
    <3>2. op'.ultimo - 1 = u + c - 1
      BY <1>4, <3>1, SMT
    <3>3. 0..op'.ultimo - 1 = 0..u + c - 1
      BY <3>2, Zenon
    <3> QED BY <1>18, <1>20, <3>3, Zenon
  <2> QED BY <1>16, <1>19, <2>3, <2>4, <2>5, <2>6, <2>7 DEF Copia
<1>22. MaxCaidas = 0
  BY <1>1 DEF DInv, Compacta
<1> QED BY <1>7, <1>8, <1>10, <1>21, <1>22 DEF DInv, Reparto, EnCreacion, HayLibre, Compacta

\* The file that grows is the last one: it gets what it had and what is new.
LEMMA PasoCopiarAmpliado ==
  ASSUME DInv, Uso, CopiarAmpliado
  PROVE  DInv'
<1> DEFINE D == DOMAIN archivos
<1>1. /\ op.paso = "copia" /\ viva /\ op.k \in D /\ D = 1..Len(archivos)
      /\ Len(archivos) \in Nat /\ op \in Operaciones /\ op.i \in Nat /\ op.i > Len(archivos)
      /\ op.ultimo \in Int /\ op.nuevos \in Int /\ op.tam \in Tamanios \cup {0}
      /\ op.i <= Len(archivos) + 1
  BY EnCurso DEF CopiarAmpliado, DInv, Tipos, TipoOp, Operaciones, Copia
<1>2. PICK k \in D : k = op.k
  BY <1>1
<1>3. Copiados = D \ {k}
  BY <1>1, <1>2 DEF Copiados
<1>4. PICK u \in Bloques, c \in Nat \ {0}, t \in Tamanios \cup {0}, w \in Nat :
        /\ u = op.ultimo /\ c = CantidadDe(t) /\ t = archivos[k].tam /\ w = op.nuevos
        /\ u \in Nat /\ u + c + w <= CantBloques
  <2>1. archivos[k].tam \in Tamanios \cup {0}
    <3>1. archivos[k] \in Entrada
      BY DEF DInv, Tipos
    <3> QED BY <3>1 DEF Entrada
  <2>2. /\ op.ultimo \in Bloques /\ op.ultimo \in Nat /\ op.nuevos \in Nat
        /\ Largos[k] = CantidadDe(archivos[k].tam) /\ Largos[k] \in Nat \ {0}
        /\ op.ultimo + Largos[k] + op.nuevos <= CantBloques
    BY <1>1, <1>3, HayLugar
  <2> QED BY <2>1, <2>2
<1>5. /\ Guardar(k, Datos(u, t)) /\ UNCHANGED <<bitmap, bloquesmap, viva, caidas>>
      /\ op' = [op EXCEPT !.paso = "pisa", !.ultimo = u + c + w]
  <2>1. op' = [op EXCEPT !.paso = "pisa", !.ultimo = op.ultimo + CantidadDe(archivos[op.k].tam) + op.nuevos]
    BY DEF CopiarAmpliado
  <2>2. op.ultimo + CantidadDe(archivos[op.k].tam) + op.nuevos = u + c + w
    BY <1>2, <1>4, Zenon
  <2>3. op' = [op EXCEPT !.paso = "pisa", !.ultimo = u + c + w]
    BY <2>1, <2>2, Zenon
  <2> QED BY <1>2, <1>4, <2>3 DEF CopiarAmpliado
<1>6. op' \in Operaciones /\ op'.paso = "pisa" /\ op'.k = k /\ op'.tam = op.tam /\ op'.ultimo = u + c + w
  <2>1. u + c + w \in Int /\ "pisa" \in Pasos
    BY <1>4 DEF Pasos
  <2> QED BY <1>1, <1>2, <1>5, <2>1 DEF Operaciones
<1>7. /\ archivos' \in Seq(Entrada) /\ DOMAIN archivos' = D /\ Lista'
      /\ archivos' = [archivos EXCEPT ![k] = Archivo(archivos[k].nombre, u, t)]
      /\ \A l \in D : archivos'[l].nombre = archivos[l].nombre
      /\ metadata' \in [Nombres -> TipoDatos \cup {SinArchivo}]
      /\ metadata' = [metadata EXCEPT ![archivos[k].nombre] = Datos(u, t)]
      /\ Presentes' = Presentes
  <2>1. Tipos /\ Lista /\ viva /\ viva' /\ Guardar(k, Datos(u, t))
    BY <1>1, <1>5 DEF DInv
  <2>2. u \in Inicios /\ t \in Tamanios \cup {0}
    BY <1>4 DEF Inicios
  <2> QED BY <2>1, <2>2, Guardado
<1>8. Tipos'
  <2>1. TypeOK'
    BY <1>5, <1>6, <1>7, Entradas DEF TypeOK, DInv, Tipos
  <2>2. TipoOp'
    BY <1>1, <1>5, <1>6, <1>7 DEF TipoOp
  <2> QED BY <1>7, <2>1, <2>2 DEF Tipos
<1>9. /\ \A j \in D : archivos[j].nombre \in Presentes /\ metadata[archivos[j].nombre] = DatosDe(archivos[j])
      /\ \A n \in Nombres : n \in Presentes => \E j \in D : archivos[j].nombre = n
      /\ \A j, l \in D : archivos[j].nombre = archivos[l].nombre => j = l
      /\ Presentes \subseteq Nombres
  <2>1. Tipos /\ Lista
    BY DEF DInv
  <2> QED BY <1>1, <2>1, DeLista DEF Existe, Lista
<1>10. PICK n \in Presentes : n = archivos[k].nombre
  BY <1>9
<1>11. CantidadDe(op.tam) = c + w /\ op.tam \in Tamanios \cup {0} /\ c + w \in Nat
  BY <1>1, <1>2, <1>4 DEF DInv, Copia
<1>12. Previsto(n)' = Datos(u, op.tam)
  <2>1. metadata'[n] = Datos(u, t) /\ EsDe(n)'
    BY <1>2, <1>6, <1>7, <1>9, <1>10 DEF EsDe, DInv, Tipos, TypeOK
  <2>2. metadata'[n].ini = u
    BY <2>1 DEF Datos
  <2> QED BY <1>6, <2>1, <2>2 DEF Previsto
<1>13. ASSUME NEW j \in D, NEW m \in Nombres, j # k, m = archivos[j].nombre
       PROVE  Previsto(m)' = DatosDe(archivos[j])
  <2>1. m # n
    BY <1>9, <1>10, <1>13
  <2>2. metadata'[m] = DatosDe(archivos[j])
    BY <1>7, <1>9, <1>10, <1>13, <2>1 DEF DInv, Tipos, TypeOK
  <2>3. ~EsDe(m)'
    BY <1>2, <1>6, <1>7, <1>10, <2>1 DEF EsDe
  <2>4. op'.paso = "pisa"
    BY <1>6
  <2> QED BY <2>2, <2>3, <2>4 DEF Previsto
<1>14. Extension(Datos(u, op.tam)) = u..u + c + w - 1 /\ Datos(u, op.tam).ini = u
  <2>1. Extension(Datos(u, op.tam)) = u..u + (c + w) - 1
    BY <1>4, <1>11, Extensiones DEF Uso
  <2>2. u + (c + w) - 1 = u + c + w - 1
    BY <1>4
  <2> QED BY <2>1, <2>2 DEF Datos
<1>15. /\ \A j \in D \ {k} : Extension(archivos[j]) \subseteq 0..u - 1 /\ archivos[j].ini \notin {-1, -2}
       /\ \A j, l \in D \ {k} : j # l => Extension(archivos[j]) \cap Extension(archivos[l]) = {}
       /\ \A b \in 0..u - 1 : \E j \in D \ {k} : b \in Extension(archivos[j])
  BY <1>1, <1>3, <1>4 DEF DInv, Copia
<1>16. \A j \in D : Extension(DatosDe(archivos[j])) = Extension(archivos[j])
  BY DEF Extension, DatosDe, Datos
<1>17. /\ 0..u - 1 \subseteq Bloques /\ u..u + c + w - 1 \subseteq Bloques
       /\ (0..u - 1) \cap (u..u + c + w - 1) = {}
       /\ {b \in Bloques : b < u + c + w} = (0..u - 1) \cup (u..u + c + w - 1)
  BY <1>4, DiscoAssumption DEF Bloques
<1>18. PICK Y : Y = u..u + c + w - 1
  OBVIOUS
<1>19. Zona'[n] = Y /\ \A j \in D \ {k} : Zona'[archivos[j].nombre] = Extension(archivos[j])
  <2>1. Zona'[n] = Y
    BY <1>7, <1>9, <1>12, <1>14, <1>17, <1>18 DEF Zona
  <2>2. \A j \in D \ {k} : Zona'[archivos[j].nombre] = Extension(archivos[j])
    BY <1>7, <1>9, <1>13, <1>15, <1>16, <1>17 DEF Zona
  <2> QED BY <2>1, <2>2
<1>20. \A m \in Nombres : \/ m = n \/ (\E j \in D \ {k} : m = archivos[j].nombre) \/ Zona'[m] = {}
  BY <1>7, <1>9, <1>10 DEF Zona
<1>21. Sueltos' = {} /\ Tomados' = (0..u - 1) \cup Y
  <2>1. {b \in Bloques : b < op'.ultimo} = {b \in Bloques : b < u + c + w}
    BY <1>6, Zenon
  <2> QED BY <1>6, <1>17, <1>18, <2>1 DEF Sueltos, Tomados
<1>22. Reparte(Zona', Sueltos', Tomados')
  <2>1. ASSUME NEW m \in Nombres, NEW q \in Nombres, m # q PROVE Zona'[m] \cap Zona'[q] = {}
    <3>1. ASSUME NEW j \in D \ {k} PROVE Y \cap Zona'[archivos[j].nombre] = {}
      BY <1>15, <1>17, <1>18, <1>19
    <3>2. \A j, l \in D \ {k} : j # l => Zona'[archivos[j].nombre] \cap Zona'[archivos[l].nombre] = {}
      BY <1>15, <1>19
    <3> QED BY <1>19, <1>20, <2>1, <3>1, <3>2
  <2>2. ASSUME NEW m \in Nombres PROVE Zona'[m] \subseteq (0..u - 1) \cup Y
    BY <1>15, <1>19, <1>20
  <2>3. (0..u - 1) \cup Y \subseteq UNION {Zona'[m] : m \in Nombres}
    <3>1. ASSUME NEW b \in 0..u - 1 PROVE \E m \in Nombres : b \in Zona'[m]
      BY <1>9, <1>15, <1>19
    <3>2. n \in Nombres
      BY <1>9
    <3> QED BY <1>19, <3>1, <3>2
  <2> QED BY <1>21, <2>1, <2>2, <2>3 DEF Reparte
<1>23. Enteros'
  <2>1. Previsto(n)'.ini \notin {-1, -2} /\ Extension(Previsto(n)') \subseteq Bloques
    BY <1>4, <1>12, <1>14, <1>17, BloquesFinitos
  <2>2. ASSUME NEW j \in D \ {k}, NEW m \in Nombres, m = archivos[j].nombre
        PROVE  Previsto(m)'.ini \notin {-1, -2} /\ Extension(Previsto(m)') \subseteq Bloques
    <3>1. DatosDe(archivos[j]).ini = archivos[j].ini
      BY DEF DatosDe, Datos
    <3> QED BY <1>13, <1>15, <1>16, <1>17, <2>2, <3>1
  <2>3. \A m \in Presentes : m = n \/ \E j \in D \ {k} : m = archivos[j].nombre
    BY <1>9, <1>10
  <2> QED BY <1>7, <1>9, <2>1, <2>2, <2>3 DEF Enteros
<1>24. MaxCaidas = 0
  BY <1>1 DEF DInv, Compacta
<1> QED BY <1>6, <1>7, <1>8, <1>22, <1>23, <1>24 DEF DInv, Reparto, Copia, EnCreacion, HayLibre, Compacta

\* pisar_bloquesmap and the bitmap: the disk becomes what was copied.
LEMMA PasoPisar ==
  ASSUME DInv, Espejo, Uso, PisarBloques \/ PisarBitmap
  PROVE  DInv'
<1>1. /\ op.paso \in {"pisa", "bits"} /\ viva /\ op.k \in DOMAIN archivos /\ op \in Operaciones
      /\ op.ultimo \in Int /\ UNCHANGED <<metadata, archivos, viva, caidas>>
  BY EnCurso DEF PisarBloques, PisarBitmap, DInv, Tipos, TipoOp, Operaciones
<1>2. PICK p \in {"bits", "guarda_tamanio"} : op' = [op EXCEPT !.paso = p]
  BY DEF PisarBloques, PisarBitmap, Sigue
<1>3. op' \in Operaciones /\ op'.paso = p /\ op'.k = op.k /\ op'.tam = op.tam /\ op'.ultimo = op.ultimo
  BY <1>1, <1>2 DEF Operaciones, Pasos
<1>4. Tomados' = Tomados /\ Sueltos' = Sueltos
  <2>1. CASE PisarBloques
    <3>1. op'.paso = "bits" /\ op.paso = "pisa"
      BY <1>1, <2>1 DEF PisarBloques, Sigue, Operaciones, Pasos
    <3> QED BY <1>3, <3>1 DEF Tomados, Sueltos
  <2>2. CASE PisarBitmap
    <3>1. op'.paso = "guarda_tamanio" /\ op.paso = "bits"
      BY <1>1, <2>2 DEF PisarBitmap, Sigue, Operaciones, Pasos
    <3>2. \A b \in Bloques : bitmap'[b] = (b < op.ultimo)
      BY <2>2 DEF PisarBitmap
    <3> QED BY <3>1, <3>2 DEF Tomados, Sueltos
  <2> QED BY <2>1, <2>2
<1>5. Tipos'
  <2>1. bitmap' \in [Bloques -> BOOLEAN] /\ DOMAIN bloquesmap' = Bloques
    <3>1. CASE PisarBloques
      BY <3>1 DEF PisarBloques, DInv, Tipos, TypeOK, Espejo
    <3>2. CASE PisarBitmap
      BY <3>2 DEF PisarBitmap, DInv, Tipos, TypeOK
    <3> QED BY <3>1, <3>2
  <2>2. TypeOK'
    BY <1>1, <1>3, <2>1 DEF TypeOK, DInv, Tipos, Operaciones, Pasos
  <2>3. TipoOp'
    BY <1>1, <1>3 DEF TipoOp
  <2> QED BY <1>1, <2>2, <2>3 DEF Tipos, DInv
<1>6. Lista' /\ Presentes' = Presentes
  BY <1>1 DEF DInv, Lista, Presentes, Existe
<1>7. Enteros /\ Reparte(Zona, Sueltos, Tomados)
  BY <1>1 DEF DInv, Reparto
<1>8. \A m \in Presentes : Previsto(m)' = Previsto(m)
  BY <1>1, <1>3 DEF Previsto, EsDe
<1>9. Enteros' /\ Reparte(Zona, Sueltos, Tomados)'
  BY <1>1, <1>4, <1>6, <1>7, <1>8, MismasZonas
<1>10. MaxCaidas = 0
  BY <1>1 DEF DInv, Compacta
<1> QED BY <1>3, <1>5, <1>6, <1>9, <1>10 DEF DInv, Reparto, Copia, EnCreacion, HayLibre, Compacta

LEMMA Inicio == Uso /\ Init => DInv /\ Espejo
<1> SUFFICES ASSUME Uso, Init PROVE DInv /\ Espejo
  OBVIOUS
<1>1. /\ archivos = <<>> /\ op = Ociosa /\ viva /\ caidas = 0
      /\ \A b \in Bloques : ~bitmap[b]
      /\ bitmap \in [Bloques -> BOOLEAN] /\ DOMAIN bloquesmap = Bloques /\ DOMAIN paralelo = Bloques
      /\ metadata = [n \in Nombres |-> SinArchivo]
  BY DEF Init
<1>2. op \in Operaciones /\ op.paso = "ociosa"
  BY <1>1, OciosaEs
<1>3. archivos \in Seq(Entrada) /\ DOMAIN archivos = {}
  BY <1>1
<1>4. Presentes = {}
  BY <1>1 DEF Presentes
<1>5. Tipos
  BY <1>1, <1>2, <1>3, CotasAssumption DEF Tipos, TypeOK, TipoOp
<1>6. Lista /\ EnCreacion /\ HayLibre /\ Compacta /\ Copia
  BY <1>2, <1>3, <1>4 DEF Lista, EnCreacion, HayLibre, Compacta, Copia
<1>7. Zona = [n \in Nombres |-> {}] /\ Sueltos = {} /\ Tomados = {}
  BY <1>1, <1>2, <1>4 DEF Zona, Sueltos, Tomados
<1>8. Reparto
  BY <1>4, <1>7 DEF Reparto, Enteros, Reparte
<1> QED BY <1>1, <1>5, <1>6, <1>8 DEF DInv, Espejo

LEMMA PasoEspejo == Espejo /\ [Next]_vars => Espejo'
<1> SUFFICES ASSUME Espejo, [Next]_vars PROVE DOMAIN paralelo' = Bloques
  BY DEF Espejo
<1> USE DEF Espejo
<1>1. ASSUME NEW n \in Nombres
      PROVE  FsCreate(n) \/ FsDelete(n) \/ FsDeleteSinClaves(n) => DOMAIN paralelo' = Bloques
  BY DEF FsCreate, FsDelete, FsDeleteSinClaves
<1>2. ASSUME NEW n \in Nombres, NEW t \in Tamanios
      PROVE  ReducirTamanio(n, t) \/ AmpliarContiguo(n, t) \/ AmpliarCompactando(n, t) => DOMAIN paralelo' = Bloques
  BY DEF ReducirTamanio, AmpliarContiguo, AmpliarCompactando
<1>3. ASSUME NEW n \in Nombres, NEW j \in Escritos
      PROVE  FsWrite(n, j) \/ FsWriteAfuera(n, j) => DOMAIN paralelo' = Bloques
  BY DEF FsWrite, FsWriteAfuera, Terminar
<1>4. CrearMetadata \/ AsignarBloque \/ GuardarInicial \/ GuardarTamanio \/ SaltarArchivo \/ PisarBitmap \/ LiberarEspacio
        => DOMAIN paralelo' = Bloques
  BY DEF CrearMetadata, AsignarBloque, GuardarInicial, GuardarTamanio, SaltarArchivo, PisarBitmap,
         LiberarEspacio
<1>5. CopiarArchivo \/ CopiarAmpliado \/ PisarBloques => DOMAIN paralelo' = Bloques
  BY DEF CopiarArchivo, CopiarAmpliado, Copiar, PisarBloques
<1>6. FsInexistente \/ SinClavesTermina \/ Caida \/ Reiniciar \/ UNCHANGED vars => DOMAIN paralelo' = Bloques
  BY DEF FsInexistente, SinClavesTermina, Caida, Terminar, Reiniciar, vars
<1> QED BY <1>1, <1>2, <1>3, <1>4, <1>5, <1>6 DEF Next, Operacion

LEMMA PasoInv ==
  ASSUME Uso, DInv, Espejo, [Next]_vars
  PROVE  DInv' /\ Espejo'
<1>1. Espejo'
  BY PasoEspejo
<1>2. ASSUME NEW n \in Nombres PROVE FsCreate(n) \/ FsDelete(n) \/ FsDeleteSinClaves(n) => DInv'
  BY PasoCrear, PasoBorrar, PasoBorrarSinClaves
<1>3. ASSUME NEW n \in Nombres, NEW t \in Tamanios
      PROVE  ReducirTamanio(n, t) \/ AmpliarContiguo(n, t) \/ AmpliarCompactando(n, t) => DInv'
  BY PasoReducir, PasoAmpliarContiguo, PasoCompactar
<1>4. ASSUME NEW n \in Nombres, NEW j \in Escritos PROVE FsWrite(n, j) \/ FsWriteAfuera(n, j) => DInv'
  BY PasoEscribir, PasoTerminar
<1>5. CrearMetadata \/ AsignarBloque \/ GuardarInicial \/ GuardarTamanio \/ LiberarEspacio => DInv'
  BY PasoCrearMetadata, PasoAsignar, PasoGuardar, PasoLiberar
<1>6. CopiarArchivo \/ SaltarArchivo \/ CopiarAmpliado \/ PisarBloques \/ PisarBitmap => DInv'
  BY PasoCopiar, PasoSaltar, PasoCopiarAmpliado, PasoPisar
<1>7. FsInexistente \/ SinClavesTermina \/ Caida \/ Reiniciar => DInv'
  BY PasoTerminar, PasoReiniciar
<1>8. CASE UNCHANGED vars
  <2>1. UNCHANGED <<bitmap, bloquesmap, metadata, archivos, op, viva, caidas>>
    BY <1>8 DEF vars, disco
  <2>2. DOMAIN bloquesmap' = Bloques
    BY <2>1 DEF DInv, Tipos, TypeOK
  <2> QED BY <1>1, <2>1, <2>2, PasoAjeno
<1> QED BY <1>1, <1>2, <1>3, <1>4, <1>5, <1>6, <1>7, <1>8 DEF Next, Operacion

(***************************************************************************)
(* The theorems.                                                           *)
(***************************************************************************)

LEMMA Invariante == ASSUME Uso PROVE Spec => [](DInv /\ Espejo)
<1> DEFINE I == DInv /\ Espejo
<1>1. Init => I
  BY Inicio
<1>2. I /\ [Next]_vars => I'
  BY PasoInv
<1> HIDE DEF I
<1>3. Spec => []I
  BY <1>1, <1>2, PTL DEF Spec
<1> QED BY <1>3 DEF I

\* Every variable keeps its type: no file starts outside of the disk.
THEOREM DiscoTipado == Uso => (Spec => []TypeOK)
<1> SUFFICES ASSUME Uso PROVE Spec => []TypeOK
  OBVIOUS
<1>1. DInv => TypeOK
  BY DEF DInv, Tipos
<1> QED BY <1>1, Invariante, PTL

\* Between operations the metadata directory says the same as the list.
THEOREM DirectorioFiel == Uso => (Spec => []MetadataGuardada)
<1> SUFFICES ASSUME Uso PROVE Spec => []MetadataGuardada
  OBVIOUS
<1>1. DInv => MetadataGuardada
  <2> SUFFICES ASSUME DInv, Libre, NEW n \in Nombres
               PROVE  IF Existe(n) THEN metadata[n] = DatosDe(archivos[Buscado(n)])
                                   ELSE metadata[n] = SinArchivo
    BY DEF MetadataGuardada
  <2>1. Tipos /\ Lista /\ viva /\ archivos \in Seq(Entrada)
    BY DEF DInv, Libre, Tipos
  <2>2. CASE Existe(n)
    <3>1. archivos # <<>>
      BY <2>2 DEF Existe
    <3>2. Buscado(n) \in DOMAIN archivos /\ archivos[Buscado(n)].nombre = n
      BY <2>1, <2>2, <3>1, Busqueda
    <3> QED BY <2>1, <2>2, <3>2, DeLista
  <2>3. CASE ~Existe(n)
    BY <2>1, <2>3, DeLista DEF Presentes
  <2> QED BY <2>2, <2>3
<1> QED BY <1>1, Invariante, PTL

\* Of a block that one file has, the owners are that file.
LEMMA UnDuenio ==
  ASSUME DInv, Uso, Libre, NEW b \in Bloques
  PROVE  /\ Duenios(b) = {} \/ \E k \in DOMAIN archivos : Duenios(b) = {k}
         /\ Duenios(b) # {} => bitmap[b]
         /\ MaxCaidas = 0 /\ bitmap[b] => Duenios(b) # {}
<1>1. EnReposo /\ \A k \in DOMAIN archivos : Elegible(k)
  BY Reposo, Elegido
<1>2. ASSUME NEW k \in DOMAIN archivos
      PROVE  b \in Extension(archivos[k]) <=> b \in Zona[archivos[k].nombre]
  BY <1>1 DEF Elegible, Extension
<1>3. \A j, k \in Duenios(b) : j = k
  <2> SUFFICES ASSUME NEW j \in Duenios(b), NEW k \in Duenios(b) PROVE j = k
    OBVIOUS
  <2>1. j \in DOMAIN archivos /\ k \in DOMAIN archivos
    BY DEF Duenios
  <2>2. b \in Zona[archivos[j].nombre] /\ b \in Zona[archivos[k].nombre]
    BY <1>2, <2>1 DEF Duenios
  <2>3. archivos[j].nombre = archivos[k].nombre
    BY <1>1, <2>1, <2>2 DEF Elegible, EnReposo, Reparte
  <2> QED BY <1>1, <2>1, <2>3 DEF DInv, Lista, EnReposo
<1>4. Duenios(b) # {} => bitmap[b]
  <2> SUFFICES ASSUME NEW k \in Duenios(b) PROVE bitmap[b]
    OBVIOUS
  <2>1. k \in DOMAIN archivos /\ b \in Zona[archivos[k].nombre]
    BY <1>2 DEF Duenios
  <2>2. b \in Tomados
    BY <1>1, <2>1 DEF Elegible, EnReposo, Reparte
  <2> QED BY <1>1, <2>2 DEF EnReposo
<1>5. MaxCaidas = 0 /\ bitmap[b] => Duenios(b) # {}
  <2> SUFFICES ASSUME MaxCaidas = 0, bitmap[b] PROVE \E k \in DOMAIN archivos : b \in Extension(archivos[k])
    BY DEF Duenios
  <2>1. PICK n \in Nombres : b \in Zona[n]
    BY <1>1 DEF EnReposo, Reparte
  <2>2. n \in Presentes
    BY <2>1 DEF Zona
  <2>3. PICK k \in DOMAIN archivos : archivos[k].nombre = n
    BY <1>1, <2>2 DEF DInv, Lista, Existe, EnReposo
  <2> QED BY <1>2, <2>1, <2>3
<1>6. Duenios(b) \subseteq DOMAIN archivos
  BY DEF Duenios
<1> QED BY <1>3, <1>4, <1>5, <1>6

LEMMA CuentaDuenios ==
  ASSUME DInv, Uso, Libre, NEW b \in Bloques
  PROVE  /\ Cardinality(Duenios(b)) = IF Duenios(b) = {} THEN 0 ELSE 1
         /\ Duenios(b) # {} => bitmap[b]
         /\ MaxCaidas = 0 /\ bitmap[b] => Duenios(b) # {}
<1>1. CASE Duenios(b) = {}
  BY <1>1, UnDuenio, FS_EmptySet
<1>2. CASE Duenios(b) # {}
  <2>1. PICK k : Duenios(b) = {k}
    BY <1>2, UnDuenio
  <2> QED BY <1>2, <2>1, UnDuenio, FS_Singleton
<1> QED BY <1>1, <1>2

\* Killed at any moment, the file system gives no block to two files, and
\* every block of a file is taken in the bitmap.
THEOREM BloquesSinCompartir == Uso => (Spec => []SinSolapes)
<1> SUFFICES ASSUME Uso PROVE Spec => []SinSolapes
  OBVIOUS
<1>1. DInv => SinSolapes
  <2> SUFFICES ASSUME DInv, Libre, NEW b \in Bloques
               PROVE  Cardinality(Duenios(b)) <= 1 /\ (Duenios(b) # {} => bitmap[b])
    BY DEF SinSolapes
  <2>1. /\ Cardinality(Duenios(b)) = IF Duenios(b) = {} THEN 0 ELSE 1
        /\ Duenios(b) # {} => bitmap[b]
    BY CuentaDuenios
  <2> QED BY <2>1
<1> QED BY <1>1, Invariante, PTL

\* While nobody kills the program, between operations a block is taken
\* exactly when one file has it.
THEOREM BitmapExacto == Uso /\ MaxCaidas = 0 => (Spec => []BitmapFiel)
<1> SUFFICES ASSUME Uso, MaxCaidas = 0 PROVE Spec => []BitmapFiel
  OBVIOUS
<1>1. DInv => BitmapFiel
  <2> SUFFICES ASSUME DInv, Libre, NEW b \in Bloques
               PROVE  Cardinality(Duenios(b)) = IF bitmap[b] THEN 1 ELSE 0
    BY DEF BitmapFiel
  <2>1. /\ Cardinality(Duenios(b)) = IF Duenios(b) = {} THEN 0 ELSE 1
        /\ Duenios(b) # {} <=> bitmap[b]
    BY CuentaDuenios
  <2> QED BY <2>1
<1> QED BY <1>1, Invariante, PTL

(***************************************************************************)
(* What programs wrote, while nothing is compacted.                        *)
(***************************************************************************)

LEMMA TamPrevisto ==
  ASSUME SinCopia, op.paso # "guarda_tamanio"
  PROVE  \A m \in Nombres : Previsto(m).tam = metadata[m].tam
BY DEF SinCopia, Previsto, Datos

LEMMA TamPrevistoDespues ==
  ASSUME SinCopia', op'.paso # "guarda_tamanio"
  PROVE  \A m \in Nombres : Previsto(m)'.tam = metadata'[m].tam
BY DEF SinCopia, Previsto, Datos

\* A step that writes nothing new: each part is where it was.
LEMMA Quedan ==
  ASSUME EscritoFiel, escrito' \subseteq escrito,
         \A m \in Presentes', j \in Bloques :
           <<m, j>> \in escrito' =>
             /\ m \in Presentes
             /\ ~Creando(m) /\ j \in 0..CantidadDe(Previsto(m).tam) - 1 =>
                  /\ ~Creando(m)' /\ metadata'[m].ini = metadata[m].ini
                  /\ j \in 0..CantidadDe(Previsto(m)'.tam) - 1
                  /\ metadata[m].ini >= 0 =>
                       bloquesmap'[metadata[m].ini + j] = bloquesmap[metadata[m].ini + j]
  PROVE  EscritoFiel'
<1> SUFFICES ASSUME NEW m \in Presentes', NEW j \in Bloques, <<m, j>> \in escrito'
             PROVE  /\ ~Creando(m)' /\ j \in 0..CantidadDe(Previsto(m)'.tam) - 1
                    /\ metadata'[m].ini >= 0 => bloquesmap'[metadata'[m].ini + j] = <<m, j>>
  BY DEF EscritoFiel
<1>1. m \in Presentes /\ <<m, j>> \in escrito
  OBVIOUS
<1>2. /\ ~Creando(m) /\ j \in 0..CantidadDe(Previsto(m).tam) - 1
      /\ metadata[m].ini >= 0 => bloquesmap[metadata[m].ini + j] = <<m, j>>
  BY <1>1 DEF EscritoFiel
<1> QED BY <1>2

\* The same, when the sizes to come and the starts of the files stay.
LEMMA QuedanIguales ==
  ASSUME EscritoFiel, escrito' \subseteq escrito, UNCHANGED bloquesmap,
         \A m \in Presentes', j \in Bloques :
           <<m, j>> \in escrito' =>
             /\ m \in Presentes
             /\ ~Creando(m) => /\ ~Creando(m)' /\ metadata'[m].ini = metadata[m].ini
                               /\ Previsto(m)'.tam = Previsto(m).tam
  PROVE  EscritoFiel'
<1> SUFFICES ASSUME NEW m \in Presentes', NEW j \in Bloques, <<m, j>> \in escrito'
             PROVE  /\ m \in Presentes
                    /\ ~Creando(m) /\ j \in 0..CantidadDe(Previsto(m).tam) - 1 =>
                         /\ ~Creando(m)' /\ metadata'[m].ini = metadata[m].ini
                         /\ j \in 0..CantidadDe(Previsto(m)'.tam) - 1
                         /\ metadata[m].ini >= 0 =>
                              bloquesmap'[metadata[m].ini + j] = bloquesmap[metadata[m].ini + j]
  BY Quedan
<1> QED OBVIOUS

LEMMA LeeCrear ==
  ASSUME DInv, EscritoFiel, NEW n \in Nombres, FsCreate(n)
  PROVE  EscritoFiel' /\ SinCopia'
<1>1. /\ op.paso = "ociosa" /\ archivos \in Seq(Entrada)
      /\ metadata \in [Nombres -> TipoDatos \cup {SinArchivo}]
  BY DEF DInv, Tipos, TypeOK, FsCreate, Libre
<1>2. op'.paso = "crea" /\ op'.k = Len(archivos) + 1
  <2>1. op' = [Ociosa EXCEPT !.paso = "crea", !.k = Len(archivos) + 1]
    BY DEF FsCreate
  <2>2. Len(archivos) + 1 \in Nat
    BY <1>1
  <2> QED BY <2>1, <2>2, EmpiezaCrear, Zenon
<1>3. /\ \A m \in Nombres : m # n => metadata'[m] = metadata[m]
      /\ escrito' \subseteq escrito /\ \A j \in Bloques : <<n, j>> \notin escrito'
      /\ UNCHANGED bloquesmap
  BY <1>1 DEF FsCreate
<1>4. \A m \in Nombres : Previsto(m).tam = metadata[m].tam /\ Previsto(m)'.tam = metadata'[m].tam
  BY <1>1, <1>2, TamPrevisto, TamPrevistoDespues DEF SinCopia
<1>5. \A m \in Presentes' : m # n => m \in Presentes
  BY <1>3 DEF Presentes
<1>6. \A m \in Nombres : m # n => ~EsDe(m)'
  <2>1. archivos' = Append(archivos, Archivo(n, SinClaves.ini, SinClaves.tam))
    BY DEF FsCreate
  <2>2. archivos'[Len(archivos) + 1] = Archivo(n, SinClaves.ini, SinClaves.tam)
    BY <1>1, <2>1
  <2> QED BY <1>2, <2>2 DEF EsDe, Archivo
<1>7. EscritoFiel'
  BY <1>3, <1>4, <1>5, <1>6, QuedanIguales DEF Presentes, Creando
<1> QED BY <1>2, <1>7 DEF SinCopia

LEMMA LeeCrearMetadata ==
  ASSUME DInv, EscritoFiel, SinCopia, CrearMetadata
  PROVE  EscritoFiel' /\ SinCopia'
<1>1. PICK n \in Nombres : n = archivos[op.k].nombre
  BY EnCurso DEF CrearMetadata, DInv
<1>2. /\ op.paso = "crea" /\ op \in Operaciones /\ op' = [op EXCEPT !.paso = "asigna"]
      /\ UNCHANGED <<bloquesmap, escrito>> /\ archivos \in Seq(Entrada) /\ op.k \in DOMAIN archivos
      /\ archivos' = [archivos EXCEPT ![op.k] = Archivo(n, -1, 0)]
      /\ metadata' = [metadata EXCEPT ![n] = Datos(-1, 0)] /\ n \in Presentes
      /\ metadata \in [Nombres -> TipoDatos \cup {SinArchivo}]
  BY <1>1, EnCurso, DeLista
     DEF CrearMetadata, Guardar, Datos, Sigue, DInv, Tipos, TypeOK, TipoOp, Presentes
<1>3. op'.paso = "asigna" /\ op'.k = op.k /\ SinCopia'
  BY <1>2 DEF Operaciones, SinCopia
<1>4. archivos'[op'.k].nombre = n
  BY <1>2, <1>3 DEF Archivo
<1>5. \A m \in Nombres : m # n => metadata'[m] = metadata[m]
  BY <1>2
<1>6. \A m \in Nombres : Previsto(m).tam = metadata[m].tam /\ Previsto(m)'.tam = metadata'[m].tam
  BY <1>2, <1>3, TamPrevisto, TamPrevistoDespues
<1>7. Presentes' \subseteq Presentes
  BY <1>2, <1>5 DEF Presentes
<1>8. \A m \in Nombres : (Creando(m) <=> m = n) /\ (Creando(m)' <=> m = n)
  BY <1>1, <1>2, <1>3, <1>4 DEF Creando, EsDe
<1>9. EscritoFiel'
  BY <1>2, <1>5, <1>6, <1>7, <1>8, QuedanIguales DEF Presentes
<1> QED BY <1>3, <1>9

LEMMA LeeBorrar ==
  ASSUME DInv, EscritoFiel, NEW n \in Nombres, FsDelete(n)
  PROVE  EscritoFiel' /\ SinCopia'
<1>1. /\ op.paso = "ociosa" /\ archivos \in Seq(Entrada) /\ archivos # <<>>
      /\ metadata \in [Nombres -> TipoDatos \cup {SinArchivo}]
  BY DEF DInv, Tipos, TypeOK, FsDelete, Libre, Existe
<1>2. op'.paso = "libera"
  <2>1. PICK i \in Int, u \in Tamanios \cup {0} : i = archivos[Buscado(n)].ini /\ u = archivos[Buscado(n)].tam
    <3>1. archivos[Buscado(n)] \in Entrada
      BY <1>1, Busqueda
    <3>2. \A x \in Bloques \cup {-1, -2} : x \in Int
      BY BloquesFinitos
    <3> QED BY <3>1, <3>2 DEF Entrada, Inicios
  <2>2. op' = [Ociosa EXCEPT !.paso = "libera", !.ultimo = i, !.tam = u]
    BY <2>1 DEF FsDelete
  <2> QED BY <2>2, EmpiezaBorrar, Zenon
<1>3. /\ \A m \in Nombres : metadata'[m] = IF m = n THEN SinArchivo ELSE metadata[m]
      /\ escrito' \subseteq escrito /\ UNCHANGED bloquesmap
  BY <1>1 DEF FsDelete
<1>4. \A m \in Nombres : Previsto(m).tam = metadata[m].tam /\ Previsto(m)'.tam = metadata'[m].tam
  BY <1>1, <1>2, TamPrevisto, TamPrevistoDespues DEF SinCopia
<1>5. \A m \in Presentes' : m # n /\ m \in Presentes
  BY <1>3 DEF Presentes
<1>6. EscritoFiel'
  BY <1>2, <1>3, <1>4, <1>5, QuedanIguales DEF Presentes, Creando
<1> QED BY <1>2, <1>6 DEF SinCopia

LEMMA LeeBorrarSinClaves ==
  ASSUME DInv, EscritoFiel, NEW n \in Nombres, FsDeleteSinClaves(n)
  PROVE  EscritoFiel' /\ SinCopia'
<1>1. /\ op.paso = "ociosa" /\ op'.paso = "ociosa" /\ UNCHANGED <<bloquesmap, escrito>>
      /\ metadata \in [Nombres -> TipoDatos \cup {SinArchivo}]
      /\ metadata' = [metadata EXCEPT ![n] = SinArchivo]
  BY OciosaEs DEF DInv, Tipos, TypeOK, FsDeleteSinClaves, Libre
<1>2. \A m \in Nombres : metadata'[m] = IF m = n THEN SinArchivo ELSE metadata[m]
  BY <1>1
<1>3. SinCopia /\ SinCopia'
  BY <1>1 DEF SinCopia
<1>4. \A m \in Nombres : Previsto(m).tam = metadata[m].tam /\ Previsto(m)'.tam = metadata'[m].tam
  BY <1>1, <1>3, TamPrevisto, TamPrevistoDespues
<1>5. \A m \in Presentes' : m # n /\ m \in Presentes
  BY <1>2 DEF Presentes
<1>6. EscritoFiel'
  BY <1>1, <1>2, <1>4, <1>5, QuedanIguales DEF Presentes, Creando
<1> QED BY <1>3, <1>6

LEMMA LeeAsignar ==
  ASSUME DInv, EscritoFiel, SinCopia, AsignarBloque \/ LiberarEspacio \/ Reiniciar
  PROVE  EscritoFiel' /\ SinCopia'
<1>1. /\ UNCHANGED <<bloquesmap, metadata, escrito>> /\ op \in Operaciones
      /\ op.paso \in {"ociosa", "asigna", "libera"}
  BY DEF AsignarBloque, LiberarEspacio, Reiniciar, DInv, Tipos, TipoOp, disco
<1>2. op'.paso \in {"ociosa", "guarda_inicial"}
  <2>1. CASE AsignarBloque
    BY <1>1, <2>1 DEF AsignarBloque, Operaciones
  <2>2. CASE LiberarEspacio \/ Reiniciar
    BY <2>2, OciosaEs DEF LiberarEspacio, Reiniciar, DInv, Tipos, TipoOp
  <2> QED BY <2>1, <2>2
<1>3. SinCopia'
  BY <1>2 DEF SinCopia
<1>4. \A m \in Nombres : Previsto(m).tam = metadata[m].tam /\ Previsto(m)'.tam = metadata'[m].tam
  BY <1>1, <1>2, <1>3, TamPrevisto, TamPrevistoDespues
<1>5. Presentes' = Presentes
  BY <1>1 DEF Presentes
<1>6. \A m \in Nombres : Creando(m)' => Creando(m)
  <2>1. CASE AsignarBloque
    <3>1. op'.k = op.k /\ archivos' = archivos /\ op.paso = "asigna"
      BY <1>1, <2>1 DEF AsignarBloque, Operaciones
    <3> QED BY <3>1 DEF Creando, EsDe
  <2>2. CASE LiberarEspacio \/ Reiniciar
    <3>1. op'.paso = "ociosa"
      BY <2>2, OciosaEs DEF LiberarEspacio, Reiniciar, DInv, Tipos, TipoOp
    <3> QED BY <3>1 DEF Creando
  <2> QED BY <2>1, <2>2
<1>7. EscritoFiel'
  BY <1>1, <1>4, <1>5, <1>6, QuedanIguales DEF Presentes
<1> QED BY <1>3, <1>7

LEMMA LeeGuardar ==
  ASSUME DInv, EscritoFiel, SinCopia, GuardarInicial \/ GuardarTamanio
  PROVE  EscritoFiel' /\ SinCopia'
<1>1. PICK n \in Nombres : n = archivos[op.k].nombre
  BY EnCurso DEF GuardarInicial, GuardarTamanio, DInv
<1>2. /\ op.paso \in {"guarda_inicial", "guarda_tamanio"} /\ n \in Presentes
      /\ metadata[n] = DatosDe(archivos[op.k])
      /\ metadata \in [Nombres -> TipoDatos \cup {SinArchivo}]
  BY <1>1, EnCurso, DeLista DEF GuardarInicial, GuardarTamanio, DInv, Tipos, TypeOK, Presentes
<1>3. op'.paso = "ociosa" /\ UNCHANGED <<bloquesmap, escrito>> /\ SinCopia'
  BY OciosaEs DEF GuardarInicial, GuardarTamanio, SinCopia
<1>4. PICK d : /\ metadata' = [metadata EXCEPT ![n] = d]
               /\ op.paso = "guarda_tamanio" => d = Datos(archivos[op.k].ini, op.tam)
               /\ d \in {Datos(op.ultimo, archivos[op.k].tam), Datos(archivos[op.k].ini, op.tam)}
  BY <1>1 DEF GuardarInicial, GuardarTamanio, Guardar
<1>5. \A m \in Nombres : metadata'[m] = IF m = n THEN d ELSE metadata[m]
  BY <1>2, <1>4
<1>6. Presentes' \subseteq Presentes
  BY <1>2, <1>5 DEF Presentes
<1>7. \A m \in Nombres : Previsto(m)'.tam = metadata'[m].tam
  BY <1>3, TamPrevistoDespues
<1>8. \A m \in Nombres : m # n => Previsto(m) = metadata[m]
  BY <1>1, <1>2 DEF Previsto, EsDe
<1>9. ASSUME op.paso = "guarda_tamanio"
      PROVE  metadata'[n].ini = metadata[n].ini /\ Previsto(n).tam = metadata'[n].tam
  <2>1. Previsto(n) = Datos(metadata[n].ini, op.tam)
    BY <1>1, <1>9 DEF Previsto, EsDe
  <2>2. metadata'[n] = Datos(archivos[op.k].ini, op.tam)
    BY <1>4, <1>5, <1>9
  <2> QED BY <1>2, <2>1, <2>2 DEF Datos, DatosDe
<1>10. op.paso = "guarda_inicial" => Creando(n)
  BY <1>1 DEF Creando, EsDe
<1>11. ASSUME NEW m \in Presentes', ~Creando(m)
       PROVE  /\ m \in Presentes /\ metadata'[m].ini = metadata[m].ini
              /\ Previsto(m)'.tam = Previsto(m).tam /\ ~Creando(m)'
  <2>1. m \in Nombres /\ ~Creando(m)'
    BY <1>3, <1>6 DEF Presentes, Creando
  <2> QED BY <1>2, <1>5, <1>6, <1>7, <1>8, <1>9, <1>10, <1>11, <2>1
<1>12. EscritoFiel'
  BY <1>3, <1>6, <1>11, QuedanIguales
<1> QED BY <1>3, <1>12

\* Killed, the size that was to be saved is lost: with files of a block it
\* was the same number of blocks.
LEMMA LeeTerminar ==
  ASSUME DInv, Uso, EscritoFiel, SinCopia, Caida
  PROVE  EscritoFiel' /\ SinCopia'
<1>1. /\ UNCHANGED <<bloquesmap, metadata, escrito>> /\ op' = Ociosa /\ op \in Operaciones
      /\ metadata \in [Nombres -> TipoDatos \cup {SinArchivo}]
  BY DEF Caida, Terminar, disco, DInv, Tipos, TipoOp, TypeOK
<1>2. op'.paso = "ociosa" /\ SinCopia'
  BY <1>1, OciosaEs DEF SinCopia
<1>3. \A t \in Tamanios \cup {0} : CantidadDe(t) = 1
  <2>1. MaxCaidas # 0
    BY CotasAssumption DEF Caida, DInv, Tipos, TypeOK
  <2> QED BY <2>1, Cantidades DEF Uso
<1>4. Presentes' = Presentes
  BY <1>1 DEF Presentes
<1>5. ASSUME NEW m \in Presentes PROVE CantidadDe(Previsto(m).tam) = 1 /\ CantidadDe(Previsto(m)'.tam) = 1
  <2>1. m \in Nombres /\ metadata[m] \in TipoDatos
    BY <1>1 DEF Presentes
  <2>2. metadata[m].tam \in Tamanios \cup {0} /\ op.tam \in Tamanios \cup {0}
    BY <1>1, <2>1 DEF TipoDatos, Operaciones
  <2>3. Previsto(m).tam \in {metadata[m].tam, op.tam}
    BY DEF Previsto, Datos
  <2>4. Previsto(m)'.tam = metadata'[m].tam
    BY <1>2, <2>1, TamPrevistoDespues
  <2> QED BY <1>1, <1>3, <2>2, <2>3, <2>4
<1>6. EscritoFiel'
  BY <1>1, <1>2, <1>4, <1>5, Quedan DEF Creando
<1> QED BY <1>2, <1>6

\* The program ends between two operations.
LEMMA LeeFin ==
  ASSUME DInv, EscritoFiel, SinCopia,
         SinClavesTermina \/ \E n \in Nombres, j \in Escritos : FsWriteAfuera(n, j)
  PROVE  EscritoFiel' /\ SinCopia'
<1>1. Libre /\ Terminar
  <2>1. CASE SinClavesTermina
    BY <2>1 DEF SinClavesTermina, LeeClaves, Pide, SinCopia
  <2>2. CASE \E n \in Nombres, j \in Escritos : FsWriteAfuera(n, j)
    BY <2>2 DEF FsWriteAfuera, EnTamanio, Nombra, Pide
  <2> QED BY <2>1, <2>2
<1>2. /\ op.paso = "ociosa" /\ op'.paso = "ociosa" /\ UNCHANGED <<bloquesmap, metadata, escrito>>
  BY <1>1, OciosaEs DEF Libre, Terminar, disco
<1>3. SinCopia' /\ Presentes' = Presentes
  BY <1>2 DEF SinCopia, Presentes
<1>4. \A m \in Nombres : Previsto(m).tam = metadata[m].tam /\ Previsto(m)'.tam = metadata'[m].tam
  BY <1>2, <1>3, TamPrevisto, TamPrevistoDespues
<1>5. EscritoFiel'
  BY <1>2, <1>3, <1>4, QuedanIguales DEF Presentes, Creando
<1> QED BY <1>3, <1>5

\* A program truncates: only the size to come of its file is another one.
LEMMA LeeTruncar ==
  ASSUME DInv, Libre, NEW k \in DOMAIN archivos, NEW t \in Tamanios,
         op' = [Ociosa EXCEPT !.paso = "guarda_tamanio", !.k = k, !.tam = t],
         UNCHANGED <<metadata, archivos>>
  PROVE  /\ SinCopia' /\ Presentes' = Presentes /\ \A m : ~Creando(m)'
         /\ archivos[k] \in Entrada
         /\ metadata[archivos[k].nombre] = DatosDe(archivos[k])
         /\ \A m \in Nombres : Previsto(m).tam = metadata[m].tam
         /\ \A m \in Nombres : Previsto(m)'.tam = IF m = archivos[k].nombre THEN t ELSE metadata[m].tam
<1>1. archivos \in Seq(Entrada) /\ op.paso = "ociosa" /\ viva
  BY DEF DInv, Tipos, Libre
<1>2. k \in Nat /\ t \in Tamanios \cup {0}
  BY <1>1
<1>3. op'.paso = "guarda_tamanio" /\ op'.k = k /\ op'.tam = t
  BY <1>2, EmpiezaTruncar, Zenon
<1>4. SinCopia /\ SinCopia' /\ Presentes' = Presentes /\ \A m : ~Creando(m)'
  BY <1>1, <1>3 DEF SinCopia, Presentes, Creando
<1>5. \A m \in Nombres : Previsto(m).tam = metadata[m].tam
  BY <1>1, <1>4, TamPrevisto
<1>6. PICK n \in Nombres : n = archivos[k].nombre
  BY <1>1, Entradas
<1>7. \A m \in Nombres : EsDe(m)' <=> m = n
  BY <1>3, <1>6 DEF EsDe
<1>8. \A m \in Nombres : Previsto(m)'.tam = IF m = n THEN t ELSE metadata[m].tam
  BY <1>3, <1>7 DEF Previsto, Datos
<1> QED BY <1>1, <1>4, <1>5, <1>6, <1>8 DEF DInv, Lista

LEMMA LeeReducir ==
  ASSUME DInv, Uso, EscritoFiel, NEW n \in Nombres, NEW t \in Tamanios, ReducirTamanio(n, t)
  PROVE  EscritoFiel' /\ SinCopia'
<1>1. Libre /\ archivos # <<>> /\ archivos \in Seq(Entrada)
  BY DEF ReducirTamanio, Nombra, Pide, DInv, Tipos
<1>2. PICK k \in DOMAIN archivos : k = Buscado(n)
  BY <1>1, Busqueda
<1>3. /\ op' = [Ociosa EXCEPT !.paso = "guarda_tamanio", !.k = k, !.tam = t]
      /\ escrito' = {e \in escrito : e[1] = archivos[k].nombre => e[2] < Techo(t)}
      /\ UNCHANGED <<bloquesmap, metadata, archivos>>
  BY <1>2 DEF ReducirTamanio
<1>4. /\ SinCopia' /\ Presentes' = Presentes /\ \A m : ~Creando(m)'
      /\ \A m \in Nombres : Previsto(m).tam = metadata[m].tam
      /\ \A m \in Nombres : Previsto(m)'.tam = IF m = archivos[k].nombre THEN t ELSE metadata[m].tam
  BY <1>1, <1>3, LeeTruncar
<1>5. Techo(t) = CantidadDe(t) /\ CantidadDe(t) \in Nat
  BY Cantidades DEF Uso
<1>6. ASSUME NEW m \in Presentes, NEW j \in Bloques, <<m, j>> \in escrito',
             j \in 0..CantidadDe(Previsto(m).tam) - 1
      PROVE  j \in 0..CantidadDe(Previsto(m)'.tam) - 1
  <2>1. m \in Nombres
    BY DEF Presentes
  <2>2. CASE m = archivos[k].nombre
    <3>1. j < Techo(t)
      BY <1>3, <1>6, <2>2
    <3>2. Previsto(m)'.tam = t
      BY <1>4, <2>1, <2>2
    <3> QED BY <1>5, <3>1, <3>2, BloquesFinitos
  <2>3. CASE m # archivos[k].nombre
    <3>1. Previsto(m)'.tam = Previsto(m).tam
      BY <1>4, <2>1, <2>3
    <3> QED BY <1>6, <3>1
  <2> QED BY <2>2, <2>3
<1>7. EscritoFiel'
  BY <1>3, <1>4, <1>6, Quedan
<1> QED BY <1>4, <1>7

\* Where a part that a program wrote is: in the zone of its file, and taken.
LEMMA EnZona ==
  ASSUME DInv, Uso, EscritoFiel, Libre, NEW n \in Presentes, NEW j \in Bloques, <<n, j>> \in escrito,
         metadata[n].ini >= 0
  PROVE  /\ metadata[n].ini \in Int /\ metadata[n].ini + j \in Zona[n]
         /\ metadata[n].ini + j \in Bloques /\ bitmap[metadata[n].ini + j]
<1>1. PICK k \in DOMAIN archivos : archivos[k].nombre = n
  BY DEF DInv, Lista, Libre, Existe
<1>2. Elegible(k) /\ EnReposo
  BY Elegido, Reposo
<1>3. PICK i \in Int, c \in Nat \ {0} : i = archivos[k].ini /\ c = CantidadDe(archivos[k].tam)
  BY <1>2, Cantidades DEF Elegible, Uso
<1>4. metadata[n].ini = i /\ CantidadDe(metadata[n].tam) = c
  BY <1>1, <1>2, <1>3 DEF Elegible, DatosDe, Datos
<1>5. Previsto(n).tam = metadata[n].tam
  BY <1>2, ZonaQuieta DEF EnReposo, Presentes
<1>6. i \notin {-1, -2} /\ j \in 0..c - 1
  BY <1>3, <1>4, <1>5 DEF EscritoFiel
<1>7. i..i + c - 1 \subseteq Bloques /\ Zona[n] = i..i + c - 1
  BY <1>1, <1>2, <1>3, <1>6 DEF Elegible
<1>8. i + j \in i..i + c - 1
  BY <1>6
<1>9. i + j \in Tomados
  BY <1>2, <1>7, <1>8 DEF EnReposo, Reparte, Presentes
<1> QED BY <1>2, <1>4, <1>7, <1>8, <1>9 DEF EnReposo

LEMMA LeeAmpliar ==
  ASSUME DInv, Uso, EscritoFiel, NEW n \in Nombres, NEW t \in Tamanios, AmpliarContiguo(n, t)
  PROVE  EscritoFiel' /\ SinCopia'
<1>1. Libre /\ archivos # <<>> /\ archivos \in Seq(Entrada)
  BY DEF AmpliarContiguo, Nombra, Pide, DInv, Tipos
<1>2. PICK k \in DOMAIN archivos : k = Buscado(n)
  BY <1>1, Busqueda
<1>3. /\ op' = [Ociosa EXCEPT !.paso = "guarda_tamanio", !.k = k, !.tam = t]
      /\ UNCHANGED <<escrito, metadata, archivos>>
      /\ Contiguos(archivos[k], t) \subseteq BloquesLibres /\ Nuevos(archivos[k], t) >= 0
      /\ bloquesmap' = [b \in Bloques |-> IF b \in Contiguos(archivos[k], t) THEN Vacio ELSE bloquesmap[b]]
  BY <1>2 DEF AmpliarContiguo, HayContiguos
<1>4. /\ SinCopia' /\ Presentes' = Presentes /\ \A m : ~Creando(m)'
      /\ archivos[k] \in Entrada
      /\ metadata[archivos[k].nombre] = DatosDe(archivos[k])
      /\ \A m \in Nombres : Previsto(m).tam = metadata[m].tam
      /\ \A m \in Nombres : Previsto(m)'.tam = IF m = archivos[k].nombre THEN t ELSE metadata[m].tam
  BY <1>1, <1>3, LeeTruncar
<1>5. PICK c \in Nat, d \in Nat : c = CantidadDe(archivos[k].tam) /\ d = CantidadDe(t) /\ d >= c
  <2>1. archivos[k].tam \in Tamanios \cup {0}
    BY <1>4 DEF Entrada
  <2>2. Techo(t) = CantidadDe(t) /\ CantidadDe(t) \in Nat /\ CantidadDe(archivos[k].tam) \in Nat
    BY <2>1, Cantidades DEF Uso
  <2>3. CantidadDe(t) - CantidadDe(archivos[k].tam) >= 0
    BY <1>3, <2>2 DEF Nuevos
  <2> QED BY <2>2, <2>3
<1>6. ASSUME NEW m \in Presentes, NEW j \in Bloques, <<m, j>> \in escrito,
             j \in 0..CantidadDe(Previsto(m).tam) - 1
      PROVE  /\ j \in 0..CantidadDe(Previsto(m)'.tam) - 1
             /\ metadata[m].ini >= 0 =>
                  bloquesmap'[metadata[m].ini + j] = bloquesmap[metadata[m].ini + j]
  <2>1. m \in Nombres
    BY DEF Presentes
  <2>2. j \in 0..CantidadDe(Previsto(m)'.tam) - 1
    <3>1. CASE m = archivos[k].nombre
      <4>1. Previsto(m).tam = archivos[k].tam /\ Previsto(m)'.tam = t
        BY <1>4, <2>1, <3>1 DEF DatosDe, Datos
      <4>2. j \in 0..c - 1
        BY <1>5, <1>6, <4>1
      <4>3. j \in 0..d - 1
        BY <1>5, <4>2
      <4> QED BY <1>5, <4>1, <4>3
    <3>2. CASE m # archivos[k].nombre
      <4>1. Previsto(m)'.tam = Previsto(m).tam
        BY <1>4, <2>1, <3>2
      <4> QED BY <1>6, <4>1
    <3> QED BY <3>1, <3>2
  <2>3. metadata[m].ini >= 0 => metadata[m].ini + j \in Bloques /\ bitmap[metadata[m].ini + j]
    BY <1>1, <1>6, EnZona
  <2> QED BY <1>3, <2>2, <2>3 DEF BloquesLibres
<1>7. EscritoFiel'
  BY <1>3, <1>4, <1>6, Quedan
<1> QED BY <1>4, <1>7

LEMMA LeeEscribir ==
  ASSUME DInv, Uso, ~Inexistentes, EscritoFiel, SinCopia, NEW n \in Nombres, NEW j \in Escritos, FsWrite(n, j)
  PROVE  EscritoFiel' /\ SinCopia'
<1>1. Libre /\ archivos # <<>> /\ archivos \in Seq(Entrada) /\ Existe(n)
  BY DEF FsWrite, EnTamanio, Nombra, Pide, DInv, Tipos
<1>2. PICK k \in DOMAIN archivos : k = Buscado(n) /\ archivos[k].nombre = n
  BY <1>1, Busqueda
<1>3. Elegible(k) /\ EnReposo
  BY <1>1, Elegido, Reposo
<1>4. PICK i \in Int, u \in Tamanios \cup {0} : i = archivos[k].ini /\ u = archivos[k].tam
  BY <1>3 DEF Elegible
<1>5. /\ j * TamBloque < u /\ j \in Bloques
      /\ bloquesmap' = [b \in Bloques |-> IF b = i + j THEN <<n, j>> ELSE bloquesmap[b]]
      /\ escrito' = escrito \cup {<<n, j>>}
      /\ UNCHANGED <<bitmap, metadata, archivos, op, viva, caidas>>
  BY <1>2, <1>4, CotasAssumption DEF FsWrite, EnTamanio, BloqueDe
<1>6. PICK c \in Nat \ {0} : c = CantidadDe(u) /\ u = c * TamBloque
  <2>1. u \in Tamanios
    <3>1. j \in Nat /\ TamBloque \in Nat
      BY <1>5, BloquesFinitos, DiscoAssumption
    <3>2. j * TamBloque >= 0
      BY <3>1
    <3>3. u # 0
      BY <1>5, <3>1, <3>2
    <3> QED BY <3>3
  <2>2. PICK q \in Nat \ {0} : u = q * TamBloque
    BY <2>1 DEF Uso, Llenos
  <2>3. u # 0
    BY <2>1, Cantidades DEF Uso
  <2>4. CantidadDe(u) = q
    BY <2>2, <2>3, Multiplo DEF CantidadDe
  <2> QED BY <2>2, <2>4
<1>7. j \in 0..c - 1
  <2>1. j \in Nat /\ TamBloque \in Nat \ {0} /\ j * TamBloque < c * TamBloque
    BY <1>5, <1>6, BloquesFinitos, DiscoAssumption
  <2>2. ASSUME j >= c PROVE FALSE
    <3>1. j * TamBloque >= c * TamBloque
      BY <2>1, <2>2
    <3>2. j * TamBloque \in Int /\ c * TamBloque \in Int
      BY <2>1
    <3> QED BY <2>1, <3>1, <3>2
  <2> QED BY <2>1, <2>2
<1>8. /\ n \in Presentes /\ metadata[n].ini = i /\ metadata[n].tam = u
      /\ Zona[n] = (i..i + c - 1) \cap Bloques /\ i + j \in i..i + c - 1
  BY <1>2, <1>3, <1>4, <1>6, <1>7 DEF Elegible, DatosDe, Datos
<1>9. IF i >= 0 THEN i + j \in Zona[n] /\ i + j \in Bloques ELSE i + j \notin Bloques
  <2>1. CASE i >= 0
    <3>1. i..i + c - 1 \subseteq Bloques
      BY <1>3, <1>4, <1>6, <2>1 DEF Elegible
    <3> QED BY <1>8, <2>1, <3>1
  <2>2. CASE ~(i >= 0)
    <3>1. archivos[k].ini \in {-1, -2}
      BY <1>3, <1>4, <2>2, BloquesFinitos DEF Elegible, Entrada, Inicios
    <3>2. MaxCaidas # 0
      BY <1>3, <3>1 DEF Elegible
    <3>3. c = 1
      BY <1>6, <3>2, Cantidades DEF Uso
    <3>4. j = 0
      BY <1>7, <3>3
    <3> QED BY <2>2, <3>4, BloquesFinitos
  <2> QED BY <2>1, <2>2
<1>10. /\ Presentes' = Presentes /\ SinCopia'
       /\ \A m : ~Creando(m)'
       /\ \A m \in Presentes : Previsto(m).tam = metadata[m].tam /\ Previsto(m)'.tam = metadata[m].tam
  <2>1. op.paso # "guarda_tamanio" /\ SinCopia' /\ \A m : ~Creando(m)'
    BY <1>3, <1>5 DEF EnReposo, SinCopia, Creando
  <2> QED BY <1>5, <2>1, TamPrevisto, TamPrevistoDespues DEF Presentes
<1>11. ASSUME NEW m \in Presentes, NEW l \in Bloques, <<m, l>> \in escrito'
       PROVE  /\ l \in 0..CantidadDe(metadata[m].tam) - 1
              /\ metadata[m].ini >= 0 => bloquesmap'[metadata[m].ini + l] = <<m, l>>
  <2>1. CASE m = n /\ l = j
    <3>1. i >= 0 => bloquesmap'[i + j] = <<n, j>>
      BY <1>5, <1>9
    <3> QED BY <1>6, <1>7, <1>8, <2>1, <3>1
  <2>2. CASE ~(m = n /\ l = j)
    <3>1. <<m, l>> \in escrito
      BY <1>5, <1>11, <2>2
    <3>2. /\ l \in 0..CantidadDe(metadata[m].tam) - 1
          /\ metadata[m].ini >= 0 => bloquesmap[metadata[m].ini + l] = <<m, l>>
      BY <1>10, <3>1 DEF EscritoFiel
    <3>3. ASSUME metadata[m].ini >= 0
          PROVE  /\ metadata[m].ini \in Int /\ metadata[m].ini + l \in Zona[m]
                 /\ metadata[m].ini + l \in Bloques
      BY <1>1, <3>1, <3>3, EnZona
    <3>4. ASSUME metadata[m].ini >= 0 PROVE metadata[m].ini + l # i + j
      <4>1. CASE m = n
        <5>1. l # j /\ l \in Int /\ j \in Int
          BY <1>5, <2>2, <4>1, BloquesFinitos
        <5> QED BY <1>8, <4>1, <5>1
      <4>2. CASE m # n
        BY <1>3, <1>9, <3>3, <3>4, <4>2 DEF EnReposo, Reparte, Presentes
      <4> QED BY <4>1, <4>2
    <3>5. ASSUME metadata[m].ini >= 0
          PROVE  bloquesmap'[metadata[m].ini + l] = bloquesmap[metadata[m].ini + l]
      BY <1>5, <3>3, <3>4, <3>5
    <3> QED BY <3>2, <3>5
  <2> QED BY <2>1, <2>2
<1>12. EscritoFiel'
  BY <1>5, <1>10, <1>11 DEF EscritoFiel
<1> QED BY <1>10, <1>12

LEMMA PasoLecturas ==
  ASSUME DInv, Uso, ~Inexistentes, EscritoFiel, SinCopia, [Next]_vars, op'.paso # "copia"
  PROVE  EscritoFiel' /\ SinCopia'
<1>1. ASSUME NEW n \in Nombres
      PROVE  FsCreate(n) \/ FsDelete(n) \/ FsDeleteSinClaves(n) => EscritoFiel' /\ SinCopia'
  BY LeeCrear, LeeBorrar, LeeBorrarSinClaves
<1>2. ASSUME NEW n \in Nombres, NEW t \in Tamanios
      PROVE  ReducirTamanio(n, t) \/ AmpliarContiguo(n, t) => EscritoFiel' /\ SinCopia'
  BY LeeReducir, LeeAmpliar
<1>3. ASSUME NEW n \in Nombres, NEW t \in Tamanios PROVE ~AmpliarCompactando(n, t)
  <2> SUFFICES ASSUME AmpliarCompactando(n, t) PROVE FALSE
    OBVIOUS
  <2>1. PICK k \in Nat, u \in Int :
          op' = [Ociosa EXCEPT !.paso = "copia", !.k = k, !.tam = t, !.nuevos = u, !.i = 1]
    <3>1. archivos # <<>> /\ archivos \in Seq(Entrada)
      BY DEF AmpliarCompactando, Nombra, Pide, DInv, Tipos
    <3>2. Buscado(n) \in DOMAIN archivos
      BY <3>1, Busqueda
    <3>3. archivos[Buscado(n)] \in Entrada
      BY <3>1, <3>2
    <3>4. archivos[Buscado(n)].tam \in Tamanios \cup {0}
      BY <3>3 DEF Entrada
    <3>5. Techo(t) \in Int /\ CantidadDe(archivos[Buscado(n)].tam) \in Int
      BY <3>4, Cantidades DEF Uso
    <3>6. Buscado(n) \in Nat /\ Nuevos(archivos[Buscado(n)], t) \in Int
      BY <3>1, <3>2, <3>5 DEF Nuevos
    <3> QED BY <3>6 DEF AmpliarCompactando
  <2>2. op'.paso = "copia"
    BY <2>1, EmpiezaCompactar, Zenon
  <2> QED BY <2>2
<1>4. ASSUME NEW n \in Nombres, NEW j \in Escritos
      PROVE  FsWrite(n, j) \/ FsWriteAfuera(n, j) => EscritoFiel' /\ SinCopia'
  BY LeeEscribir, LeeFin
<1>5. CrearMetadata \/ AsignarBloque \/ GuardarInicial \/ GuardarTamanio \/ LiberarEspacio \/ Reiniciar
        => EscritoFiel' /\ SinCopia'
  BY LeeCrearMetadata, LeeAsignar, LeeGuardar
<1>6. ~CopiarArchivo /\ ~SaltarArchivo /\ ~CopiarAmpliado /\ ~PisarBloques /\ ~PisarBitmap
  BY DEF SinCopia, CopiarArchivo, SaltarArchivo, CopiarAmpliado, PisarBloques, PisarBitmap
<1>7. ~FsInexistente
  BY DEF FsInexistente
<1>8. Caida \/ SinClavesTermina => EscritoFiel' /\ SinCopia'
  BY LeeTerminar, LeeFin
<1>9. CASE UNCHANGED vars
  <2>1. UNCHANGED <<metadata, bloquesmap, archivos, op, escrito>>
    BY <1>9 DEF vars, disco
  <2>2. \A m \in Presentes : Previsto(m)' = Previsto(m)
    BY <2>1 DEF Previsto, EsDe
  <2>3. Presentes' = Presentes /\ \A m : Creando(m)' <=> Creando(m)
    BY <2>1 DEF Presentes, Creando, EsDe
  <2> QED BY <2>1, <2>2, <2>3, QuedanIguales DEF SinCopia
<1> QED BY <1>1, <1>2, <1>3, <1>4, <1>5, <1>6, <1>7, <1>8, <1>9 DEF Next, Operacion

\* What a program reads: what was written, where the list says.
LEMMA Lee ==
  ASSUME DInv, EscritoFiel
  PROVE  LecturaFiel
<1> SUFFICES ASSUME Libre, NEW n \in Nombres, NEW j \in Bloques, <<n, j>> \in escrito, Existe(n),
                    archivos[Buscado(n)].ini + 0 >= 0
             PROVE  bloquesmap[archivos[Buscado(n)].ini + j] = <<n, j>>
  BY DEF LecturaFiel, BloqueDe
<1>1. archivos \in Seq(Entrada) /\ archivos # <<>> /\ viva
  BY DEF DInv, Tipos, Libre, Existe
<1>2. Buscado(n) \in DOMAIN archivos /\ archivos[Buscado(n)].nombre = n
  BY <1>1, Busqueda
<1>3. n \in Presentes /\ metadata[n] = DatosDe(archivos[Buscado(n)])
  BY <1>1, <1>2, DeLista DEF DInv
<1>4. metadata[n].ini = archivos[Buscado(n)].ini
  BY <1>3 DEF DatosDe, Datos
<1>5. archivos[Buscado(n)].ini \in Int
  <2>1. \A x \in Bloques \cup {-1, -2} : x \in Int
    BY BloquesFinitos
  <2>2. archivos[Buscado(n)] \in Entrada
    BY <1>1, <1>2
  <2> QED BY <2>1, <2>2 DEF Entrada, Inicios
<1>6. metadata[n].ini >= 0
  BY <1>4, <1>5
<1> QED BY <1>3, <1>4, <1>6 DEF EscritoFiel

\* Files of a block do not grow.
LEMMA NuncaCopia ==
  ASSUME DInv, Uso, DeUnBloque
  PROVE  op.paso # "copia"
<1> SUFFICES ASSUME op.paso = "copia" PROVE FALSE
  OBVIOUS
<1>1. archivos[op.k] \in Entrada /\ op \in Operaciones /\ Copia
  BY EnCurso DEF DInv, Tipos, TipoOp
<1>2. archivos[op.k].tam \in Tamanios \cup {0} /\ op.tam \in Tamanios \cup {0} /\ op.nuevos \in Int
  BY <1>1 DEF Entrada, Operaciones
<1>3. CantidadDe(archivos[op.k].tam) = 1 /\ CantidadDe(op.tam) = 1
  BY <1>2, Cantidades DEF Uso
<1>4. op.nuevos > 0 /\ 1 = 1 + op.nuevos
  BY <1>1, <1>3 DEF Copia
<1> QED BY <1>2, <1>4

LEMMA InicioLecturas == Init => EscritoFiel /\ SinCopia
BY OciosaEs DEF Init, EscritoFiel, SinCopia

\* What programs write in a file that has a block is what they read from it,
\* however files are created, deleted and truncated and whenever the program
\* is killed, as long as nothing is compacted.  What they write in a file that
\* was left without one is lost (see EscritoConBloque).
THEOREM LecturaSinCompactar ==
  Uso /\ ~Inexistentes => (Spec /\ [][op'.paso # "copia"]_vars => []LecturaFiel)
<1> SUFFICES ASSUME Uso, ~Inexistentes PROVE Spec /\ [][op'.paso # "copia"]_vars => []LecturaFiel
  OBVIOUS
<1> DEFINE I == DInv /\ Espejo
           J == EscritoFiel /\ SinCopia
           C == op'.paso # "copia"
<1>1. Spec => []I
  BY Invariante
<1>2. Init => J
  BY InicioLecturas
<1>3. I /\ J /\ [Next]_vars /\ [C]_vars => J'
  <2> SUFFICES ASSUME I, J, [Next]_vars, [C]_vars PROVE J'
    OBVIOUS
  <2>1. op'.paso # "copia"
    BY DEF vars, SinCopia
  <2> QED BY <2>1, PasoLecturas
<1>4. I /\ J => LecturaFiel
  BY Lee
<1> HIDE DEF I, J, C
<1>5. Spec /\ [][C]_vars => []LecturaFiel
  BY <1>1, <1>2, <1>3, <1>4, PTL DEF Spec
<1> QED BY <1>5 DEF C

\* With files of a block at most there is never anything to compact: what
\* programs write in one that has its block is what they read.
THEOREM LecturaConservada ==
  Uso /\ DeUnBloque /\ ~Inexistentes => (Spec => []LecturaFiel)
<1> SUFFICES ASSUME Uso, DeUnBloque, ~Inexistentes PROVE Spec => []LecturaFiel
  OBVIOUS
<1> DEFINE I == DInv /\ Espejo
           J == EscritoFiel /\ SinCopia
           N == op.paso # "copia"
<1>1. Spec => []I
  BY Invariante
<1>2. Init => J
  BY InicioLecturas
<1>3. I /\ J /\ [Next]_vars /\ N' => J'
  BY PasoLecturas
<1>5. I => N
  BY NuncaCopia
<1>4. I /\ J => LecturaFiel
  BY Lee
<1> HIDE DEF I, J, N
<1> QED BY <1>1, <1>2, <1>3, <1>4, <1>5, PTL DEF Spec
=============================================================================
