----------------------------- MODULE Instrucciones -----------------------------
(***************************************************************************)
(* The instruction set: registers and their widths, what each instruction  *)
(* does to them, the text Memoria reads and the streams in which           *)
(* instructions and execution contexts (t_cde) travel.                     *)
(***************************************************************************)
EXTENDS Integers, SequencesExt

CONSTANTS
  Mod8, Mod32,    \* 2^8 and 2^32
  TamPagina,      \* TAM_PAGINA
  MarcosDe        \* frames of each process, by page: what the MMU finds

\* A uint32_t assigned to a uint8_t keeps its low bits.
ASSUME ModuloAssumption == Mod8 \in Nat \ {0} /\ Mod32 \in Nat \ {0} /\ Mod32 % Mod8 = 0
ASSUME TamPaginaAssumption == TamPagina \in Nat \ {0}

Registros8 == {"AX", "BX", "CX", "DX"}
Registros == Registros8 \cup {"EAX", "EBX", "ECX", "EDX", "SI", "DI", "PC"}
Modulo(r) == IF r \in Registros8 THEN Mod8 ELSE Mod32
Nuevos == [r \in Registros |-> 0]

DeIO == {"IO_GEN_SLEEP", "IO_STDIN_READ", "IO_STDOUT_WRITE", "IO_FS_CREATE", "IO_FS_DELETE",
         "IO_FS_TRUNCATE", "IO_FS_WRITE", "IO_FS_READ"}
Codigos == {"SET", "MOV_IN", "MOV_OUT", "SUM", "SUB", "JNZ", "RESIZE", "COPY_STRING", "WAIT",
            "SIGNAL", "EXIT"} \cup DeIO

es_bloqueante(c) == c \in {"WAIT", "SIGNAL", "EXIT"} \cup DeIO

cantidad_parametros_instruccion(c) ==
  CASE c \in {"IO_FS_WRITE", "IO_FS_READ"} -> 5
    [] c \in {"IO_STDIN_READ", "IO_STDOUT_WRITE", "IO_FS_TRUNCATE"} -> 3
    [] c \in {"SET", "SUM", "SUB", "JNZ", "MOV_IN", "MOV_OUT", "IO_GEN_SLEEP", "IO_FS_CREATE",
              "IO_FS_DELETE"} -> 2
    [] c \in {"RESIZE", "WAIT", "SIGNAL", "COPY_STRING"} -> 1
    [] OTHER -> 0

\* A parameter: a name (register, interface, resource, file) or a number.
Nombre(n) == [nombre |-> n, valor |-> 0]
Numero(v) == [nombre |-> "", valor |-> v]

(***************************************************************************)
(* Effect on the registers.                                                *)
(***************************************************************************)
\* PC cannot be read, nor a register that does not exist.
buscar_valor_registro(regs, r) == IF r \in Registros \ {"PC"} THEN regs[r] ELSE 0

\* Mutation: the registers of one byte have no width.
EscribirSinAncho(regs, r, v) == [regs EXCEPT ![r] = v]
Escribir(regs, r, v) == [regs EXCEPT ![r] = v % Modulo(r)]

ejecutar_set(regs, r, v) == IF r \in Registros THEN Escribir(regs, r, v) ELSE regs

\* SI and DI are not added to: they take the value of the other register.
Operar(regs, dest, con_lo_que_tiene, v) ==
  IF dest \in {"SI", "DI"} THEN Escribir(regs, dest, v)
  ELSE IF dest \in Registros \ {"PC"} THEN Escribir(regs, dest, con_lo_que_tiene)
  ELSE regs
ejecutar_sum(regs, dest, origen) ==
  LET v == buscar_valor_registro(regs, origen)
  IN Operar(regs, dest, buscar_valor_registro(regs, dest) + v, v)
ejecutar_sub(regs, dest, origen) ==
  LET v == buscar_valor_registro(regs, origen)
  IN Operar(regs, dest, buscar_valor_registro(regs, dest) - v, v)

ejecutar_jnz(regs, r, destino) ==
  IF buscar_valor_registro(regs, r) # 0 THEN Escribir(regs, "PC", destino) ELSE regs

\* ejecutar_instruccion, on the registers.
Efecto(regs, i) ==
  LET p(k) == i.parametros[k] IN
  CASE i.codigo = "SET" -> ejecutar_set(regs, p(1).nombre, p(2).valor)
    [] i.codigo = "SUM" -> ejecutar_sum(regs, p(1).nombre, p(2).nombre)
    [] i.codigo = "SUB" -> ejecutar_sub(regs, p(1).nombre, p(2).nombre)
    [] i.codigo = "JNZ" -> ejecutar_jnz(regs, p(1).nombre, p(2).valor)
    [] OTHER -> regs

Avanzar(regs) == Escribir(regs, "PC", regs["PC"] + 1)

(***************************************************************************)
(* What goes to the devices: registers become numbers, and the address a   *)
(* physical one.                                                           *)
(***************************************************************************)
DirFisica(pid, d) == MarcosDe[pid][1 + (d \div TamPagina)] * TamPagina + (d % TamPagina)

Resuelta(pid, regs, i) ==
  LET v(k) == buscar_valor_registro(regs, i.parametros[k].nombre)
      cambiar(fisicas, valores) ==
        [i EXCEPT !.parametros =
           [k \in DOMAIN @ |-> CASE k \in fisicas -> Numero(DirFisica(pid, v(k)))
                                 [] k \in valores -> Numero(v(k))
                                 [] OTHER -> @[k]]]
  IN CASE i.codigo \in {"IO_STDIN_READ", "IO_STDOUT_WRITE"} -> cambiar({2}, {3})
       [] i.codigo = "IO_FS_TRUNCATE" -> cambiar({}, {3})
       [] i.codigo \in {"IO_FS_WRITE", "IO_FS_READ"} -> cambiar({3}, {4, 5})
       [] OTHER -> i

(***************************************************************************)
(* The file of instructions: one per line, blank lines skipped, words      *)
(* after the fifth parameter lost.                                         *)
(***************************************************************************)
obtener_codigo_instruccion(palabra) == IF palabra.nombre \in Codigos THEN palabra.nombre ELSE "NULO"

levantar_instrucciones(lineas) ==
  LET escritas == SelectSeq(lineas, LAMBDA l : l # <<>>) IN
  [k \in DOMAIN escritas |->
     [codigo |-> obtener_codigo_instruccion(escritas[k][1]),
      parametros |-> SubSeq(escritas[k], 2, IF Len(escritas[k]) > 6 THEN 6 ELSE Len(escritas[k]))]]

(***************************************************************************)
(* Streams.  The writer sends the parameters there are, the reader takes   *)
(* those the code of the instruction says.                                 *)
(***************************************************************************)
buffer_write_instruccion(i) == <<i.codigo>> \o i.parametros
buffer_read_instruccion(s) ==
  [codigo |-> s[1], parametros |-> SubSeq(s, 2, 1 + cantidad_parametros_instruccion(s[1]))]

buffer_write_registros(regs) ==
  <<regs["AX"], regs["BX"], regs["CX"], regs["DX"], regs["EAX"], regs["EBX"], regs["ECX"],
    regs["EDX"], regs["PC"], regs["DI"], regs["SI"]>>

OrdenLeido == <<"AX", "BX", "CX", "DX", "EAX", "EBX", "ECX", "EDX", "PC", "DI", "SI">>
buffer_read_registros(s) ==
  [r \in Registros |-> s[CHOOSE k \in DOMAIN OrdenLeido : OrdenLeido[k] = r]]

\* motivo_finalizacion, which only the log shows, is left out.
buffer_write_cde(c) ==
  <<c.pid, c.motivo_desalojo>> \o buffer_write_registros(c.registros)
    \o buffer_write_instruccion(c.ultima_instruccion)
buffer_read_cde(s) ==
  [pid |-> s[1], motivo_desalojo |-> s[2],
   registros |-> buffer_read_registros(SubSeq(s, 3, 2 + Cardinality(Registros))),
   ultima_instruccion |-> buffer_read_instruccion(SubSeq(s, 3 + Cardinality(Registros), Len(s)))]
=============================================================================
