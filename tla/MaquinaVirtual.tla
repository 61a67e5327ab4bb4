---------------------------- MODULE MaquinaVirtual ----------------------------
(***************************************************************************)
(* What the CPU and the Kernel promise to a program: a machine of its own. *)
(* Nothing but its own instructions, each whole and in its turn, changes   *)
(* its registers, whatever the others do and however often it is           *)
(* preempted; each of its I/O requests reaches the Kernel once; and it     *)
(* ends by EXIT, by an instruction that fails or by order of the console.  *)
(***************************************************************************)
EXTENDS Instrucciones

CONSTANTS Programas   \* the instructions of each process

VARIABLES
  regs,        \* registers of each process
  pedidos,     \* I/O requests of each process, in order
  terminados,
  condenados   \* the console asked for their end

vars == <<regs, pedidos, terminados, condenados>>

Procesos == DOMAIN Programas

\* What a line says besides its instruction and its parameters is lost.
Instruccion(p) ==
  LET i == Programas[p][regs[p]["PC"] + 1]
  IN [i EXCEPT !.parametros = SubSeq(@, 1, cantidad_parametros_instruccion(i.codigo))]

Init ==
  /\ regs = [p \in Procesos |-> Nuevos]
  /\ pedidos = [p \in Procesos |-> <<>>]
  /\ terminados = {} /\ condenados = {}

Ejecutar(p) ==
  LET i == Instruccion(p) IN
  /\ p \notin terminados /\ i.codigo # "EXIT"
  /\ regs' = [regs EXCEPT ![p] = Efecto(Avanzar(@), i)]
  /\ pedidos' = IF i.codigo \in DeIO
                THEN [pedidos EXCEPT ![p] = Append(@, Resuelta(p, regs[p], i))]
                ELSE pedidos
  /\ UNCHANGED <<terminados, condenados>>

Terminar(p) ==
  /\ p \notin terminados
  /\ p \in condenados \/ Instruccion(p).codigo \in {"EXIT", "RESIZE", "WAIT", "SIGNAL"}
  /\ terminados' = terminados \cup {p}
  /\ regs' = [regs EXCEPT ![p] = Nuevos]
  /\ UNCHANGED <<pedidos, condenados>>

Condenar(p) ==
  /\ condenados' = condenados \cup {p}
  /\ UNCHANGED <<regs, pedidos, terminados>>

Next == \E p \in Procesos : Ejecutar(p) \/ Terminar(p) \/ Condenar(p)
Spec == Init /\ [][Next]_vars
=============================================================================
