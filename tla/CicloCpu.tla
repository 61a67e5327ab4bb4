------------------------------- MODULE CicloCpu -------------------------------
(***************************************************************************)
(* The instruction cycle of the CPU and its two threads: "dispatch", that  *)
(* runs the process the Kernel sends, and the one that reads the           *)
(* interrupts.  They share three flags, the pid that runs and the code of  *)
(* the instruction being executed.  Memoria gives the instructions; of the *)
(* Kernel there is what reads and writes the two sockets of the CPU.       *)
(***************************************************************************)
EXTENDS Instrucciones

CONSTANTS
  Textos,              \* the file of instructions of each process
  MaxInterrupciones,   \* bound: messages in the interrupt socket
  CarreraDesalojo,     \* interrupts are read, and flags set, after the turn they are for
  CarreraInicio,       \* a quantum may end before a process back from I/O runs anything
  Nulo                 \* NULL, UINT32_MAX as a pid

Procesos == DOMAIN Textos
Cargadas == [p \in Procesos |-> levantar_instrucciones(Textos[p])]

\* Fewer words than parameters and the reader runs past the end of the stream;
\* a PC past the last instruction, and Memoria follows a pointer to NULL.
ASSUME TextosAssumption ==
  \A p \in Procesos :
    LET n == Len(Cargadas[p]) IN
    /\ Cargadas[p] \in Seq([codigo : Codigos \cup {"NULO"},
                            parametros : Seq([nombre : STRING, valor : Int])])
    /\ n \in 1..Mod32 /\ Cargadas[p][n].codigo = "EXIT"
    /\ \A k \in 1..n :
         LET i == Cargadas[p][k] IN
         /\ Len(i.parametros) >= cantidad_parametros_instruccion(i.codigo)
         /\ (i.codigo = "JNZ" \/ (i.codigo = "SET" /\ i.parametros[1].nombre = "PC")) =>
              i.parametros[2].valor % Mod32 < n
ASSUME CotasAssumption ==
  MaxInterrupciones \in Nat /\ CarreraDesalojo \in BOOLEAN /\ CarreraInicio \in BOOLEAN
ASSUME NuloAssumption == Nulo \notin Procesos /\ Nulo \notin {"INTERRUPT", "DESALOJO", "FIN_Q"}

VARIABLES
  fase,                    \* where the dispatch thread is
  cde_ejecutando,
  pid_de_cde_ejecutando,
  registros_cpu,
  instruccion_actualizada,
  interrupcion, realizar_desalojo, fin_q,
  manejador,               \* interrupt that passed the check of the pid
  interrupciones,          \* socket_cpu_interrupt
  aCpu, aKernel,           \* socket_cpu_dispatch, both ways
  cde,                     \* t_pcb.cde of each process
  pcb_en_ejecucion,
  esperando,               \* BLOCKED in a resource
  reloj,                   \* the quantum of this turn has not ended
  corrio,                  \* auxiliary: this turn has fetched an instruction
  pedidos,                 \* I/O requests the Kernel took
  terminados,
  condenados               \* FINALIZAR_PROCESO was ordered

banderas == <<interrupcion, realizar_desalojo, fin_q>>
cpu == <<cde_ejecutando, pid_de_cde_ejecutando, registros_cpu, instruccion_actualizada>>
sockets == <<interrupciones, aCpu, aKernel>>
kernel == <<cde, pcb_en_ejecucion, esperando, reloj, corrio, pedidos, terminados, condenados>>
vars == <<fase, banderas, cpu, manejador, sockets, kernel>>

\* Nothing to read in a direction of socket_cpu_dispatch.
SinMensaje == [tipo |-> "NADA", contenido |-> <<>>]

Banderas(i, r, f) == interrupcion' = i /\ realizar_desalojo' = r /\ fin_q' = f

Init ==
  /\ fase = "libre" /\ cde_ejecutando = Nulo /\ pid_de_cde_ejecutando = Nulo
  /\ registros_cpu = Nuevos /\ instruccion_actualizada = "SET"
  /\ interrupcion = FALSE /\ realizar_desalojo = FALSE /\ fin_q = FALSE
  /\ manejador = Nulo /\ interrupciones = <<>> /\ aCpu = SinMensaje /\ aKernel = SinMensaje
  /\ cde = [p \in Procesos |->
              [pid |-> p, motivo_desalojo |-> "NO_DESALOJADO", registros |-> Nuevos,
               ultima_instruccion |-> [codigo |-> "NULO", parametros |-> <<>>]]]
  /\ pcb_en_ejecucion = Nulo /\ esperando = {} /\ reloj = FALSE /\ corrio = FALSE
  /\ pedidos = [p \in Procesos |-> <<>>]
  /\ terminados = {} /\ condenados = {}

(***************************************************************************)
(* Dispatch thread: atender_kernel_dispatch and ejecutar_proceso.          *)
(***************************************************************************)
Avanza(desde, hasta) == fase = desde /\ fase' = hasta

Recibe(tipo) == aCpu.tipo = tipo /\ aCpu' = SinMensaje

RecibirProceso ==
  LET c == buffer_read_cde(aCpu.contenido) IN
  /\ Recibe("EJECUTAR_PROCESO") /\ Avanza("libre", "bucle")
  /\ cde_ejecutando' = c /\ pid_de_cde_ejecutando' = c.pid /\ registros_cpu' = c.registros
  /\ UNCHANGED <<banderas, instruccion_actualizada, manejador, interrupciones, aKernel, kernel>>

Desaloja == interrupcion \/ realizar_desalojo \/ fin_q

SigueBucle ==
  /\ Avanza("bucle", "fetch")
  /\ ~Desaloja
  /\ UNCHANGED <<banderas, cpu, manejador, sockets, kernel>>

\* The instruction Memoria answers with (enviar_instruccion).
Pedida(p, pc) == buffer_read_instruccion(buffer_write_instruccion(Cargadas[p][pc + 1]))

Fetch ==
  LET i == Pedida(cde_ejecutando.pid, registros_cpu["PC"]) IN
  /\ Avanza("fetch", "ejecuta")
  /\ instruccion_actualizada' = i.codigo
  /\ cde_ejecutando' = [cde_ejecutando EXCEPT !.ultima_instruccion = i]
  /\ registros_cpu' = Avanzar(registros_cpu)
  /\ corrio' = TRUE
  /\ UNCHANGED <<banderas, pid_de_cde_ejecutando, manejador, sockets, cde, pcb_en_ejecucion,
                 esperando, reloj, pedidos, terminados, condenados>>

Ejecuta(codigos, hasta) ==
  /\ Avanza("ejecuta", hasta)
  /\ cde_ejecutando.ultima_instruccion.codigo \in codigos

\* realizar_desalojo = 1 and its reason.
Desalojar(motivo, i) ==
  /\ Banderas(interrupcion, TRUE, fin_q)
  /\ cde_ejecutando' = [cde_ejecutando EXCEPT !.motivo_desalojo = motivo, !.ultima_instruccion = i]

\* What it does to the memory is in AccesoMemoria and Paginacion.
EjecutarLocal ==
  /\ Ejecuta((Codigos \cup {"NULO"}) \ (DeIO \cup {"EXIT", "RESIZE", "WAIT", "SIGNAL"}), "bucle")
  /\ registros_cpu' = Efecto(registros_cpu, cde_ejecutando.ultima_instruccion)
  /\ UNCHANGED <<banderas, cde_ejecutando, pid_de_cde_ejecutando, instruccion_actualizada,
                 manejador, sockets, kernel>>

\* RESIZE that Memoria grants, or answers ERROR_OUT_OF_MEMORY.
EjecutarResize ==
  /\ Ejecuta({"RESIZE"}, "bucle")
  /\ \/ Desalojar("OUT_OF_MEMORY_ERROR", cde_ejecutando.ultima_instruccion)
     \/ UNCHANGED <<banderas, cde_ejecutando>>
  /\ UNCHANGED <<pid_de_cde_ejecutando, registros_cpu, instruccion_actualizada, manejador,
                 sockets, kernel>>

\* The registers among the parameters are replaced in the instruction itself.
EjecutarIO ==
  LET i == cde_ejecutando.ultima_instruccion IN
  /\ Ejecuta(DeIO, "bucle")
  /\ Desalojar("LLAMADA_IO", Resuelta(cde_ejecutando.pid, registros_cpu, i))
  /\ UNCHANGED <<pid_de_cde_ejecutando, registros_cpu, instruccion_actualizada, manejador,
                 sockets, kernel>>

EjecutarExit ==
  /\ Ejecuta({"EXIT"}, "bucle")
  /\ Desalojar("FINALIZACION_EXIT", cde_ejecutando.ultima_instruccion)
  /\ UNCHANGED <<pid_de_cde_ejecutando, registros_cpu, instruccion_actualizada, manejador,
                 sockets, kernel>>

\* ejecutar_wait and ejecutar_signal stop until the Kernel answers.
PedirRecurso ==
  /\ Ejecuta({"WAIT", "SIGNAL"}, "pide")
  /\ aKernel' = [tipo |-> "RECURSO_SOLICITUD",
                 contenido |-> buffer_write_instruccion(cde_ejecutando.ultima_instruccion)]
  /\ UNCHANGED <<banderas, cpu, manejador, interrupciones, aCpu, kernel>>

MotivoDe(tipo) ==
  IF tipo = "RECURSO_INEXISTENTE" THEN "RECURSO_INVALIDO" ELSE "RECURSO_NO_DISPONIBLE"

RecibirRespuesta ==
  /\ Avanza("pide", "bucle")
  /\ \/ Recibe("RECURSO_OK") /\ UNCHANGED <<banderas, cde_ejecutando>>
     \/ \E t \in {"RECURSO_INEXISTENTE", "RECURSO_SIN_INSTANCIAS"} :
          Recibe(t) /\ Desalojar(MotivoDe(t), cde_ejecutando.ultima_instruccion)
  /\ UNCHANGED <<pid_de_cde_ejecutando, registros_cpu, instruccion_actualizada, manejador,
                 interrupciones, aKernel, kernel>>

\* Mutation: the quantum is looked at first.
MotivoDeSalidaQuantumPrimero ==
  CASE fin_q -> "FIN_DE_QUANTUM"
    [] interrupcion /\ ~fin_q -> "INTERRUPCION"
    [] OTHER -> cde_ejecutando.motivo_desalojo
\* The order of the three branches at the end of ejecutar_proceso.
MotivoDeSalida ==
  CASE interrupcion -> "INTERRUPCION"
    [] realizar_desalojo /\ ~interrupcion -> cde_ejecutando.motivo_desalojo
    [] OTHER -> "FIN_DE_QUANTUM"

\* Mutation: the flag of the quantum outlives the turn.
LimpiarSinFinQ == Banderas(FALSE, FALSE, fin_q)
\* The three branches clear the three flags.
Limpiar == Banderas(FALSE, FALSE, FALSE)

\* Without CarreraDesalojo no interrupt of this turn is left halfway.
SaleBucle ==
  /\ Avanza("bucle", "devuelve")
  /\ CarreraDesalojo \/ manejador = Nulo
  /\ Desaloja
  /\ Limpiar
  /\ cde_ejecutando' = [cde_ejecutando EXCEPT !.motivo_desalojo = MotivoDeSalida]
  /\ UNCHANGED <<pid_de_cde_ejecutando, registros_cpu, instruccion_actualizada, manejador,
                 sockets, kernel>>

\* desalojar_cde: guardar_registros and devolver_cde_a_kernel, and then two
\* marks for the interrupt thread, each after a mutex.
Guardados == [cde_ejecutando EXCEPT !.registros = registros_cpu]

Devolver ==
  /\ Avanza("devuelve", "borra_pid")
  /\ aKernel' = [tipo |-> "CDE", contenido |-> buffer_write_cde(Guardados)]
  /\ UNCHANGED <<banderas, cpu, manejador, interrupciones, aCpu, kernel>>

BorrarPid ==
  /\ Avanza("borra_pid", "borra_instruccion")
  /\ pid_de_cde_ejecutando' = Nulo
  /\ UNCHANGED <<banderas, cde_ejecutando, registros_cpu, instruccion_actualizada, manejador,
                 sockets, kernel>>

BorrarInstruccion ==
  /\ Avanza("borra_instruccion", "libre")
  /\ instruccion_actualizada' = "NULO" /\ cde_ejecutando' = Nulo
  /\ UNCHANGED <<banderas, pid_de_cde_ejecutando, registros_cpu, manejador, sockets, kernel>>

(***************************************************************************)
(* Interrupt thread: atender_kernel_interrupt.                             *)
(***************************************************************************)
\* The process that runs is not leaving the CPU.
EnTurno == fase \notin {"devuelve", "borra_pid"}

\* Mutation: the pid is not looked at.
EsDelQueCorreSiempre(m) == TRUE
EsDelQueCorre(m) == m.pid = pid_de_cde_ejecutando

RecibirInterrupcion ==
  LET m == Head(interrupciones) IN
  /\ manejador = Nulo /\ interrupciones # <<>>
  /\ CarreraDesalojo \/ EnTurno
  /\ interrupciones' = Tail(interrupciones)
  /\ manejador' = IF EsDelQueCorre(m) THEN m.codigo ELSE Nulo
  /\ UNCHANGED <<fase, banderas, cpu, aCpu, aKernel, kernel>>

\* instruccion_actualizada is read before the mutex of the flags.
MirarInstruccion ==
  /\ manejador = "DESALOJO"
  /\ manejador' = IF es_bloqueante(instruccion_actualizada) THEN Nulo ELSE "FIN_Q"
  /\ UNCHANGED <<fase, banderas, cpu, sockets, kernel>>

\* The flag would end a turn that has run nothing, and the instruction that
\* goes back with the context is the I/O that ended the last one.
Repetiria ==
  /\ fase = "bucle" /\ ~corrio /\ ~interrupcion
  /\ cde_ejecutando.ultima_instruccion.codigo \in DeIO

Marcar ==
  /\ manejador \in {"INTERRUPT", "FIN_Q"} /\ manejador' = Nulo
  /\ CarreraInicio \/ manejador = "INTERRUPT" \/ ~Repetiria
  /\ Banderas(interrupcion \/ manejador = "INTERRUPT", realizar_desalojo,
              fin_q \/ manejador = "FIN_Q")
  /\ UNCHANGED <<fase, cpu, sockets, kernel>>

(***************************************************************************)
(* Kernel.                                                                 *)
(***************************************************************************)
\* enviar_cde_a_cpu of a process in READY.
Despachar(p) ==
  /\ pcb_en_ejecucion = Nulo /\ p \notin terminados \cup esperando
  /\ pcb_en_ejecucion' = p /\ reloj' = TRUE /\ corrio' = FALSE
  /\ aCpu' = [tipo |-> "EJECUTAR_PROCESO", contenido |-> buffer_write_cde(cde[p])]
  /\ UNCHANGED <<fase, banderas, cpu, manejador, interrupciones, aKernel, cde, esperando, pedidos,
                 terminados, condenados>>

Interrumpir(codigo) ==
  /\ pcb_en_ejecucion # Nulo /\ Len(interrupciones) < MaxInterrupciones
  /\ interrupciones' = Append(interrupciones, [codigo |-> codigo, pid |-> pcb_en_ejecucion])
  /\ UNCHANGED <<fase, banderas, cpu, manejador, aCpu, aKernel, cde, pcb_en_ejecucion, esperando,
                 corrio, pedidos, terminados>>

\* controlar_tiempo, once in a turn, and FINALIZAR_PROCESO of the process in
\* EXEC.
FinDeQuantum ==
  /\ reloj /\ reloj' = FALSE
  /\ Interrumpir("DESALOJO")
  /\ UNCHANGED condenados
Finalizar ==
  /\ pcb_en_ejecucion \notin condenados
  /\ Interrumpir("INTERRUPT")
  /\ UNCHANGED reloj
  /\ condenados' = condenados \cup {pcb_en_ejecucion}

\* evaluar_signal and evaluar_wait, as the CPU sees them: Recursos has the
\* rest.
ResponderRecurso ==
  /\ aKernel.tipo = "RECURSO_SOLICITUD"
  /\ aKernel' = SinMensaje
  /\ \E t \in {"RECURSO_OK", "RECURSO_INEXISTENTE", "RECURSO_SIN_INSTANCIAS"} :
       /\ t = "RECURSO_SIN_INSTANCIAS" => buffer_read_instruccion(aKernel.contenido).codigo = "WAIT"
       /\ aCpu' = [tipo |-> t, contenido |-> <<>>]
  /\ UNCHANGED <<fase, banderas, cpu, manejador, interrupciones, kernel>>

\* recibir_cde_de_cpu, up to the state the process goes to.
DejaExec(c) ==
  /\ aKernel' = SinMensaje
  /\ cde' = [cde EXCEPT ![pcb_en_ejecucion] = c]
  /\ pcb_en_ejecucion' = Nulo
  /\ UNCHANGED <<fase, banderas, cpu, manejador, interrupciones, aCpu, reloj, corrio, condenados>>

Recibido == buffer_read_cde(aKernel.contenido)
HayCde == aKernel.tipo = "CDE"
PorError == {"INTERRUPCION", "OUT_OF_MEMORY_ERROR", "RECURSO_INVALIDO"}

ExecAFinalizado ==
  /\ HayCde
  /\ \/ Recibido.motivo_desalojo \in PorError
     \/ /\ Recibido.motivo_desalojo # "RECURSO_NO_DISPONIBLE"
        /\ Recibido.ultima_instruccion.codigo = "EXIT"
  /\ terminados' = terminados \cup {pcb_en_ejecucion}
  /\ DejaExec(Recibido)
  /\ UNCHANGED <<esperando, pedidos>>

ExecABlock ==
  /\ HayCde
  /\ Recibido.motivo_desalojo = "RECURSO_NO_DISPONIBLE"
  /\ esperando' = esperando \cup {pcb_en_ejecucion}
  /\ DejaExec(Recibido)
  /\ UNCHANGED <<pedidos, terminados>>

\* evaluar_instruccion looks at the last instruction, not at the reason; the
\* request goes to the interface, and the process will come back from it.
EvaluarIO ==
  /\ HayCde
  /\ Recibido.motivo_desalojo \notin PorError \cup {"RECURSO_NO_DISPONIBLE"}
  /\ Recibido.ultima_instruccion.codigo \in DeIO
  /\ pedidos' = [pedidos EXCEPT ![pcb_en_ejecucion] = Append(@, Recibido.ultima_instruccion)]
  /\ DejaExec(Recibido)
  /\ UNCHANGED <<esperando, terminados>>

ExecAReady ==
  /\ HayCde
  /\ Recibido.motivo_desalojo \notin PorError \cup {"RECURSO_NO_DISPONIBLE"}
  /\ Recibido.ultima_instruccion.codigo \notin DeIO \cup {"EXIT"}
  /\ DejaExec(Recibido)
  /\ UNCHANGED <<esperando, pedidos, terminados>>

\* Somebody gives back what p waits for.
Despertar(p) ==
  /\ p \in esperando /\ esperando' = esperando \ {p}
  /\ UNCHANGED <<fase, banderas, cpu, manejador, sockets, cde, pcb_en_ejecucion, reloj,
                 corrio, pedidos, terminados, condenados>>

(***************************************************************************)
(* The specification.                                                      *)
(***************************************************************************)
Dispatch ==
  \/ RecibirProceso \/ SigueBucle \/ Fetch
  \/ EjecutarLocal \/ EjecutarResize \/ EjecutarIO \/ EjecutarExit
  \/ PedirRecurso \/ RecibirRespuesta
  \/ SaleBucle \/ Devolver \/ BorrarPid \/ BorrarInstruccion
Interrupt == RecibirInterrupcion \/ MirarInstruccion \/ Marcar
AtenderCpu == ResponderRecurso \/ ExecAFinalizado \/ ExecABlock \/ EvaluarIO \/ ExecAReady
Next ==
  \/ Dispatch \/ Interrupt \/ AtenderCpu \/ FinDeQuantum \/ Finalizar
  \/ \E p \in Procesos : Despachar(p) \/ Despertar(p)

Spec == Init /\ [][Next]_vars

(***************************************************************************)
(* Every thread is run; READY is a FIFO queue, so a process in it is       *)
(* dispatched however often the others are; what is waited for comes; and  *)
(* a quantum, which is counted from the dispatch, is not over in every     *)
(* turn of a process before the CPU has taken its context.                 *)
(***************************************************************************)
SpecJusta ==
  /\ Spec
  /\ WF_vars(Dispatch) /\ WF_vars(Interrupt) /\ WF_vars(AtenderCpu)
  /\ \A p \in Procesos :
       /\ SF_vars(Despachar(p)) /\ WF_vars(Despertar(p))
       /\ SF_vars(pid_de_cde_ejecutando = p /\ ~corrio /\ SigueBucle)

(***************************************************************************)
(* Properties.                                                             *)
(***************************************************************************)
TypeOK ==
  /\ fase \in {"libre", "bucle", "fetch", "ejecuta", "pide", "devuelve", "borra_pid",
               "borra_instruccion"}
  /\ pid_de_cde_ejecutando \in Procesos \cup {Nulo}
  /\ registros_cpu \in [Registros -> Nat]
  /\ \A r \in Registros : registros_cpu[r] < Modulo(r)
  /\ instruccion_actualizada \in Codigos \cup {"NULO"}
  /\ {interrupcion, realizar_desalojo, fin_q} \subseteq BOOLEAN
  /\ manejador \in {"INTERRUPT", "DESALOJO", "FIN_Q", Nulo}
  /\ pcb_en_ejecucion \in Procesos \cup {Nulo} /\ {reloj, corrio} \subseteq BOOLEAN
  /\ esperando \cup terminados \cup condenados \subseteq Procesos

\* The machine of each process: the registers of the CPU while it runs, those
\* of its t_cde while it does not.  Until an instruction is over the PC, that
\* the fetch advanced, has not moved for its program: one that gives up the
\* CPU is over when the Kernel takes it, and a WAIT that blocks when it is
\* granted.
Corre(p) == p = pcb_en_ejecucion /\ fase \in {"bucle", "fetch", "ejecuta", "pide", "devuelve"}
Vuelve(p) == p = pcb_en_ejecucion /\ HayCde
Contexto(p) == CASE Corre(p) -> Guardados
                 [] Vuelve(p) -> Recibido
                 [] OTHER -> cde[p]
Cede(c) ==
  \/ c.motivo_desalojo \in {"LLAMADA_IO", "FINALIZACION_EXIT", "RECURSO_INVALIDO",
                            "RECURSO_NO_DISPONIBLE", "OUT_OF_MEMORY_ERROR"}
  \/ /\ c.motivo_desalojo = "INTERRUPCION" /\ corrio
     /\ c.ultima_instruccion.codigo \in DeIO \cup {"EXIT"}
SinTerminar(p) ==
  \/ p \in esperando
  \/ Corre(p) /\ \/ fase \in {"ejecuta", "pide"}
                 \/ (realizar_desalojo \/ fase = "devuelve") /\ Cede(cde_ejecutando)
  \/ Vuelve(p) /\ Cede(Recibido)
Vistos(p) ==
  IF p \in terminados THEN Nuevos
  ELSE LET r == Contexto(p).registros
       IN IF SinTerminar(p) THEN [r EXCEPT !["PC"] = (@ - 1) % Mod32] ELSE r

Virtual == INSTANCE MaquinaVirtual WITH
             Programas <- Cargadas, regs <- [p \in Procesos |-> Vistos(p)]

\* However the turns and the interrupts fall, each process sees a machine of
\* its own: cpu.c:298-324 and :642-656 save and restore it whole, its I/O is
\* asked for once, and it ends for a reason of its own.
CumpleMaquina == Virtual!Spec

\* A clock that ends while the process asks for I/O or ends does not hide
\* it: what comes back as the end of a quantum has nothing left to be done
\* (the order of the reasons at the end of ejecutar_proceso, cpu.c:402-431).
QuantumSinPendientes ==
  HayCde /\ Recibido.motivo_desalojo = "FIN_DE_QUANTUM" =>
    Recibido.ultima_instruccion.codigo \notin DeIO \cup {"EXIT"}

\* Programs without endless loops end however often the clock stops them,
\* turns that run no instruction included: no flag outlives its turn.
TodosTerminan == \A p \in Procesos : <>(p \in terminados)

(***************************************************************************)
(* What a comment of serializacion.h says and the code does not do.        *)
(***************************************************************************)
\* serializacion.h:33-35: an interrupt is for "PID que se está ejecutando";
\* "Caso contrario, se descarta la interrupción".
InterrupcionPropia ==
  HayCde /\ Recibido.motivo_desalojo = "INTERRUPCION" => pcb_en_ejecucion \in condenados
=============================================================================
