---------------------------- MODULE Planificador ----------------------------
(***************************************************************************)
(* The process scheduler of the Kernel: kernel/src/kernel.c.               *)
(*                                                                         *)
(* Threads of the code and their names here (the domain of pc):            *)
(*   "largo"  enviar_de_new_a_ready     long-term scheduler                *)
(*   "corto"  enviar_de_ready_a_exec    short-term scheduler               *)
(*   "cde"    atender_cpu               receives the process back          *)
(*   "reloj"  controlar_tiempo          quantum clock (RR and VRR)         *)
(*   "exit"   terminar_proceso          releases what finished             *)
(*   i \in Interfaces   atender_io      one thread per connected interface *)
(* The console is not a thread with a pc: each of its commands is one      *)
(* action.  The CPU and the I/O devices are the other three programs, seen *)
(* through their sockets.                                                  *)
(*                                                                         *)
(* One action is the code between two points where a thread can block (a   *)
(* sem_wait, a recv), or between a read of shared state and its later use  *)
(* when another thread may change it meanwhile.                            *)
(***************************************************************************)
EXTENDS Integers, SequencesExt

CONSTANTS
  Algoritmo,          \* "FIFO", "RR" or "VRR" (PLANIFICACION_ALGORITMO)
  GradoMax,           \* GRADO_MULTIPROGRAMACION of the configuration
  Interfaces,         \* the connected, valid I/O interfaces
  Pedidos,            \* what programs do to leave the CPU
  MaxProcesos,        \* bound: processes the console starts
  MaxOrdenes,         \* bound: DETENER_PLANIFICACION commands
  MaxInterrupciones,  \* bound: unread DESALOJO messages in the socket
  CarreraIO,          \* evaluar_io and atender_io may run inside each other
  CarreraEstado,      \* a PCB may be taken before its estado is written
  CarreraBloqueados,  \* a search and its removal may have another in between
  Nulo                \* NULL

Pids == 1..MaxProcesos
TiposDePedido == {"EXIT", "ERROR", "IO", "IO_INVALIDA", "RECURSO"}

ASSUME AlgoritmoAssumption == Algoritmo \in {"FIFO", "RR", "VRR"}
ASSUME GradoAssumption == GradoMax \in Nat
ASSUME PedidosAssumption == Pedidos \subseteq TiposDePedido
ASSUME CarreraAssumption ==
  CarreraIO \in BOOLEAN /\ CarreraEstado \in BOOLEAN /\ CarreraBloqueados \in BOOLEAN
ASSUME CotasAssumption == MaxProcesos \in Nat /\ MaxOrdenes \in Nat /\ MaxInterrupciones \in Nat

HilosKernel == {"largo", "corto", "cde", "reloj", "exit"}
ASSUME InterfacesAssumption ==
  Interfaces \cap (HilosKernel \cup TiposDePedido \cup {"FIN_DE_QUANTUM"}) = {}
\* Each one is a connection accepted by the Kernel.
ASSUME InterfacesFinitas == IsFiniteSet(Interfaces)

Hilos == HilosKernel \cup Interfaces

VARIABLES
  estado,                 \* t_pcb.estado of each process
  clock,                  \* t_pcb.clock # NULL (VRR: quantum left over)
  lugar,                  \* auxiliary: the state of the queue each one is in
  cola,                   \* procesosNew, procesosReady, ... by name
  procesos_globales,      \* processes the console can find
  memoria,                \* processes Memoria keeps structures of
  pcb_en_ejecucion,
  sem,                    \* the counting semaphores of kernel.h
  planificacion_detenida,
  pausa,                  \* the pausar_* semaphores
  ordenes,                \* DETENER commands so far (only to bound them)
  pc,
  transicion,             \* the transition each thread is about to make
  pid_pre_clock,          \* local of controlar_tiempo
  pcb_a_ready,            \* local of enviar_de_new_a_ready
  cpu,                    \* the CPU process and the dispatch socket
  interrupciones,         \* DESALOJO messages in the interrupt socket
  interfaz,               \* t_interfaz of each interface
  interfaz_buscada,       \* local of evaluar_io
  io,                     \* its socket, and pcb and posicion_pcb of
                          \* enviar_pcb_de_block_a_ready
  falla                   \* a NULL pointer was dereferenced: the Kernel died

colas == <<estado, lugar, clock, cola, procesos_globales, memoria, pcb_en_ejecucion>>
pausas == <<planificacion_detenida, pausa, ordenes>>
dispositivos == <<interfaz, interfaz_buscada, io>>
locales == <<pid_pre_clock, pcb_a_ready>>
vars == <<colas, sem, pausas, pc, transicion, locales, cpu,
          interrupciones, dispositivos, falla>>

(***************************************************************************)
(* Data.                                                                   *)
(***************************************************************************)
\* t_estados.  "EXIT" is what enviar_de_exec_a_finalizado stores.
Estados == {"NO_CREADO", "NEW", "READY", "EXEC", "BLOCKED", "EXIT"}

Colas == {"New", "Ready", "ReadyPlus", "Bloqueados", "Finalizados"}

Semaforos == {"cpu_libre", "procesos_en_new", "procesos_en_ready",
              "procesos_en_exec", "procesos_en_blocked", "procesos_en_exit",
              "cpu_debe_retornar", "sem_iniciar_quantum",
              "sem_reloj_destruido", "grado_de_multiprogramacion"}

Transiciones == {"new_a_ready", "ready_a_exec", "exec_a_finalizado", "exec_a_ready",
                 "exec_a_blocked", "blocked_a_ready", "blocked_a_readyPlus"}

ASSUME NuloAssumption == Nulo \notin Pids /\ Nulo \notin Transiciones

\* The reasons for which the CPU gives the process back; an interface
\* stands for an IO instruction on it.
Motivos == {"EXIT", "ERROR", "IO_INVALIDA", "FIN_DE_QUANTUM"} \cup Interfaces

CpuLibre == [fase |-> "libre", pid |-> Nulo, motivo |-> Nulo]

ConReloj == Algoritmo # "FIFO"

Init ==
  /\ estado = [p \in Pids |-> "NO_CREADO"]
  /\ lugar = estado
  /\ clock = [p \in Pids |-> FALSE]
  /\ cola = [c \in Colas |-> <<>>]
  /\ procesos_globales = {}
  /\ memoria = {}
  /\ pcb_en_ejecucion = Nulo
  /\ sem = [s \in Semaforos |->
              CASE s \in {"cpu_libre", "sem_reloj_destruido"} -> 1
                [] s = "grado_de_multiprogramacion" -> GradoMax
                [] OTHER -> 0]
  /\ planificacion_detenida = FALSE
  /\ pausa = [t \in Transiciones |-> 0]
  /\ ordenes = 0
  /\ pc = [h \in Hilos |-> "inicio"]
  /\ transicion = [h \in Hilos |-> CASE h = "largo" -> "new_a_ready"
                                     [] h = "corto" -> "ready_a_exec"
                                     [] OTHER -> Nulo]
  /\ pid_pre_clock = Nulo
  /\ pcb_a_ready = Nulo
  /\ cpu = CpuLibre
  /\ interrupciones = <<>>
  /\ interfaz = [i \in Interfaces |->
                   [ocupada |-> FALSE, pcb_ejecutando |-> Nulo, pcb_esperando |-> <<>>]]
  /\ interfaz_buscada = Nulo
  /\ io = [i \in Interfaces |-> [trabajos |-> 0, libres |-> 0, pcb |-> Nulo, posicion |-> 0]]
  /\ falla = FALSE

(***************************************************************************)
(* Steps the threads share.                                                *)
(***************************************************************************)
\* Mutation: the wait does not block at zero.
SemWaitSinBloqueo(s) == sem' = [sem EXCEPT ![s] = @ - 1]

sem_wait(s) == sem[s] > 0 /\ sem' = [sem EXCEPT ![s] = @ - 1]

sem_post(S) == sem' = [s \in Semaforos |-> IF s \in S THEN sem[s] + 1 ELSE sem[s]]

Ir(h, desde, hasta) == pc[h] = desde /\ pc' = [pc EXCEPT ![h] = hasta]

\* agregar_pcb_a(destino, retirar_pcb_de(origen)).
Mover(p, origen, destino) ==
  cola' = [cola EXCEPT ![origen] = Tail(@), ![destino] = Append(@, p)]

Agregar(p, destino) == cola' = [cola EXCEPT ![destino] = Append(@, p)]

\* p is now in a queue of that state, or in the processor.
Ubicar(p, e) == lugar' = [lugar EXCEPT ![p] = e]

\* pcb->estado = e.
Anotar(p, e) == estado' = [estado EXCEPT ![p] = e]

\* Threads asleep in sem_wait(&pausar_t): the waiters that the high half of
\* sem_t.__align counts.
Dormidos(t) == {h \in Hilos : pc[h] = "dormido" /\ transicion[h] = t}

\* The thread can go past "if (planificacion_detenida == 1) sem_wait(...)".
PuedePasar(h) ==
  \/ pc[h] = "chequeo" /\ ~planificacion_detenida
  \/ pc[h] \in {"pausando", "dormido"} /\ pausa[transicion[h]] > 0

Transita(h, hasta) ==
  /\ PuedePasar(h)
  /\ pausa' = IF pc[h] = "chequeo" THEN pausa
              ELSE [pausa EXCEPT ![transicion[h]] = @ - 1]
  /\ pc' = [pc EXCEPT ![h] = hasta]
  /\ UNCHANGED <<planificacion_detenida, ordenes>>

\* A NULL PCB is dereferenced: SIGSEGV.
Muere ==
  /\ falla' = TRUE
  /\ UNCHANGED <<colas, sem, pausas, pc, transicion, locales, cpu,
                 interrupciones, dispositivos>>

\* It saw planificacion_detenida == 1 and is about to call sem_wait.
Detenerse(h) ==
  /\ planificacion_detenida
  /\ Ir(h, "chequeo", "pausando")
  /\ UNCHANGED <<colas, sem, pausas, transicion, locales, cpu,
                 interrupciones, dispositivos, falla>>

\* sem_wait finds the semaphore at zero and the thread goes to sleep.
Dormirse(h) ==
  /\ pc[h] = "pausando" /\ pausa[transicion[h]] = 0
  /\ Ir(h, "pausando", "dormido")
  /\ UNCHANGED <<colas, sem, pausas, transicion, locales, cpu,
                 interrupciones, dispositivos, falla>>

(***************************************************************************)
(* Console commands.                                                       *)
(***************************************************************************)
\* INICIAR_PROCESO: pids are consecutive; Memoria answers INICIAR_PROCESO_OK.
IniciarProceso ==
  \E p \in Pids :
    /\ estado[p] = "NO_CREADO"
    /\ \A q \in Pids : q < p => estado[q] # "NO_CREADO"
    /\ Anotar(p, "NEW") /\ Ubicar(p, "NEW")
    /\ Agregar(p, "New")
    /\ procesos_globales' = procesos_globales \cup {p}
    /\ memoria' = memoria \cup {p}
    /\ sem_post({"procesos_en_new"})
    /\ UNCHANGED <<clock, pcb_en_ejecucion, pausas, pc, transicion, locales,
                   cpu, interrupciones, dispositivos, falla>>

DetenerPlanificacion ==
  /\ ~planificacion_detenida /\ ordenes < MaxOrdenes
  /\ planificacion_detenida' = TRUE
  /\ ordenes' = ordenes + 1
  /\ UNCHANGED <<colas, sem, pausa, pc, transicion, locales, cpu,
                 interrupciones, dispositivos, falla>>

\* sem_post(&pausar_t); if (pausar_t.__align == 1) sem_wait(&pausar_t):
\* __align is 1 when the value is 1 and nobody sleeps on it.  The last pair
\* of the code posts blocked_a_readyPlus but tests blocked_a_ready, so that
\* post is never taken back.
Liberar(t) ==
  IF t # "blocked_a_readyPlus" /\ pausa[t] = 0 /\ Dormidos(t) = {}
    THEN 0
    ELSE pausa[t] + 1

IniciarPlanificacion ==
  /\ planificacion_detenida
  /\ pausa' = [t \in Transiciones |-> Liberar(t)]
  /\ planificacion_detenida' = FALSE
  /\ UNCHANGED <<colas, sem, ordenes, pc, transicion, locales, cpu,
                 interrupciones, dispositivos, falla>>

(***************************************************************************)
(* Long-term scheduler: enviar_de_new_a_ready.                             *)
(***************************************************************************)
LargoEsperaNew ==
  /\ sem_wait("procesos_en_new")
  /\ Ir("largo", "inicio", "grado")
  /\ UNCHANGED <<colas, pausas, transicion, locales, cpu, interrupciones,
                 dispositivos, falla>>

LargoEsperaGrado ==
  /\ sem_wait("grado_de_multiprogramacion")
  /\ Ir("largo", "grado", "chequeo")
  /\ UNCHANGED <<colas, pausas, transicion, locales, cpu, interrupciones,
                 dispositivos, falla>>

\* Mutation: the admitted process goes to the front of Ready.
NewAReadyAlFrente ==
  LET p == Head(cola["New"]) IN
  /\ Transita("largo", "anota")
  /\ cola' = [cola EXCEPT !["New"] = Tail(@), !["Ready"] = <<p>> \o @]
  /\ Ubicar(p, "READY")
  /\ pcb_a_ready' = p
  /\ UNCHANGED <<estado, clock, procesos_globales, memoria, pcb_en_ejecucion, sem, transicion,
                 pid_pre_clock, cpu, interrupciones, dispositivos, falla>>

\* The PCB is in Ready, and its estado is still NEW.
NewAReady ==
  LET p == Head(cola["New"]) IN
  /\ Transita("largo", "anota")
  /\ Mover(p, "New", "Ready") /\ Ubicar(p, "READY")
  /\ pcb_a_ready' = p
  /\ UNCHANGED <<estado, clock, procesos_globales, memoria, pcb_en_ejecucion, sem, transicion,
                 pid_pre_clock, cpu, interrupciones, dispositivos, falla>>

NewAReadyAnota ==
  /\ Ir("largo", "anota", "inicio")
  /\ Anotar(pcb_a_ready, "READY")
  /\ pcb_a_ready' = Nulo
  /\ sem_post({"procesos_en_ready"})
  /\ UNCHANGED <<lugar, clock, cola, procesos_globales, memoria, pcb_en_ejecucion, pausas,
                 transicion, pid_pre_clock, cpu, interrupciones, dispositivos, falla>>

\* A thread has put p in its new queue and has not yet written its estado.
PorAnotar(p) ==
  \/ pc["largo"] = "anota" /\ pcb_a_ready = p
  \/ pc["cde"] = "anota" /\ pcb_en_ejecucion = p
  \/ \E i \in Interfaces : pc[i] = "anota" /\ io[i].pcb = p

(***************************************************************************)
(* Short-term scheduler: enviar_de_ready_a_exec.                           *)
(***************************************************************************)
CortoEsperaCpu ==
  /\ sem_wait("cpu_libre")
  /\ Ir("corto", "inicio", "ready")
  /\ UNCHANGED <<colas, pausas, transicion, locales, cpu, interrupciones,
                 dispositivos, falla>>

CortoEsperaReady ==
  /\ sem_wait("procesos_en_ready")
  /\ Ir("corto", "ready", "chequeo")
  /\ UNCHANGED <<colas, pausas, transicion, locales, cpu, interrupciones,
                 dispositivos, falla>>

\* retirar_pcb_de_ready_segun_algoritmo: VRR serves Ready+ first.
ColaElegida ==
  IF Algoritmo = "VRR" /\ cola["ReadyPlus"] # <<>> THEN "ReadyPlus" ELSE "Ready"

\* With the token of one process it may take another, whose admission or
\* return is still under way.  Without CarreraEstado that never happens.
ReadyAExec ==
  LET p == Head(cola[ColaElegida]) IN
  /\ Transita("corto", IF ConReloj THEN "reloj" ELSE "enviar")
  /\ CarreraEstado \/ ~PorAnotar(p)
  /\ pcb_en_ejecucion' = p
  /\ cola' = [cola EXCEPT ![ColaElegida] = Tail(@)]
  /\ Anotar(p, "EXEC") /\ Ubicar(p, "EXEC")
  /\ sem_post({"procesos_en_exec"})
  /\ UNCHANGED <<clock, procesos_globales, memoria, transicion, locales, cpu,
                 interrupciones, dispositivos, falla>>

\* A running quantum cycle is waited for.
CortoEsperaReloj ==
  /\ sem_wait("sem_reloj_destruido")
  /\ Ir("corto", "reloj", "enviar")
  /\ UNCHANGED <<colas, pausas, transicion, locales, cpu, interrupciones,
                 dispositivos, falla>>

\* The CPU receives EJECUTAR_PROCESO and starts computing.
EnviarCdeACpu ==
  /\ Ir("corto", "enviar", "inicio")
  /\ cpu' = [fase |-> "calcula", pid |-> pcb_en_ejecucion, motivo |-> Nulo]
  /\ sem_post({"cpu_debe_retornar"} \cup (IF ConReloj THEN {"sem_iniciar_quantum"} ELSE {}))
  /\ UNCHANGED <<colas, pausas, transicion, locales, interrupciones,
                 dispositivos, falla>>

(***************************************************************************)
(* Quantum clock: controlar_tiempo.  usleep ends at any later moment.      *)
(***************************************************************************)
\* Under VRR a process without clock gets one.
RelojInicia ==
  /\ pcb_en_ejecucion # Nulo
  /\ sem_wait("sem_iniciar_quantum")
  /\ Ir("reloj", "inicio", "durmiendo")
  /\ pid_pre_clock' = pcb_en_ejecucion
  /\ clock' = [clock EXCEPT ![pcb_en_ejecucion] = @ \/ Algoritmo = "VRR"]
  /\ UNCHANGED <<estado, lugar, cola, procesos_globales, memoria, pcb_en_ejecucion, pausas,
                 transicion, pcb_a_ready, cpu, interrupciones, dispositivos, falla>>

\* The quantum is over and pcb_en_ejecucion has the pid it had at the start.
RelojVence ==
  /\ pcb_en_ejecucion # Nulo /\ pcb_en_ejecucion = pid_pre_clock
  /\ Ir("reloj", "durmiendo", "interrumpir")
  /\ clock' = [clock EXCEPT ![pcb_en_ejecucion] = FALSE]
  /\ UNCHANGED <<estado, lugar, cola, procesos_globales, memoria, pcb_en_ejecucion, sem,
                 pausas, transicion, locales, cpu, interrupciones, dispositivos,
                 falla>>

\* pcb_en_ejecucion is read again to fill the DESALOJO message.
RelojInterrumpe ==
  /\ pcb_en_ejecucion # Nulo
  /\ Len(interrupciones) < MaxInterrupciones
  /\ Ir("reloj", "interrumpir", "inicio")
  /\ interrupciones' = Append(interrupciones, pcb_en_ejecucion)
  /\ sem_post({"sem_reloj_destruido"})
  /\ UNCHANGED <<colas, pausas, transicion, locales, cpu, dispositivos, falla>>

\* pcb_en_ejecucion->... with the process already gone: the first read is
\* not preceded by a check, the last one comes after the check.
RelojNulo ==
  /\ pcb_en_ejecucion = Nulo
  /\ \/ pc["reloj"] = "inicio" /\ sem["sem_iniciar_quantum"] > 0
     \/ pc["reloj"] = "interrumpir"
  /\ Muere

\* The process is gone: nothing to interrupt.
\* Mutation: the end of the cycle is only announced when it interrupted.
RelojCaducaSinPost ==
  /\ pcb_en_ejecucion # pid_pre_clock
  /\ Ir("reloj", "durmiendo", "inicio")
  /\ UNCHANGED <<colas, sem, pausas, transicion, locales, cpu, interrupciones,
                 dispositivos, falla>>

RelojCaduca ==
  /\ pcb_en_ejecucion # pid_pre_clock
  /\ Ir("reloj", "durmiendo", "inicio")
  /\ sem_post({"sem_reloj_destruido"})
  /\ UNCHANGED <<colas, pausas, transicion, locales, cpu, interrupciones,
                 dispositivos, falla>>

(***************************************************************************)
(* The CPU, as the Kernel sees it (cpu/src/cpu.c).                         *)
(***************************************************************************)
\* The program reaches an instruction es_bloqueante() lists.
CpuBloqueante ==
  /\ cpu.fase = "calcula"
  /\ cpu' = [cpu EXCEPT !.fase = "bloqueante"]
  /\ UNCHANGED <<colas, sem, pausas, pc, transicion, locales, interrupciones,
                 dispositivos, falla>>

\* It was a WAIT or SIGNAL that the Kernel granted: the program goes on.
CpuSigue ==
  /\ "RECURSO" \in Pedidos /\ cpu.fase = "bloqueante"
  /\ cpu' = [cpu EXCEPT !.fase = "calcula"]
  /\ UNCHANGED <<colas, sem, pausas, pc, transicion, locales, interrupciones,
                 dispositivos, falla>>

\* What a blocking instruction can give the process back for; a RESIZE out
\* of memory does it too, and it is not in es_bloqueante().
MotivosDe(fase) ==
  CASE fase = "bloqueante" -> (Pedidos \cap {"EXIT", "ERROR", "IO_INVALIDA"})
                              \cup (IF "IO" \in Pedidos THEN Interfaces ELSE {})
    [] fase = "calcula"    -> Pedidos \cap {"ERROR"}
    [] OTHER               -> {}

CpuDevuelve ==
  \E m \in MotivosDe(cpu.fase) :
    /\ cpu' = [cpu EXCEPT !.fase = "devuelto", !.motivo = m]
    /\ UNCHANGED <<colas, sem, pausas, pc, transicion, locales, interrupciones,
                   dispositivos, falla>>

\* Mutation: the comparison of the pids is inverted.
CpuInterrumpidaOtroPid ==
  /\ interrupciones # <<>>
  /\ interrupciones' = Tail(interrupciones)
  /\ cpu' = IF cpu.fase = "calcula" /\ cpu.pid # Head(interrupciones)
              THEN [cpu EXCEPT !.fase = "devuelto", !.motivo = "FIN_DE_QUANTUM"]
              ELSE cpu
  /\ UNCHANGED <<colas, sem, pausas, pc, transicion, locales, dispositivos, falla>>

\* atender_kernel_interrupt: a DESALOJO for the running process takes it out
\* unless its instruction is blocking; any other one is dropped.
CpuInterrumpida ==
  /\ interrupciones # <<>>
  /\ interrupciones' = Tail(interrupciones)
  /\ cpu' = IF cpu.fase = "calcula" /\ cpu.pid = Head(interrupciones)
              THEN [cpu EXCEPT !.fase = "devuelto", !.motivo = "FIN_DE_QUANTUM"]
              ELSE cpu
  /\ UNCHANGED <<colas, sem, pausas, pc, transicion, locales, dispositivos, falla>>

(***************************************************************************)
(* The process comes back: atender_cpu, recibir_cde_de_cpu,                *)
(* evaluar_instruccion, evaluar_io.                                        *)
(***************************************************************************)
\* Mutation: the processor is released as soon as the context is back.
RecibeCdeYLibera(M, t) ==
  /\ cpu.fase = "devuelto" /\ cpu.motivo \in M
  /\ sem["cpu_debe_retornar"] > 0
  /\ sem' = [sem EXCEPT !["cpu_debe_retornar"] = @ - 1, !["cpu_libre"] = @ + 1]
  /\ cpu' = CpuLibre
  /\ transicion' = [transicion EXCEPT !["cde"] = t]
  /\ UNCHANGED <<estado, lugar, clock, cola, memoria, pcb_en_ejecucion, pausas,
                 locales, interrupciones, falla>>

RecibeCde(M, t) ==
  /\ cpu.fase = "devuelto" /\ cpu.motivo \in M
  /\ sem_wait("cpu_debe_retornar")
  /\ cpu' = CpuLibre
  /\ transicion' = [transicion EXCEPT !["cde"] = t]
  /\ UNCHANGED <<estado, lugar, clock, cola, memoria, pcb_en_ejecucion, pausas,
                 locales, interrupciones, falla>>

CdeTermina ==
  /\ RecibeCde({"EXIT", "ERROR"}, "exec_a_finalizado")
  /\ Ir("cde", "inicio", "exec")
  /\ UNCHANGED <<procesos_globales, dispositivos>>

CdeFinDeQuantum ==
  /\ RecibeCde({"FIN_DE_QUANTUM"}, "exec_a_ready")
  /\ Ir("cde", "inicio", "exec")
  /\ UNCHANGED <<procesos_globales, dispositivos>>

\* despachar_pcb_a_interfaz.
Despacha(i, p) ==
  /\ interfaz' = [interfaz EXCEPT ![i].pcb_ejecutando = p, ![i].ocupada = TRUE]
  /\ io' = [io EXCEPT ![i].trabajos = @ + 1]

\* evaluar_io reads ocupada without a lock, and acts on it in its next step.
\* Without CarreraIO the thread of the interface is never in between.
PideIO(i, punto) ==
  /\ RecibeCde({i}, "exec_a_blocked")
  /\ CarreraIO \/ pc[i] # "siguiente"
  /\ Ir("cde", "inicio", punto)
  /\ interfaz_buscada' = i
  /\ UNCHANGED <<procesos_globales, interfaz, io>>

\* Mutation: ocupada is not looked at.
CdeIOSinOcupada(i) == PideIO(i, "despacha")

CdeIO(i) == PideIO(i, IF interfaz[i].ocupada THEN "encola" ELSE "despacha")

\* The process is queued in the interface, or given to it, BEFORE it is in
\* procesosBloqueados.
CdeEncola ==
  /\ Ir("cde", "encola", "exec")
  /\ interfaz' = [interfaz EXCEPT ![interfaz_buscada].pcb_esperando = Append(@, pcb_en_ejecucion)]
  /\ interfaz_buscada' = Nulo
  /\ UNCHANGED <<colas, sem, pausas, transicion, locales, cpu, interrupciones, io, falla>>

CdeDespacha ==
  /\ Ir("cde", "despacha", "exec")
  /\ Despacha(interfaz_buscada, pcb_en_ejecucion)
  /\ interfaz_buscada' = Nulo
  /\ UNCHANGED <<colas, sem, pausas, transicion, locales, cpu, interrupciones, falla>>

\* terminar_proceso_consola on the process in EXEC: INTERRUPT is sent to a
\* CPU that no longer has it, and nobody takes it out of pcb_en_ejecucion.
CdeIOInvalida ==
  /\ RecibeCde({"IO_INVALIDA"}, Nulo)
  /\ Ir("cde", "inicio", "inicio")
  /\ procesos_globales' = procesos_globales \ {pcb_en_ejecucion}
  /\ UNCHANGED dispositivos

CdeEsperaExec ==
  /\ sem_wait("procesos_en_exec")
  /\ Ir("cde", "exec", "chequeo")
  /\ UNCHANGED <<colas, pausas, transicion, locales, cpu, interrupciones,
                 dispositivos, falla>>

\* Mutation: cpu_libre is posted but pcb_en_ejecucion keeps the process.
DejaExecSinNulo(t, destino, nuevo, posts) ==
  /\ transicion["cde"] = t
  /\ Transita("cde", "inicio")
  /\ Agregar(pcb_en_ejecucion, destino)
  /\ Anotar(pcb_en_ejecucion, nuevo) /\ Ubicar(pcb_en_ejecucion, nuevo)
  /\ sem_post({"cpu_libre"} \cup posts)
  /\ UNCHANGED <<clock, procesos_globales, memoria, pcb_en_ejecucion, transicion,
                 locales, cpu, interrupciones, dispositivos, falla>>

\* enviar_de_exec_a_finalizado and enviar_de_exec_a_ready, after their waits.
\* Nobody takes the PCB out of its new queue before the posts: "cde" alone
\* fills Finalizados, and Ready is only served by who has cpu_libre.
DejaExec(t, destino, nuevo, posts) ==
  /\ transicion["cde"] = t
  /\ Transita("cde", "inicio")
  /\ Agregar(pcb_en_ejecucion, destino)
  /\ Anotar(pcb_en_ejecucion, nuevo) /\ Ubicar(pcb_en_ejecucion, nuevo)
  /\ pcb_en_ejecucion' = Nulo
  /\ sem_post({"cpu_libre"} \cup posts)
  /\ UNCHANGED <<clock, procesos_globales, memoria, transicion, locales, cpu,
                 interrupciones, dispositivos, falla>>

\* Mutations: the place of the process is not given back; nobody is told to
\* release it.
ExecAFinalizadoSinGrado ==
  DejaExec("exec_a_finalizado", "Finalizados", "EXIT", {"procesos_en_exit"})

ExecAFinalizado ==
  DejaExec("exec_a_finalizado", "Finalizados", "EXIT",
           {"procesos_en_exit", "grado_de_multiprogramacion"})

ExecAReady == DejaExec("exec_a_ready", "Ready", "READY", {"procesos_en_ready"})

\* enviar_de_exec_a_block: the thread of an interface with the token of
\* another process can find this one here, still EXEC and pcb_en_ejecucion.
ExecABlock ==
  /\ transicion["cde"] = "exec_a_blocked"
  /\ Transita("cde", "anota")
  /\ Agregar(pcb_en_ejecucion, "Bloqueados") /\ Ubicar(pcb_en_ejecucion, "BLOCKED")
  /\ UNCHANGED <<estado, clock, procesos_globales, memoria, pcb_en_ejecucion, sem, transicion,
                 locales, cpu, interrupciones, dispositivos, falla>>

FinDeBloqueo(posts) ==
  /\ Ir("cde", "anota", "inicio")
  /\ Anotar(pcb_en_ejecucion, "BLOCKED")
  /\ pcb_en_ejecucion' = Nulo
  /\ sem_post({"cpu_libre"} \cup posts)
  /\ UNCHANGED <<lugar, clock, cola, procesos_globales, memoria, pausas, transicion, locales,
                 cpu, interrupciones, dispositivos, falla>>

\* Mutation: procesos_en_blocked is only posted for the first blocked process.
ExecABlockAnotaSinPost ==
  FinDeBloqueo(IF Len(cola["Bloqueados"]) = 1 THEN {"procesos_en_blocked"} ELSE {})

ExecABlockAnota == FinDeBloqueo({"procesos_en_blocked"})

\* terminar_proceso: Memoria gets FINALIZAR_PROCESO_SOLICITUD.
TerminarProceso ==
  LET p == Head(cola["Finalizados"]) IN
  /\ sem_wait("procesos_en_exit")
  /\ cola' = [cola EXCEPT !["Finalizados"] = Tail(@)]
  /\ procesos_globales' = procesos_globales \ {p}
  /\ memoria' = memoria \ {p}
  /\ UNCHANGED <<estado, lugar, clock, pcb_en_ejecucion, pausas, pc, transicion, locales,
                 cpu, interrupciones, dispositivos, falla>>

(***************************************************************************)
(* Interfaces: the device and its thread atender_io.                       *)
(***************************************************************************)
\* The device ends an operation and sends LIBRE.
DispositivoTermina(i) ==
  /\ io[i].trabajos > 0
  /\ io' = [io EXCEPT ![i].trabajos = @ - 1, ![i].libres = @ + 1]
  /\ UNCHANGED <<colas, sem, pausas, pc, transicion, locales, cpu,
                 interrupciones, interfaz, interfaz_buscada, falla>>

\* LIBRE: under VRR a process with quantum left goes to Ready+.
IoRecibeLibre(i) ==
  LET p == interfaz[i].pcb_ejecutando IN
  /\ io[i].libres > 0
  /\ Ir(i, "inicio", "blocked")
  /\ io' = [io EXCEPT ![i].libres = @ - 1, ![i].pcb = p]
  /\ transicion' = [transicion EXCEPT ![i] =
       IF Algoritmo = "VRR" /\ clock[p] THEN "blocked_a_readyPlus" ELSE "blocked_a_ready"]
  /\ UNCHANGED <<colas, sem, pausas, locales, cpu, interrupciones, interfaz,
                 interfaz_buscada, falla>>

IoEsperaBlocked(i) ==
  /\ sem_wait("procesos_en_blocked")
  /\ Ir(i, "blocked", "chequeo")
  /\ UNCHANGED <<colas, pausas, transicion, locales, cpu, interrupciones,
                 dispositivos, falla>>

\* esta_proceso_en_cola_bloqueados; 0 stands for the -1 of the code.
Posicion(p) ==
  IF Contains(cola["Bloqueados"], p)
    THEN CHOOSE k \in DOMAIN cola["Bloqueados"] : cola["Bloqueados"][k] = p
    ELSE 0

\* list_remove_element.
Quitar(c, p) ==
  IF Contains(cola[c], p)
    THEN RemoveAt(cola[c], CHOOSE k \in DOMAIN cola[c] : cola[c][k] = p)
    ELSE cola[c]

ColaDestino(t) == IF t = "blocked_a_readyPlus" THEN "ReadyPlus" ELSE "Ready"

\* enviar_pcb_de_block_a_ready and enviar_pcb_de_block_a_readyPlus: the
\* search, without mutex_block.  Without CarreraBloqueados no other thread
\* removes a process until this one has removed its own.
BlockAReadyBusca(i) ==
  /\ CarreraEstado \/ ~PorAnotar(io[i].pcb)
  /\ CarreraBloqueados \/ \A j \in Interfaces : pc[j] # "mueve"
  /\ Transita(i, "mueve")
  /\ io' = [io EXCEPT ![i].posicion = Posicion(io[i].pcb)]
  /\ UNCHANGED <<colas, sem, transicion, locales, cpu, interrupciones, interfaz,
                 interfaz_buscada, falla>>

\* Mutation: the PCB stays in procesosBloqueados.
BlockAReadySinQuitar(i) ==
  LET q == cola["Bloqueados"][io[i].posicion]
      destino == ColaDestino(transicion[i])
  IN
  /\ io[i].posicion \in DOMAIN cola["Bloqueados"]
  /\ Ir(i, "mueve", "anota")
  /\ Agregar(q, destino) /\ Ubicar(q, "READY")
  /\ io' = [io EXCEPT ![i].pcb = q, ![i].posicion = 0]
  /\ UNCHANGED <<estado, clock, procesos_globales, memoria, pcb_en_ejecucion, sem, pausas,
                 transicion, locales, cpu, interrupciones, interfaz, interfaz_buscada, falla>>

\* What is at that position now is what goes to Ready; what leaves
\* procesosBloqueados is the argument.
BlockAReady(i) ==
  LET s == cola["Bloqueados"]
      q == s[io[i].posicion]
      destino == ColaDestino(transicion[i])
  IN
  /\ io[i].posicion \in DOMAIN s
  /\ Ir(i, "mueve", "anota")
  /\ cola' = [cola EXCEPT !["Bloqueados"] = Quitar("Bloqueados", io[i].pcb),
                          ![destino] = Append(@, q)]
  /\ Ubicar(q, "READY")
  /\ io' = [io EXCEPT ![i].pcb = q, ![i].posicion = 0]
  /\ UNCHANGED <<estado, clock, procesos_globales, memoria, pcb_en_ejecucion, sem, pausas,
                 transicion, locales, cpu, interrupciones, interfaz, interfaz_buscada, falla>>

\* There is nothing at that position: list_get gives NULL.
BlockAReadyNulo(i) ==
  /\ pc[i] = "mueve" /\ io[i].posicion \notin DOMAIN cola["Bloqueados"]
  /\ Muere

FinDeDesbloqueo(i, e, posts) ==
  /\ Ir(i, "anota", "liberar")
  /\ Anotar(io[i].pcb, e)
  /\ sem_post(posts)
  /\ UNCHANGED <<lugar, clock, cola, procesos_globales, memoria, pcb_en_ejecucion, pausas,
                 transicion, locales, cpu, interrupciones, dispositivos, falla>>

\* Mutations: the PCB keeps its state; the short-term scheduler is only told
\* when Ready was empty.
BlockAReadyAnotaSinEstado(i) == FinDeDesbloqueo(i, estado[io[i].pcb], {"procesos_en_ready"})
BlockAReadyAnotaSinPost(i) ==
  FinDeDesbloqueo(i, "READY", IF Len(cola["Ready"]) = 1 THEN {"procesos_en_ready"} ELSE {})

BlockAReadyAnota(i) == FinDeDesbloqueo(i, "READY", {"procesos_en_ready"})

\* ocupada = false.
IoLibera(i) ==
  /\ Ir(i, "liberar", "siguiente")
  /\ CarreraIO \/ pc["cde"] \notin {"encola", "despacha"}
  /\ interfaz' = [interfaz EXCEPT ![i].ocupada = FALSE]
  /\ io' = [io EXCEPT ![i].pcb = Nulo]
  /\ UNCHANGED <<colas, sem, pausas, transicion, locales, cpu, interrupciones,
                 interfaz_buscada, falla>>

\* Mutation: the next process in the queue of the interface is forgotten.
IoSiguienteSinDespachar(i) ==
  /\ Ir(i, "siguiente", "inicio")
  /\ UNCHANGED <<colas, sem, pausas, transicion, locales, cpu, interrupciones,
                 dispositivos, falla>>

\* If some process waits for the interface, the next one is dispatched.
IoSiguiente(i) ==
  /\ Ir(i, "siguiente", "inicio")
  /\ IF interfaz[i].pcb_esperando = <<>>
       THEN UNCHANGED <<interfaz, io>>
       ELSE /\ interfaz' = [interfaz EXCEPT
                              ![i].pcb_ejecutando = Head(interfaz[i].pcb_esperando),
                              ![i].pcb_esperando = Tail(@), ![i].ocupada = TRUE]
            /\ io' = [io EXCEPT ![i].trabajos = @ + 1]
  /\ UNCHANGED <<colas, sem, pausas, transicion, locales, cpu, interrupciones,
                 interfaz_buscada, falla>>

(***************************************************************************)
(* The specification.                                                      *)
(***************************************************************************)
Consola == IniciarProceso \/ DetenerPlanificacion \/ IniciarPlanificacion

PlanificadorLargo == LargoEsperaNew \/ LargoEsperaGrado \/ NewAReady \/ NewAReadyAnota

PlanificadorCorto ==
  CortoEsperaCpu \/ CortoEsperaReady \/ ReadyAExec \/ CortoEsperaReloj \/ EnviarCdeACpu

Reloj == RelojInicia \/ RelojVence \/ RelojInterrumpe \/ RelojCaduca \/ RelojNulo

Cpu == CpuBloqueante \/ CpuSigue \/ CpuDevuelve \/ CpuInterrumpida

AtenderCpu ==
  \/ CdeTermina \/ CdeFinDeQuantum \/ (\E i \in Interfaces : CdeIO(i)) \/ CdeIOInvalida
  \/ CdeEncola \/ CdeDespacha
  \/ CdeEsperaExec \/ ExecAFinalizado \/ ExecAReady \/ ExecABlock \/ ExecABlockAnota

AtenderIO(i) ==
  \/ IoRecibeLibre(i) \/ IoEsperaBlocked(i) \/ BlockAReadyBusca(i) \/ BlockAReady(i)
  \/ BlockAReadyNulo(i) \/ BlockAReadyAnota(i) \/ IoLibera(i) \/ IoSiguiente(i)

Pausar(h) == Detenerse(h) \/ Dormirse(h)

\* A dead Kernel takes no step.
Next ==
  /\ ~falla
  /\ \/ Consola \/ PlanificadorLargo \/ PlanificadorCorto \/ Reloj \/ Cpu
     \/ AtenderCpu \/ TerminarProceso
     \/ \E i \in Interfaces : DispositivoTermina(i) \/ AtenderIO(i)
     \/ \E h \in Hilos : Pausar(h)

Spec == Init /\ [][Next]_vars

(***************************************************************************)
(* Fairness: the operating system runs every thread of the Kernel, a      *)
(* device ends its operation and the CPU its instruction.  A program may   *)
(* compute forever, except where JusticiaRafagas is added.                 *)
(***************************************************************************)
Justicia ==
  /\ WF_vars(~falla /\ (PlanificadorLargo \/ Pausar("largo")))
  /\ WF_vars(~falla /\ (PlanificadorCorto \/ Pausar("corto")))
  /\ WF_vars(~falla /\ (AtenderCpu \/ Pausar("cde")))
  /\ WF_vars(~falla /\ Reloj)
  /\ WF_vars(~falla /\ TerminarProceso)
  /\ WF_vars(~falla /\ CpuDevuelve)
  /\ WF_vars(~falla /\ CpuInterrumpida)
  /\ \A i \in Interfaces : /\ WF_vars(~falla /\ DispositivoTermina(i))
                           /\ WF_vars(~falla /\ (AtenderIO(i) \/ Pausar(i)))

\* Every CPU burst is finite: what FIFO needs and RR does not.
JusticiaRafagas == WF_vars(~falla /\ CpuBloqueante)

SpecJusta == Spec /\ Justicia
SpecFifoJusta == SpecJusta /\ JusticiaRafagas

(***************************************************************************)
(* Properties.                                                             *)
(***************************************************************************)
\* The control points of each thread.
EnPausa == {"chequeo", "pausando", "dormido"}
PuntosDe(h) ==
  CASE h = "largo" -> {"inicio", "grado", "anota"} \cup EnPausa
    [] h = "corto" -> {"inicio", "ready", "reloj", "enviar"} \cup EnPausa
    [] h = "cde"   -> {"inicio", "encola", "despacha", "exec", "anota"} \cup EnPausa
    [] h = "reloj" -> {"inicio", "durmiendo", "interrumpir"}
    [] h = "exit"  -> {"inicio"}
    [] OTHER       -> {"inicio", "blocked", "mueve", "anota", "liberar", "siguiente"} \cup EnPausa

Puntos == {"inicio", "grado", "ready", "reloj", "enviar", "exec", "durmiendo", "interrumpir",
           "encola", "despacha", "blocked", "mueve", "anota", "liberar", "siguiente"} \cup EnPausa

TipoProcesos ==
  /\ estado \in [Pids -> Estados] /\ lugar \in [Pids -> Estados]
  /\ clock \in [Pids -> BOOLEAN]
  /\ cola \in [Colas -> Seq(Pids)]
  /\ procesos_globales \subseteq Pids
  /\ memoria \subseteq Pids
  /\ pcb_en_ejecucion \in Pids \cup {Nulo}
TipoSemaforos ==
  /\ sem \in [Semaforos -> Nat]
  /\ planificacion_detenida \in BOOLEAN
  /\ pausa \in [Transiciones -> Nat]
  /\ ordenes \in 0..MaxOrdenes
TipoHilos ==
  /\ pc \in [Hilos -> Puntos]
  /\ \A h \in Hilos : pc[h] \in PuntosDe(h)
  /\ transicion \in [Hilos -> Transiciones \cup {Nulo}]
  /\ pid_pre_clock \in Pids \cup {Nulo}
  /\ pcb_a_ready \in Pids \cup {Nulo}
TipoCpu ==
  /\ cpu \in [fase : {"libre", "calcula", "bloqueante", "devuelto"},
              pid : Pids \cup {Nulo}, motivo : Motivos \cup {Nulo}]
  /\ interrupciones \in Seq(Pids)
  /\ falla \in BOOLEAN
TipoInterfaces ==
  /\ interfaz \in [Interfaces -> [ocupada : BOOLEAN, pcb_ejecutando : Pids \cup {Nulo},
                                  pcb_esperando : Seq(Pids)]]
  /\ interfaz_buscada \in Interfaces \cup {Nulo}
  /\ io \in [Interfaces -> [trabajos : Nat, libres : Nat, pcb : Pids \cup {Nulo},
                            posicion : Nat]]

\* Every variable keeps its type; in particular no semaphore goes negative
\* and the pc of each thread stays in its own code.
TypeOK == TipoProcesos /\ TipoSemaforos /\ TipoHilos /\ TipoCpu /\ TipoInterfaces

\* The state each queue stands for.
EstadoDe(c) == CASE c = "New" -> "NEW"
                 [] c \in {"Ready", "ReadyPlus"} -> "READY"
                 [] c = "Bloqueados" -> "BLOCKED"
                 [] c = "Finalizados" -> "EXIT"

\* A process is never in two queues, nor twice in one.
UnaSolaCola ==
  \A c, d \in Colas : \A j \in DOMAIN cola[c], k \in DOMAIN cola[d] :
    cola[c][j] = cola[d][k] => c = d /\ j = k

\* Whoever is in a queue has its place, whoever has the place is in a queue
\* of it (or is pcb_en_ejecucion, for EXEC), and no process is mislaid by a
\* transition made of several waits of several threads.
LugarFiel ==
  /\ \A c \in Colas : \A k \in DOMAIN cola[c] : lugar[cola[c][k]] = EstadoDe(c)
  /\ \A p \in Pids :
       /\ lugar[p] = "EXEC" <=> pcb_en_ejecucion = p /\ pc["cde"] # "anota"
       /\ lugar[p] \in {"NEW", "READY", "BLOCKED"} =>
            \E c \in Colas : EstadoDe(c) = lugar[p] /\ Contains(cola[c], p)
       /\ lugar[p] \in {"NEW", "READY", "EXEC", "BLOCKED"} => p \in memoria

\* t_pcb.estado, by which FINALIZAR_PROCESO chooses a queue, tells where the
\* process is, except between its insertion and the assignment.
EstadoFiel == LugarFiel /\ \A p \in Pids : estado[p] = lugar[p] \/ PorAnotar(p)

\* h is between its wait on the semaphore of a queue and the removal.
EnTransicion(h) == pc[h] \in EnPausa
list_size(c) == Len(cola[c])
Uno(b) == IF b THEN 1 ELSE 0

\* Threads that put a PCB in Ready or Ready+ and have not posted it yet.
SinAvisar == {h \in {"largo"} \cup Interfaces : pc[h] = "anota"}

\* The semaphore of each queue counts what the queue holds, minus what a
\* thread that already waited is about to take and what one that inserted
\* is about to post: so nobody takes a PCB out of an empty queue, and no
\* process is left in one with nobody woken for it.
SemaforosFieles ==
  /\ list_size("New") = sem["procesos_en_new"]
                        + Uno(pc["largo"] = "grado" \/ EnTransicion("largo"))
  /\ list_size("Ready") + list_size("ReadyPlus")
       = sem["procesos_en_ready"] + Uno(EnTransicion("corto"))
         + Cardinality(SinAvisar)
  /\ list_size("Finalizados") = sem["procesos_en_exit"]

\* The processor has one owner: it is free, or the short-term scheduler holds
\* it, or a process is in EXEC; and the exchange with the CPU (dispatch,
\* return, procesos_en_exec) is always for that process.
CpuExclusiva ==
  /\ sem["cpu_libre"] + Uno(pc["corto"] = "ready" \/ EnTransicion("corto"))
       + Uno(pcb_en_ejecucion # Nulo) = 1
  /\ pc["corto"] \in {"reloj", "enviar"} =>
       pcb_en_ejecucion # Nulo /\ cpu.fase = "libre" /\ pc["cde"] = "inicio"
  /\ cpu.fase # "libre" => cpu.pid = pcb_en_ejecucion /\ pcb_en_ejecucion # Nulo
                            /\ pc["cde"] = "inicio"
  /\ pc["cde"] # "inicio" => pcb_en_ejecucion # Nulo
  /\ sem["cpu_debe_retornar"] = Uno(cpu.fase # "libre")
  /\ sem["procesos_en_exec"] = Uno(pcb_en_ejecucion # Nulo /\ ~EnTransicion("cde")
                                   /\ pc["cde"] # "anota")

\* The degree of multiprogramming is neither exceeded nor lost: the free
\* places, the one the long-term scheduler took for the process it is about
\* to admit, and the processes in READY, EXEC and BLOCKED add up to it.
GradoConservado ==
  sem["grado_de_multiprogramacion"] + Uno(EnTransicion("largo"))
    + list_size("Ready") + list_size("ReadyPlus") + list_size("Bloqueados")
    + Uno(pcb_en_ejecucion # Nulo /\ pc["cde"] # "anota") = GradoMax

\* One quantum cycle at a time: no process starts a quantum while the cycle
\* of another is still asleep or about to interrupt.
UnSoloQuantum ==
  ConReloj =>
    sem["sem_reloj_destruido"] + sem["sem_iniciar_quantum"]
      + Uno(pc["corto"] = "enviar") + Uno(pc["reloj"] # "inicio") = 1

\* procesos_en_blocked counts procesosBloqueados and not one of its waiters
\* takes the token of another process.
BloqueadosContados ==
  list_size("Bloqueados") = sem["procesos_en_blocked"] + Uno(pc["cde"] = "anota")
    + Cardinality({i \in Interfaces : EnTransicion(i) \/ pc[i] = "mueve"})

\* i has the process, and has not yet put it back in Ready.
AtiendeA(i, p) ==
  \/ /\ Contains(interfaz[i].pcb_esperando, p)
     /\ interfaz[i].ocupada \/ pc[i] = "siguiente"
  \/ /\ interfaz[i].ocupada /\ interfaz[i].pcb_ejecutando = p
     /\ pc[i] \notin {"anota", "liberar"}
     /\ io[i].trabajos + io[i].libres > 0 \/ pc[i] # "inicio"

\* No blocked process is orphan and none is served twice: exactly one
\* interface has it, and what an interface has is blocked or, for the one
\* the thread "cde" is about to block, still in pcb_en_ejecucion.
BloqueadosAtendidos ==
  \A p \in Pids :
    /\ lugar[p] = "BLOCKED" => \E i \in Interfaces : AtiendeA(i, p)
    /\ \A i \in Interfaces : AtiendeA(i, p) =>
         /\ lugar[p] = "BLOCKED" \/ (p = pcb_en_ejecucion /\ transicion["cde"] = "exec_a_blocked")
         /\ \A j \in Interfaces \ {i} : ~AtiendeA(j, p)

\* No NULL PCB is ever used: the process a LIBRE refers to is already in
\* procesosBloqueados, and the clock never reads an empty pcb_en_ejecucion.
SinFalla == ~falla

\* Who is before p in Ready.
Adelante(p) ==
  {cola["Ready"][j] : j \in {k \in DOMAIN cola["Ready"] :
                               \E m \in DOMAIN cola["Ready"] : k < m /\ cola["Ready"][m] = p}}

\* Ready is served in order of arrival: while a process waits in it, nobody
\* gets before it, neither who arrives nor who was behind.
SinAdelantos ==
  [][\A p \in ToSet(cola["Ready"]) :
       IF Contains(cola'["Ready"], p) THEN Adelante(p)' \subseteq Adelante(p)
                                      ELSE Adelante(p) = {}]_vars

\* The five-state diagram is implemented, whatever the algorithm: a process
\* goes from one queue, or the processor, to another along it.
Diagrama == INSTANCE CincoEstados WITH Procesos <- Pids, Grado <- GradoMax, estado <- lugar
CumpleDiagrama == Diagrama!Spec

\* A process that is ready gets the CPU, unless the Kernel dies.
ListoEjecuta == \A p \in Pids : lugar[p] = "READY" ~> lugar[p] = "EXEC" \/ falla

\* A blocked process becomes ready again.
BloqueadoVuelve == \A p \in Pids : lugar[p] = "BLOCKED" ~> lugar[p] = "READY" \/ falla

(***************************************************************************)
(* What comments of kernel.c say and the code does not do.                 *)
(***************************************************************************)
\* kernel.c:572: the clock interrupts "en caso de que se siga ejecutando":
\* a DESALOJO is for the process whose quantum began, still in the CPU.
InterrumpeAlQueSigue ==
  [][Len(interrupciones') > Len(interrupciones) =>
       cpu.fase # "libre" /\ cpu.pid = pid_pre_clock]_vars

\* The same comment, as the duty it states: a process whose quantum ended
\* while it runs does leave the CPU.
VencidoDejaCpu ==
  \A p \in Pids :
    (pc["reloj"] = "interrumpir" /\ cpu.fase = "calcula" /\ cpu.pid = p)
      ~> (pcb_en_ejecucion # p \/ falla)

\* kernel.c:1345: INICIAR_PLANIFICACION gives the threads it stopped
\* the "ok para seguir".
IniciarReanuda ==
  <>[]~planificacion_detenida =>
    \A h \in Hilos : (pc[h] = "pausando") ~> (~EnTransicion(h) \/ falla)

\* kernel.c:629: "align decide si los semaforos deben bloquearse o no despues
\* de ser liberados": what INICIAR_PLANIFICACION posts and nobody was waiting
\* for is taken back.
PausaSinRestos ==
  ~planificacion_detenida =>
    \A t \in Transiciones : pausa[t] <= Cardinality(Dormidos(t))

\* kernel.c:1332: only New -> Ready and Ready -> Exec stop when the
\* planning is stopped.
SoloDosSePausan ==
  \A h \in Hilos : pc[h] = "dormido" => transicion[h] \in {"new_a_ready", "ready_a_exec"}

\* kernel.c:952: a process that asks for an interface that is not there "se
\* procede a finalizarlo".
InvalidaFinaliza ==
  \A p \in Pids : (cpu.pid = p /\ cpu.motivo = "IO_INVALIDA") ~> (estado[p] = "EXIT" \/ falla)

=============================================================================
