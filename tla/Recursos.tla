------------------------------- MODULE Recursos -------------------------------
(***************************************************************************)
(* The resources of the Kernel (WAIT, SIGNAL) and the console commands     *)
(* that race with them: FINALIZAR_PROCESO and MULTIPROGRAMACION.           *)
(*                                                                         *)
(* Threads (the domain of pc): "largo", "corto" and "cde" as in            *)
(* Planificador, and "consola", here a thread: terminar_proceso_consola    *)
(* waits on the same semaphores as the others, and each of its accesses to *)
(* what they share is an action.  The transitions of the scheduler are one *)
(* action each: Planificador has their inner steps, the pauses and the     *)
(* interfaces, and there a PCB can be taken from READY before its estado   *)
(* is written (CarreraEstado), which here it cannot.  The CPU runs real    *)
(* programs, because who asks for what and in which order is what matters  *)
(* here.                                                                   *)
(***************************************************************************)
EXTENDS Integers, SequencesExt

CONSTANTS
  Programas,          \* one program per process: a sequence of instructions
  InstanciasDe,       \* INSTANCIAS_RECURSOS, by resource
  GradoMax,           \* MULTIPROGRAMACION_MAX
  GradosPedidos,      \* arguments of MULTIPROGRAMACION
  ModSem,             \* 2^32: what a semaphore counts
  MaxOrdenes,         \* bound: FINALIZAR_PROCESO and MULTIPROGRAMACION commands
  CarreraConsola,     \* the console acts in the middle of what others do
  BajaDelGrado,       \* MULTIPROGRAMACION may ask for less than what is in use
  Nulo                \* NULL

Pids == DOMAIN Programas
Recursos == DOMAIN InstanciasDe

\* An instruction that neither asks the Kernel nor blocks has op "OTRA".
Ops == {"WAIT", "SIGNAL", "OTRA"}

Motivos == {"FINALIZACION_EXIT", "FIN_DE_QUANTUM", "INTERRUPCION", "RECURSO_INVALIDO",
            "RECURSO_NO_DISPONIBLE"}

ASSUME ProgramasAssumption ==
  /\ Len(Programas) \in Nat /\ Pids = 1..Len(Programas)
  /\ \A p \in Pids : \A k \in DOMAIN Programas[p] : Programas[p][k].op \in Ops
\* Every operation waits on a copy of sem_recurso: with no instances at the
\* start it would sleep for ever.
ASSUME InstanciasAssumption == InstanciasDe \in [Recursos -> Nat \ {0}]
\* An int fits in what a semaphore counts.
ASSUME GradoAssumption ==
  GradoMax \in Nat /\ ModSem \in Nat \ {0} /\ GradosPedidos \subseteq 0..ModSem - 1
ASSUME CarreraAssumption == CarreraConsola \in BOOLEAN /\ BajaDelGrado \in BOOLEAN
ASSUME CotasAssumption == MaxOrdenes \in Nat
ASSUME NuloAssumption == Nulo \notin Pids /\ Nulo \notin Recursos /\ Nulo \notin Motivos

VARIABLES
  estado,               \* t_pcb.estado
  contador,             \* PC of each process
  cola,                 \* procesosNew, procesosReady, ...
  procesos_globales,
  memoria,              \* processes Memoria keeps structures of
  pcb_en_ejecucion,
  sem,
  grado_max,            \* grado_max_multiprogramacion
  instancias,           \* t_recurso.instancias
  procesos_bloqueados,  \* t_recurso.procesos_bloqueados
  recursos_asignados,   \* t_pcb.recursos_asignados
  recursos_solicitados, \* t_pcb.recursos_solicitados
  pc,
  despertado,           \* argument pcb of enviar_pcb_de_block_a_ready, by thread
  pcb_a_liberar,        \* local of terminar_proceso_consola
  indice,               \* i of liberar_recursos_pcb
  caso,                 \* the estado the switch of retirar_pcb_... read
  grado_a_asignar,      \* local of cambiar_grado_multiprogramacion
  leido,                \* and what it will write in the semaphore
  ordenes,              \* console commands so far (only to bound them)
  cpu,
  interrupciones,       \* INTERRUPT messages in the socket
  interrupcion,         \* the flag of the CPU
  falla                 \* a NULL pointer was dereferenced: the Kernel died

procesos == <<estado, contador, procesos_globales, memoria, pcb_en_ejecucion>>
planif == <<cola, sem, grado_max>>
recursos == <<instancias, procesos_bloqueados, recursos_asignados, recursos_solicitados>>
mandos == <<pcb_a_liberar, indice, caso, grado_a_asignar, leido, ordenes>>
maquina == <<cpu, interrupciones, interrupcion>>
vars == <<procesos, planif, recursos, pc, despertado, mandos, maquina, falla>>

Colas == {"New", "Ready", "Bloqueados", "Finalizados"}
Semaforos == {"cpu_libre", "procesos_en_new", "procesos_en_ready", "procesos_en_blocked",
              "procesos_en_exit", "cpu_debe_retornar", "grado_de_multiprogramacion"}
Hilos == {"largo", "corto", "cde", "consola"}

CpuLibre == [fase |-> "libre", motivo |-> Nulo, vence |-> FALSE]

Init ==
  /\ estado = [p \in Pids |-> "NO_CREADO"]
  /\ contador = [p \in Pids |-> 0]
  /\ cola = [c \in Colas |-> <<>>]
  /\ procesos_globales = {} /\ memoria = {}
  /\ pcb_en_ejecucion = Nulo
  /\ sem = [s \in Semaforos |-> CASE s = "cpu_libre" -> 1
                                  [] s = "grado_de_multiprogramacion" -> GradoMax
                                  [] OTHER -> 0]
  /\ grado_max = GradoMax
  /\ instancias = InstanciasDe
  /\ procesos_bloqueados = [r \in Recursos |-> <<>>]
  /\ recursos_asignados = [p \in Pids |-> <<>>]
  /\ recursos_solicitados = [p \in Pids |-> <<>>]
  /\ pc = [h \in Hilos |-> "inicio"]
  /\ despertado = [h \in {"cde", "consola"} |-> Nulo]
  /\ pcb_a_liberar = Nulo /\ indice = 0 /\ ordenes = 0
  /\ caso = Nulo /\ grado_a_asignar = 0 /\ leido = 0
  /\ cpu = CpuLibre
  /\ interrupciones = {} /\ interrupcion = FALSE
  /\ falla = FALSE

(***************************************************************************)
(* Steps the threads share.                                                *)
(***************************************************************************)
\* sem_wait, sem_post, and a wait with the posts that follow it.
Espera(s) == sem[s] > 0 /\ sem' = [sem EXCEPT ![s] = @ - 1]
Post(S) == sem' = [s \in Semaforos |-> IF s \in S THEN sem[s] + 1 ELSE sem[s]]
EsperaYPost(s, S) ==
  /\ sem[s] > 0
  /\ sem' = [x \in Semaforos |-> sem[x] - (IF x = s THEN 1 ELSE 0) + (IF x \in S THEN 1 ELSE 0)]

Ir(h, desde, hasta) == pc[h] = desde /\ pc' = [pc EXCEPT ![h] = hasta]

\* list_remove of the position found, list_remove_element.
Quitar(l, p) == RemoveFirst(l, p)

\* enviar_pcb_de_block_a_ready: with its token, the process goes to Ready;
\* if it is not in procesosBloqueados the NULL of list_get is dereferenced.
BlockAReady(h, hasta) ==
  LET p == despertado[h] IN
  /\ EsperaYPost("procesos_en_blocked", {"procesos_en_ready"})
  /\ Ir(h, "despierta", hasta)
  /\ despertado' = [despertado EXCEPT ![h] = Nulo]
  /\ falla' = ~Contains(cola["Bloqueados"], p)
  /\ cola' = [cola EXCEPT !["Bloqueados"] = Quitar(@, p), !["Ready"] = Append(@, p)]
  /\ estado' = [estado EXCEPT ![p] = "READY"]

(***************************************************************************)
(* Console.                                                                *)
(***************************************************************************)
\* No thread is between a token and its use, and no request is half served.
EnReposo ==
  /\ pc["cde"] = "inicio" /\ pc["corto"] # "exec"
  /\ cpu.fase \in {"libre", "corre"} /\ interrupciones = {}

IniciarProceso ==
  \E p \in Pids :
    /\ pc["consola"] = "inicio"
    /\ estado[p] = "NO_CREADO" /\ \A q \in Pids : q < p => estado[q] # "NO_CREADO"
    /\ estado' = [estado EXCEPT ![p] = "NEW"]
    /\ cola' = [cola EXCEPT !["New"] = Append(@, p)]
    /\ procesos_globales' = procesos_globales \cup {p}
    /\ memoria' = memoria \cup {p}
    /\ Post({"procesos_en_new"})
    /\ UNCHANGED <<contador, pcb_en_ejecucion, grado_max, recursos, pc, despertado, mandos,
                   maquina, falla>>

\* terminar_proceso_consola finds the PCB.
FinalizarProceso ==
  \E p \in procesos_globales :
    /\ ordenes < MaxOrdenes
    /\ CarreraConsola \/ EnReposo
    /\ Ir("consola", "inicio", "libera")
    /\ pcb_a_liberar' = p /\ indice' = 1 /\ ordenes' = ordenes + 1
    /\ UNCHANGED <<procesos, planif, recursos, despertado, caso, grado_a_asignar, leido, maquina,
                   falla>>

\* Mutation: the resource goes to who came last.
SiguienteUltimo(r) == Last(procesos_bloqueados[r])
\* list_remove(recurso->procesos_bloqueados, 0) of a list that is not empty.
Siguiente(r) == Head(procesos_bloqueados[r])

\* Mutation: a queue of one counts as empty.
AlguienEsperaMas(r) == Len(procesos_bloqueados[r]) > 1
AlguienEspera(r) == procesos_bloqueados[r] # <<>>

\* Mutation: the instance that changed hands is counted as free.
CedidaSinDescontar(r) == [instancias EXCEPT ![r] = @ + 1]
\* instancias after an instance changed hands: incremented and decremented.
Cedida(r) == instancias

\* One turn of the first loop of liberar_recursos_pcb, that reads the size of
\* the list again each time: signal_recursos_asignados_pcb.  The resource
\* stays in recursos_solicitados of the process it is given to.
LiberaRecurso ==
  LET p == pcb_a_liberar
      r == recursos_asignados[p][indice]
      q == Siguiente(r) IN
  /\ pc["consola"] = "libera" /\ indice <= Len(recursos_asignados[p])
  /\ indice' = indice + 1
  /\ IF ~AlguienEspera(r)
       THEN /\ instancias' = [instancias EXCEPT ![r] = @ + 1]
            /\ UNCHANGED <<procesos_bloqueados, recursos_asignados, despertado, pc>>
       ELSE /\ procesos_bloqueados' = [procesos_bloqueados EXCEPT ![r] = Quitar(@, q)]
            /\ recursos_asignados' = [recursos_asignados EXCEPT ![q] = Append(@, r)]
            /\ despertado' = [despertado EXCEPT !["consola"] = q]
            /\ pc' = [pc EXCEPT !["consola"] = "despierta"]
            /\ instancias' = Cedida(r)
  /\ UNCHANGED <<procesos, planif, recursos_solicitados, pcb_a_liberar, caso, grado_a_asignar, leido,
                 ordenes, maquina, falla>>

ConsolaDespierta ==
  /\ BlockAReady("consola", "libera")
  /\ UNCHANGED <<contador, procesos_globales, memoria, pcb_en_ejecucion, grado_max, recursos,
                 mandos, maquina>>

\* Mutation: the dead process stays in the queues.
DejarSolicitadosSin(p) == procesos_bloqueados
\* list_remove_element on the list of each resource the process asked for.
DejarSolicitados(p) ==
  [r \in Recursos |-> IF Contains(recursos_solicitados[p], r)
                      THEN Quitar(procesos_bloqueados[r], p)
                      ELSE procesos_bloqueados[r]]

\* The other two loops: the lists are emptied, and the process leaves the
\* queues of what it had asked for.
VaciaListas ==
  LET p == pcb_a_liberar IN
  /\ Ir("consola", "libera", "retira")
  /\ indice > Len(recursos_asignados[p])
  /\ recursos_asignados' = [recursos_asignados EXCEPT ![p] = <<>>]
  /\ recursos_solicitados' = [recursos_solicitados EXCEPT ![p] = <<>>]
  /\ procesos_bloqueados' = DejarSolicitados(p)
  /\ UNCHANGED <<procesos, planif, instancias, despertado, mandos, maquina, falla>>

\* The end of terminar_proceso_consola, whatever the state was.
Olvida(p, desde) ==
  /\ Ir("consola", desde, "inicio")
  /\ procesos_globales' = procesos_globales \ {p}
  /\ pcb_a_liberar' = Nulo /\ caso' = Nulo
  /\ UNCHANGED <<estado, contador, memoria, pcb_en_ejecucion, cola, grado_max, recursos, despertado,
                 indice, grado_a_asignar, leido, ordenes, cpu, interrupcion, falla>>

\* retirar_pcb_de_su_respectivo_estado, with mutex_procesos_globales. Its
\* switch reads t_pcb.estado, which no later step of it writes.
ColaDe == [NEW |-> "New", READY |-> "Ready", BLOCKED |-> "Bloqueados"]
TokenDe == [NEW |-> "procesos_en_new", READY |-> "procesos_en_ready",
            BLOCKED |-> "procesos_en_blocked"]

RetiraLee ==
  /\ Ir("consola", "retira", "espera")
  /\ estado[pcb_a_liberar] \in DOMAIN ColaDe
  /\ caso' = estado[pcb_a_liberar]
  /\ UNCHANGED <<procesos, planif, recursos, despertado, pcb_a_liberar, indice, grado_a_asignar,
                 leido, ordenes, maquina, falla>>

\* EXEC: the CPU is told.  EXIT: it already ended.
RetiraExec ==
  LET p == pcb_a_liberar IN
  /\ pc["consola"] = "retira" /\ estado[p] \in {"EXEC", "EXIT"}
  /\ interrupciones' = IF estado[p] = "EXEC" THEN interrupciones \cup {p} ELSE interrupciones
  /\ Olvida(p, "retira")
  /\ UNCHANGED sem

\* Mutation: the queue is touched without its token.
RetirarSinToken(s) == UNCHANGED sem
\* The token of the queue is waited for before the queue is touched.
Retirar(s) == Espera(s)

RetiraEspera ==
  /\ Ir("consola", "espera", "quita")
  /\ Retirar(TokenDe[caso])
  /\ UNCHANGED <<procesos, cola, grado_max, recursos, despertado, mandos, maquina, falla>>

\* list_remove_element, that leaves alone a list without the process.
RetiraQuita ==
  /\ Ir("consola", "quita", "finaliza")
  /\ cola' = [cola EXCEPT ![ColaDe[caso]] = Quitar(@, pcb_a_liberar)]
  /\ UNCHANGED <<procesos, sem, grado_max, recursos, despertado, mandos, maquina, falla>>

\* finalizar_pcb: the process is in Finalizados, and then it is said.
FinalizaPcb ==
  /\ Ir("consola", "finaliza", "avisa")
  /\ cola' = [cola EXCEPT !["Finalizados"] = Append(@, pcb_a_liberar)]
  /\ UNCHANGED <<procesos, sem, grado_max, recursos, despertado, mandos, maquina, falla>>

\* Mutation: nobody tells terminar_proceso.
AlFinalizarSinExit(e) == IF e \in {"READY", "BLOCKED"} THEN {"grado_de_multiprogramacion"} ELSE {}
\* Mutation: one of Ready does not give its place back.
AlFinalizarSinReady(e) ==
  {"procesos_en_exit"} \cup (IF e = "BLOCKED" THEN {"grado_de_multiprogramacion"} ELSE {})
\* The semaphores it posts, by the state of the process.
AlFinalizar(e) ==
  {"procesos_en_exit"} \cup
    (IF e \in {"READY", "BLOCKED"} THEN {"grado_de_multiprogramacion"} ELSE {})

FinalizaAvisa ==
  LET p == pcb_a_liberar IN
  /\ pc["consola"] = "avisa"
  /\ Post(AlFinalizar(estado[p]))
  /\ Olvida(p, "avisa")
  /\ UNCHANGED interrupciones

\* The console waits for a token that nobody has to give: it took the PCB of
\* the only process in NEW after enviar_de_new_a_ready took its token.  Every
\* other thread goes on.
Colgada == pc["consola"] = "espera" /\ sem[TokenDe[caso]] = 0

\* cambiar_grado_multiprogramacion: the count of the semaphore is read, the
\* difference less one is written over it, and sem_post adds the one.
Diferencia(n) == n - grado_max + sem["grado_de_multiprogramacion"]

CambiarGrado ==
  \E n \in GradosPedidos :
    /\ Ir("consola", "inicio", "escribe") /\ ordenes < MaxOrdenes
    /\ BajaDelGrado \/ Diferencia(n) >= 0
    /\ n # grado_max
    /\ grado_a_asignar' = n /\ leido' = Diferencia(n) - 1
    /\ ordenes' = ordenes + 1
    /\ UNCHANGED <<procesos, planif, recursos, despertado, pcb_a_liberar, indice, caso, maquina,
                   falla>>

\* The count has no sign.
GradoEscribe ==
  /\ Ir("consola", "escribe", "suma")
  /\ sem' = [sem EXCEPT !["grado_de_multiprogramacion"] = leido % ModSem]
  /\ UNCHANGED <<procesos, cola, grado_max, recursos, despertado, mandos, maquina, falla>>

\* grado_max_multiprogramacion is read by nobody else.
GradoSuma ==
  /\ Ir("consola", "suma", "inicio")
  /\ sem' = [sem EXCEPT !["grado_de_multiprogramacion"] = (@ + 1) % ModSem]
  /\ grado_max' = grado_a_asignar
  /\ grado_a_asignar' = 0 /\ leido' = 0
  /\ UNCHANGED <<procesos, cola, recursos, despertado, pcb_a_liberar, indice, caso, ordenes, maquina,
                 falla>>

(***************************************************************************)
(* Long-term and short-term schedulers, and terminar_proceso.              *)
(***************************************************************************)
LargoEsperaNew ==
  /\ Ir("largo", "inicio", "grado")
  /\ Espera("procesos_en_new")
  /\ UNCHANGED <<procesos, cola, grado_max, recursos, despertado, mandos, maquina, falla>>

\* queue_pop of an empty queue is NULL.
NewAReady ==
  LET p == Head(cola["New"]) IN
  /\ Ir("largo", "grado", "inicio")
  /\ IF cola["New"] = <<>>
       THEN /\ Espera("grado_de_multiprogramacion")
            /\ falla' = TRUE
            /\ UNCHANGED <<cola, estado>>
       ELSE /\ EsperaYPost("grado_de_multiprogramacion", {"procesos_en_ready"})
            /\ cola' = [cola EXCEPT !["New"] = Tail(@), !["Ready"] = Append(@, p)]
            /\ estado' = [estado EXCEPT ![p] = "READY"]
            /\ UNCHANGED falla
  /\ UNCHANGED <<contador, procesos_globales, memoria, pcb_en_ejecucion, grado_max, recursos,
                 despertado, mandos, maquina>>

CortoEsperaCpu ==
  /\ Ir("corto", "inicio", "ready")
  /\ Espera("cpu_libre")
  /\ UNCHANGED <<procesos, cola, grado_max, recursos, despertado, mandos, maquina, falla>>

CortoEsperaReady ==
  /\ Ir("corto", "ready", "exec")
  /\ Espera("procesos_en_ready")
  /\ UNCHANGED <<procesos, cola, grado_max, recursos, despertado, mandos, maquina, falla>>

\* enviar_de_ready_a_exec and enviar_cde_a_cpu.
ReadyAExec ==
  LET p == Head(cola["Ready"]) IN
  /\ Ir("corto", "exec", "inicio")
  /\ IF cola["Ready"] = <<>>
       THEN /\ falla' = TRUE
            /\ UNCHANGED <<cola, estado, pcb_en_ejecucion, sem, cpu>>
       ELSE /\ cola' = [cola EXCEPT !["Ready"] = Tail(@)]
            /\ estado' = [estado EXCEPT ![p] = "EXEC"]
            /\ pcb_en_ejecucion' = p
            /\ Post({"cpu_debe_retornar"})
            /\ cpu' = [CpuLibre EXCEPT !.fase = "corre"]
            /\ UNCHANGED falla
  /\ UNCHANGED <<contador, procesos_globales, memoria, grado_max, recursos, despertado, mandos,
                 interrupciones, interrupcion>>

\* terminar_proceso needs the mutex the console holds from "retira" on.
ConMutex == pc["consola"] \in {"retira", "espera", "quita", "finaliza", "avisa"}

TerminarProceso ==
  LET p == Head(cola["Finalizados"]) IN
  /\ ~ConMutex
  /\ Espera("procesos_en_exit")
  /\ cola' = [cola EXCEPT !["Finalizados"] = Tail(@)]
  /\ procesos_globales' = procesos_globales \ {p}
  /\ memoria' = memoria \ {p}
  /\ UNCHANGED <<estado, contador, pcb_en_ejecucion, grado_max, recursos, pc, despertado, mandos,
                 maquina, falla>>

(***************************************************************************)
(* CPU: ejecutar_proceso, ejecutar_wait, ejecutar_signal.                  *)
(***************************************************************************)
\* The instruction at the PC, and the one just fetched; after the last one
\* comes EXIT.
InstruccionEn(p, k) ==
  IF k < Len(Programas[p]) THEN Programas[p][k + 1] ELSE [op |-> "EXIT", recurso |-> Nulo]
UltimaInstruccion(p) == InstruccionEn(p, contador[p] - 1)

\* A turn of the loop: nobody asked for the process.
CpuFetch ==
  LET p == pcb_en_ejecucion
      i == InstruccionEn(p, contador[p]) IN
  /\ cpu.fase = "corre" /\ ~interrupcion
  /\ contador' = [contador EXCEPT ![p] = @ + 1]
  /\ cpu' = CASE i.op = "OTRA" -> [cpu EXCEPT !.vence = TRUE]
              [] i.op = "EXIT" -> [cpu EXCEPT !.fase = "sale", !.motivo = "FINALIZACION_EXIT"]
              [] OTHER -> [cpu EXCEPT !.fase = "pide", !.vence = FALSE]
  /\ UNCHANGED <<estado, procesos_globales, memoria, pcb_en_ejecucion, planif, recursos, pc,
                 despertado, mandos, interrupciones, interrupcion, falla>>

\* The quantum ends; a DESALOJO while the last instruction is WAIT or SIGNAL
\* is dropped (es_bloqueante).
CpuVence ==
  /\ cpu.fase = "corre" /\ cpu.vence /\ ~interrupcion
  /\ cpu' = [cpu EXCEPT !.fase = "sale", !.motivo = "FIN_DE_QUANTUM"]
  /\ UNCHANGED <<procesos, planif, recursos, pc, despertado, mandos, interrupciones,
                 interrupcion, falla>>

\* An INTERRUPT for another process is dropped.
CpuInterrupt ==
  \E p \in interrupciones :
    /\ interrupciones' = interrupciones \ {p}
    /\ interrupcion' = (interrupcion \/ (p = pcb_en_ejecucion /\ cpu.fase \in {"corre", "pide", "sale"}))
    /\ UNCHANGED <<procesos, planif, recursos, pc, despertado, mandos, cpu, falla>>

\* The process goes back; the order of the console is looked at first.
CpuDevuelve ==
  /\ cpu.fase = "sale" \/ (cpu.fase = "corre" /\ interrupcion)
  /\ cpu' = [cpu EXCEPT !.fase = "devuelto",
                        !.motivo = IF interrupcion THEN "INTERRUPCION" ELSE @]
  /\ interrupcion' = FALSE
  /\ UNCHANGED <<procesos, planif, recursos, pc, despertado, mandos, interrupciones, falla>>

(***************************************************************************)
(* Thread atender_cpu: evaluar_solicitud_recurso and recibir_cde_de_cpu.   *)
(***************************************************************************)
\* RECURSO_OK, RECURSO_INEXISTENTE and RECURSO_SIN_INSTANCIAS, as the CPU
\* takes them.
Respuesta(motivo) ==
  cpu' = IF motivo = Nulo THEN [cpu EXCEPT !.fase = "corre"]
         ELSE [cpu EXCEPT !.fase = "sale", !.motivo = motivo]

Solicitud(op) ==
  /\ pc["cde"] = "inicio" /\ cpu.fase = "pide"
  /\ UltimaInstruccion(pcb_en_ejecucion).op = op

\* Mutation: the count stays below zero.
TrasNegarSinCero(r) == instancias[r] - 1
\* recurso->instancias = 0, after the decrement that took it below.
TrasNegar(r) == 0

EvaluarWait ==
  LET p == pcb_en_ejecucion
      r == UltimaInstruccion(p).recurso IN
  /\ Solicitud("WAIT") /\ r \in Recursos
  /\ EsperaYPost("cpu_debe_retornar", {"cpu_debe_retornar"})
  /\ IF instancias[r] > 0
       THEN /\ instancias' = [instancias EXCEPT ![r] = @ - 1]
            /\ recursos_asignados' = [recursos_asignados EXCEPT ![p] = Append(@, r)]
            /\ Respuesta(Nulo)
            /\ UNCHANGED <<procesos_bloqueados, recursos_solicitados>>
       ELSE /\ instancias' = [instancias EXCEPT ![r] = TrasNegar(r)]
            /\ procesos_bloqueados' = [procesos_bloqueados EXCEPT ![r] = Append(@, p)]
            /\ recursos_solicitados' = [recursos_solicitados EXCEPT ![p] = Append(@, r)]
            /\ Respuesta("RECURSO_NO_DISPONIBLE")
            /\ UNCHANGED recursos_asignados
  /\ UNCHANGED <<procesos, cola, grado_max, pc, despertado, mandos, interrupciones, interrupcion,
                 falla>>

\* The resource goes to the first process that waits for it; the answer
\* and the next message of the CPU come after that process is in Ready.
EvaluarSignal ==
  LET p == pcb_en_ejecucion
      r == UltimaInstruccion(p).recurso
      q == Siguiente(r)
      suelta == Quitar(recursos_asignados[p], r) IN
  /\ Solicitud("SIGNAL") /\ r \in Recursos /\ Contains(recursos_asignados[p], r)
  /\ IF ~AlguienEspera(r)
       THEN /\ EsperaYPost("cpu_debe_retornar", {"cpu_debe_retornar"})
            /\ instancias' = [instancias EXCEPT ![r] = @ + 1]
            /\ recursos_asignados' = [recursos_asignados EXCEPT ![p] = suelta]
            /\ Respuesta(Nulo)
            /\ UNCHANGED <<procesos_bloqueados, recursos_solicitados, despertado, pc>>
       ELSE /\ Espera("cpu_debe_retornar")
            /\ procesos_bloqueados' = [procesos_bloqueados EXCEPT ![r] = Quitar(@, q)]
            /\ recursos_solicitados' =
                 [recursos_solicitados EXCEPT ![q] = Quitar(@, r)]
            /\ recursos_asignados' =
                 [x \in Pids |-> LET l == IF x = p THEN suelta ELSE recursos_asignados[x]
                                 IN IF x = q THEN Append(l, r) ELSE l]
            /\ despertado' = [despertado EXCEPT !["cde"] = q]
            /\ pc' = [pc EXCEPT !["cde"] = "despierta"]
            /\ instancias' = Cedida(r)
            /\ UNCHANGED cpu
  /\ UNCHANGED <<procesos, cola, grado_max, mandos, interrupciones, interrupcion, falla>>

\* The name is not in the list, or the process does not have it.
RecursoInexistente ==
  LET p == pcb_en_ejecucion
      i == UltimaInstruccion(p) IN
  /\ Solicitud(i.op)
  /\ i.recurso \notin Recursos
       \/ (i.op = "SIGNAL" /\ ~Contains(recursos_asignados[p], i.recurso))
  /\ EsperaYPost("cpu_debe_retornar", {"cpu_debe_retornar"})
  /\ Respuesta("RECURSO_INVALIDO")
  /\ UNCHANGED <<procesos, cola, grado_max, recursos, pc, despertado, mandos, interrupciones,
                 interrupcion, falla>>

CdeDespierta ==
  /\ BlockAReady("cde", "responde")
  /\ UNCHANGED <<contador, procesos_globales, memoria, pcb_en_ejecucion, grado_max, recursos,
                 mandos, maquina>>

CdeResponde ==
  /\ Ir("cde", "responde", "inicio")
  /\ Respuesta(Nulo)
  /\ Post({"cpu_debe_retornar"})
  /\ UNCHANGED <<procesos, cola, grado_max, recursos, despertado, mandos, interrupciones,
                 interrupcion, falla>>

\* What the three enviar_de_exec_a_... have in common.
DejaExec(motivos, c, e, S) ==
  LET p == pcb_en_ejecucion IN
  /\ pc["cde"] = "inicio" /\ cpu.fase = "devuelto" /\ cpu.motivo \in motivos
  /\ EsperaYPost("cpu_debe_retornar", {"cpu_libre"} \cup S)
  /\ cola' = [cola EXCEPT ![c] = Append(@, p)]
  /\ estado' = [estado EXCEPT ![p] = e]
  /\ pcb_en_ejecucion' = Nulo
  /\ cpu' = CpuLibre
  /\ UNCHANGED <<contador, procesos_globales, memoria, grado_max, recursos, pc, despertado,
                 mandos, interrupciones, interrupcion, falla>>

\* No resource is given back here.
ExecAFinalizado ==
  DejaExec({"FINALIZACION_EXIT", "INTERRUPCION", "RECURSO_INVALIDO"}, "Finalizados", "EXIT",
           {"procesos_en_exit", "grado_de_multiprogramacion"})
ExecAReady == DejaExec({"FIN_DE_QUANTUM"}, "Ready", "READY", {"procesos_en_ready"})
ExecABlock == DejaExec({"RECURSO_NO_DISPONIBLE"}, "Bloqueados", "BLOCKED", {"procesos_en_blocked"})

(***************************************************************************)
(* The specification.                                                      *)
(***************************************************************************)
\* A command that was typed.
ConsolaSigue ==
  \/ LiberaRecurso \/ ConsolaDespierta \/ VaciaListas
  \/ RetiraLee \/ RetiraExec \/ RetiraEspera \/ RetiraQuita \/ FinalizaPcb \/ FinalizaAvisa
  \/ GradoEscribe \/ GradoSuma
Consola == IniciarProceso \/ FinalizarProceso \/ CambiarGrado \/ ConsolaSigue

PlanificadorLargo == LargoEsperaNew \/ NewAReady
PlanificadorCorto == CortoEsperaCpu \/ CortoEsperaReady \/ ReadyAExec
Cpu == CpuFetch \/ CpuVence \/ CpuDevuelve
AtenderCpu ==
  \/ EvaluarWait \/ EvaluarSignal \/ RecursoInexistente \/ CdeDespierta \/ CdeResponde
  \/ ExecAFinalizado \/ ExecAReady \/ ExecABlock

\* The rest of the system may run: without CarreraConsola a command is served
\* whole, and its INTERRUPT read, before anything else happens, unless the
\* console waits for what only the others could do.
SinOrdenPendiente ==
  CarreraConsola \/ (interrupciones = {} /\ (pc["consola"] = "inicio" \/ Colgada))

Next ==
  /\ ~falla
  /\ \/ Consola \/ CpuInterrupt
     \/ /\ SinOrdenPendiente
        /\ PlanificadorLargo \/ PlanificadorCorto \/ Cpu \/ AtenderCpu \/ TerminarProceso

Spec == Init /\ [][Next]_vars

(***************************************************************************)
(* Fairness: the operating system runs every thread of the Kernel and the  *)
(* CPU executes; the user may never type another command.                  *)
(***************************************************************************)
Justicia ==
  /\ WF_vars(~falla /\ ConsolaSigue)
  /\ WF_vars(~falla /\ CpuInterrupt)
  /\ WF_vars(~falla /\ SinOrdenPendiente /\ PlanificadorLargo)
  /\ WF_vars(~falla /\ SinOrdenPendiente /\ PlanificadorCorto)
  /\ WF_vars(~falla /\ SinOrdenPendiente /\ Cpu)
  /\ WF_vars(~falla /\ SinOrdenPendiente /\ AtenderCpu)
  /\ WF_vars(~falla /\ SinOrdenPendiente /\ TerminarProceso)

SpecJusta == Spec /\ Justicia

(***************************************************************************)
(* Properties.                                                             *)
(***************************************************************************)
TipoProcesos ==
  /\ estado \in [Pids -> {"NO_CREADO", "NEW", "READY", "EXEC", "BLOCKED", "EXIT"}]
  /\ contador \in [Pids -> Nat]
  /\ procesos_globales \subseteq Pids /\ memoria \subseteq Pids
  /\ pcb_en_ejecucion \in Pids \cup {Nulo}

TipoPlanif ==
  /\ cola \in [Colas -> Seq(Pids)]
  /\ sem \in [Semaforos -> Nat] /\ grado_max \in Nat

TipoRecursos ==
  /\ instancias \in [Recursos -> Nat]
  /\ procesos_bloqueados \in [Recursos -> Seq(Pids)]
  /\ recursos_asignados \in [Pids -> Seq(Recursos)]
  /\ recursos_solicitados \in [Pids -> Seq(Recursos)]

Puntos == {"inicio", "grado", "ready", "exec", "despierta", "responde", "libera", "retira",
           "espera", "quita", "finaliza", "avisa", "escribe", "suma"}

TipoHilos ==
  /\ pc \in [Hilos -> Puntos]
  /\ despertado \in [{"cde", "consola"} -> Pids \cup {Nulo}]
  /\ pcb_a_liberar \in Pids \cup {Nulo} /\ indice \in Nat /\ ordenes \in 0..MaxOrdenes
  /\ caso \in DOMAIN ColaDe \cup {Nulo} /\ grado_a_asignar \in Nat /\ leido \in Int

EstadosCpu == [fase : {"libre", "corre", "pide", "sale", "devuelto"},
               motivo : Motivos \cup {Nulo}, vence : BOOLEAN]

TipoMaquina ==
  /\ cpu \in EstadosCpu
  /\ interrupciones \subseteq Pids /\ interrupcion \in BOOLEAN /\ falla \in BOOLEAN

TypeOK == TipoProcesos /\ TipoPlanif /\ TipoRecursos /\ TipoHilos /\ TipoMaquina

\* The instances each process has: of the one the console is ending, those
\* it has not yet given back.
Desde(p) == IF pc["consola"] \in {"libera", "despierta"} /\ p = pcb_a_liberar THEN indice ELSE 1
Tenencias(p, r) == {k \in Desde(p)..Len(recursos_asignados[p]) : recursos_asignados[p][k] = r}

\* Instances are neither made nor lost by WAIT, SIGNAL, a hand-over or the end
\* of a process by the console: the free ones and those in the lists of the
\* processes are the ones of the configuration.
InstanciasConservadas ==
  \A r \in Recursos :
    instancias[r] + Cardinality(UNION {{p} \X Tenencias(p, r) : p \in Pids}) = InstanciasDe[r]

\* Where p waits.
Esperas(p) == {e \in Recursos \X (1..Len(Programas)) :
                 e[2] \in DOMAIN procesos_bloqueados[e[1]] /\ procesos_bloqueados[e[1]][e[2]] = p}

\* It has been given what it waited for, or taken out of the queue, and is
\* about to leave procesosBloqueados.
Dejando == pc["consola"] = "retira" \/ (pc["consola"] \in {"espera", "quita"} /\ caso = "BLOCKED")
PorSalir(p) ==
  \/ \E h \in DOMAIN despertado : despertado[h] = p
  \/ Dejando /\ pcb_a_liberar = p

\* Nobody sleeps for nothing and nobody is woken twice: a process is in
\* exactly one queue of one resource from its WAIT to the hand-over, which is
\* when it is BLOCKED or about to be; the resource it waits for has no free
\* instance; and no queue keeps a dead process.
EsperaFiel ==
  \A p \in Pids :
    /\ Cardinality(Esperas(p)) <= 1
    /\ Esperas(p) # {} <=>
         \/ Contains(cola["Bloqueados"], p) /\ ~PorSalir(p)
         \/ p = pcb_en_ejecucion /\ cpu.motivo = "RECURSO_NO_DISPONIBLE"
    /\ \A e \in Esperas(p) : /\ Contains(recursos_solicitados[p], e[1])
                             /\ instancias[e[1]] = 0

\* The degree of multiprogramming survives the commands: free places, the
\* processes in READY, EXEC and BLOCKED, and the one the console took out of a
\* queue and whose place it has not given back, add up to the degree asked for
\* last, but while the semaphore is half written.
EnMemoria == Len(cola["Ready"]) + Len(cola["Bloqueados"]) + (IF pcb_en_ejecucion = Nulo THEN 0 ELSE 1)
PorLiberar == IF pc["consola"] \in {"finaliza", "avisa"} /\ caso # "NEW" THEN 1 ELSE 0
GradoConservado ==
  pc["consola"] # "suma" =>
    sem["grado_de_multiprogramacion"] + EnMemoria + PorLiberar = grado_max

\* Removing a process from the middle of a queue keeps its semaphore equal to
\* what the queue holds, minus what a thread took the token of; and who is in
\* Finalizados was announced, but for the one the console just put there.
Tomada(e) == IF pc["consola"] = "quita" /\ caso = e THEN 1 ELSE 0
PorAvisar == IF pc["consola"] = "avisa" THEN 1 ELSE 0
SemaforosFieles ==
  /\ Len(cola["New"]) = sem["procesos_en_new"] + (IF pc["largo"] = "grado" THEN 1 ELSE 0) + Tomada("NEW")
  /\ Len(cola["Ready"]) = sem["procesos_en_ready"] + (IF pc["corto"] = "exec" THEN 1 ELSE 0) + Tomada("READY")
  /\ Len(cola["Bloqueados"]) = sem["procesos_en_blocked"] + Tomada("BLOCKED")
  /\ Len(cola["Finalizados"]) = sem["procesos_en_exit"] + PorAvisar

\* No NULL PCB is used.
SinFalla == ~falla

\* The resources implement a fair counting semaphore each.
Fifo == INSTANCE RecursoFifo WITH
          Procesos <- Pids, libres <- instancias, espera <- procesos_bloqueados,
          tiene <- [p \in Pids |-> [r \in Recursos |-> Cardinality(Tenencias(p, r))]]
CumpleFifo == Fifo!Spec

\* Programs that take resources in one order and give them back: a process
\* that waits for one gets it, or is ended.
EsperaTermina == \A p \in Pids : Esperas(p) # {} ~> (Esperas(p) = {} \/ falla)

\* kernel.c:211, "Finalizar proceso": a process given to FINALIZAR_PROCESO
\* ends and leaves the memory, whatever its state, unless the console waits
\* for ever for the token of NEW.
FinalizarTermina ==
  \A p \in Pids : pcb_a_liberar = p ~> (p \notin memoria \/ falla \/ Colgada)

\* The same without the exception.
FinalizarSiempreTermina ==
  \A p \in Pids : pcb_a_liberar = p ~> (p \notin memoria \/ falla)

(***************************************************************************)
(* What comments of kernel.c say and the code does not do.                 *)
(***************************************************************************)
\* kernel.c:1672: only the loop over recursos_solicitados is for a process
\* ended by the console: every process that ends gives back what it has.
RecursosDevueltos ==
  \A p \in Pids : Contains(cola["Finalizados"], p) => recursos_asignados[p] = <<>>

\* kernel.c:864: "PUEDEN haber signals sin antes haber waits".
SignalSinWait ==
  [][cpu'.motivo = "RECURSO_INVALIDO" /\ cpu.fase = "pide" =>
       UltimaInstruccion(pcb_en_ejecucion).recurso \notin Recursos]_vars

\* kernel.c:356: grado_max_multiprogramacion has "el grado maximo de multirpg
\* actual": nobody is admitted above it.
AdmiteConLugar ==
  [][Len(cola'["New"]) < Len(cola["New"]) /\ Len(cola'["Ready"]) > Len(cola["Ready"]) =>
       EnMemoria < grado_max]_vars
=============================================================================
