# Formal models of *Simulacion de sistema operativo*

TLA+ models of the simulated operating system in `src/`: four C programs
(Kernel, CPU, Memoria, Entrada/Salida) that talk over TCP sockets and share the
library `utils`. TLC checks the models on small instances; TLAPS proves, for
every value of the constants, the safety of the scheduler, of the memory, of the
resources and of the file system, and that the first and the third implement
their abstract specifications. Definitions keep the
names of the code (Spanish) and comments are in English. `PROJECT.json` maps
each definition to the lines it stands for and lists the hazards of the code.

Contents: 1 inventory, 2 the modules and the code, 3 runs and bounds,
4 fairness, 5 proofs, 6 disagreements found, 7 abstractions, 8 what is not
modelled, and the plan.

## 1. Inventory

### Kernel: the scheduler (`kernel/src/kernel.c`)

*State.* Five lists of PCBs (`procesosNew`, `procesosReady`,
`procesosReadyPlus`, `procesosBloqueados`, `procesosFinalizados`),
`pcb_en_ejecucion`, `procesos_globales`; the fields `estado` and `clock` of each
PCB; ten counting semaphores; `planificacion_detenida` and seven `pausar_*`
semaphores.

*Threads and operations.* `enviar_de_new_a_ready` (long term),
`enviar_de_ready_a_exec` (short term), `atender_cpu` (takes the process back and
moves it to Ready, Blocked or Finished), `controlar_tiempo` (the quantum of RR
and VRR), `terminar_proceso`, one `atender_io` per interface, and the console:
INICIAR_PROCESO, FINALIZAR_PROCESO, MULTIPROGRAMACION, INICIAR_ and
DETENER_PLANIFICACION.

*Interactions.* It sends a context to the CPU (dispatch socket) and gets it back
with a reason; sends DESALOJO on the interrupt socket; sends operations to the
interfaces and receives LIBRE; asks Memoria to create and release processes.

*Hard.* Semaphores count lists that other threads change; `pcb_en_ejecucion` is
read without a lock by two threads; a process is given to an interface before it
is in the list of blocked ones; `ocupada` is tested and used in two steps; a
pause is tested and slept on in two steps.

*Correct when* a PCB is in one queue and its state names it; semaphores count
their queues; the CPU has one owner; the degree of multiprogramming is kept; at
most one quantum cycle runs; the five-state diagram is followed; ready processes
run, blocked ones come back and finished ones leave the memory.

### Kernel: console, resources, interfaces

`terminar_proceso_consola` and `retirar_pcb_de_su_respectivo_estado` take a
process out of wherever it is, from the console thread, while the others move
it. Resources (WAIT, SIGNAL) keep instances and a queue of blocked processes
each. Interfaces keep `ocupada`, `pcb_ejecutando` and `pcb_esperando`. Correct
when instances are neither lost nor made up, waiters are served in the order in
which they came, a process is in the queue of a resource exactly while it is
blocked for it, and a finalization releases the place of the process once.

### CPU (`cpu/src/cpu.c`)

*State.* Registers and program counter, the running context, three interrupt
flags, the TLB. *Operations.* Fetch, decode, execute; address translation;
accesses split at page limits; the thread that reads DESALOJO and INTERRUPT.
*Hard.* Flags written by one thread and read by the other; a DESALOJO for a
process that has gone or during a blocking instruction; a TLB nobody
invalidates; a protocol in which some requests have no answer. *Correct when*
each program sees a machine of its own, whatever turns and interrupts it is cut
by; each access reaches the frame of the page the program named, byte by byte;
and each request gets the answer that belongs to it.

### Memoria (`memoria/src/memoria.c`)

*State.* `tabla_de_marcos`, one table of pages per process, `lista_procesos`,
the memory. *Operations.* Creating and releasing processes (thread of the
Kernel); instruction, frame, RESIZE, MOV_IN, MOV_OUT (thread of the CPU); reads
and writes of devices. *Hard.* A list searched without its mutex; RESIZE that
runs out of memory half-way; frames of processes that ended. *Correct when*
frames and tables of pages are inverse of each other and every request is
answered once.

### Entrada/Salida (`entradasalida/src/io.c`)

Generic, STDIN and STDOUT interfaces wait or move bytes. DialFS keeps a file
system: `bitmap.dat` and `bloques.dat` mapped in memory, a metadata file per
file, `lista_global_archivos_abiertos`. *Hard.* Compaction; sizes that do not
fill a block; being killed between two writes. *Correct when* a taken block has
exactly one file, the metadata agrees with the list, and what was written in a
file is still there.

### Utils (`utils/`)

Serialization of messages, sockets, instructions. Pure functions, and
`recibir_buffer`, which waits for all the bytes a size announces: a code read as
a size blocks its reader (used in `Paginacion`). Fields are read back by their
position and width: a context that is sent must be the one that arrives.

## 2. The modules and the code

| module | what it is |
|---|---|
| `CincoEstados` | the abstract specification: the five-state diagram of the README of the repository, with one processor and a degree of multiprogramming |
| `Planificador` | the threads of the scheduler of the Kernel, with the CPU and the devices behind their sockets |
| `MCPlanificador` | `Planificador` for TLC (symmetry of the interfaces) |
| `Secuencias_lemas` | lemmas about sequences |
| `Planificador_proofs` | the inductive invariant of `Planificador`: counts and types |
| `Planificador_refina` | on top of it: each PCB in its queue, that `Planificador` implements `CincoEstados`, and who attends each blocked process |
| `Paginacion` | Memoria with the CPU: frames, tables, RESIZE, TLB and the protocol between both |
| `Paginacion_proofs` | frames and tables of pages, the turns of the CPU and Memoria, the TLB, and what the CPU reaches through it, proved |
| `DialFS` | the file system, its compaction, and its restarts |
| `DialFS_proofs` | the list, the directory, the bitmap and the data, proved |
| `RecursoFifo` | the abstract specification of a resource: a counting semaphore with a queue |
| `Recursos` | WAIT and SIGNAL in the Kernel, FINALIZAR_PROCESO and MULTIPROGRAMACION, with the queues they act on and programs that ask |
| `Recursos_proofs` | types and the counts of the scheduler under the console, who waits and who has what, and that `Recursos` implements `RecursoFifo`, proved |
| `MCRecursos` | `Recursos` with three small programs |
| `Instrucciones` | what instructions do to the registers, how a script becomes a list of them, and what is written and read of them and of a context in a socket (no state) |
| `MaquinaVirtual` | the abstract specification of the CPU: a machine for each program |
| `CicloCpu` | the two threads of the CPU, their flags, and the Kernel behind the sockets |
| `CicloCpu_proofs` | each process runs in a machine of its own, proved |
| `MCCicloCpu` | `CicloCpu` with two small programs |
| `EspacioLogico` | the abstract specification of the memory: an array of bytes for each program |
| `AccesoMemoria` | the bytes of the accesses of the CPU and of the devices, cut by page |
| `AccesoMemoria_proofs` | each process has a memory of its own, proved |
| `MCAccesoMemoria` | `AccesoMemoria` with eleven accesses |

**Planificador.** `pc[h]` says where thread `h` is; `"chequeo"`, `"pausando"` and
`"dormido"` are the three points of `if (planificacion_detenida == 1)
sem_wait(&pausar_x)`: about to test, having seen 1 and about to wait, and asleep.
A `sem_wait` is a guard on a counter, several `sem_post` in a row are one step
(none blocks). A transition is cut where another thread can see it half done.
`NewAReady`, `ExecABlock` and `BlockAReady` insert the PCB in its new queue, and
`NewAReadyAnota`, `ExecABlockAnota` and `BlockAReadyAnota` write its `estado` and
post afterwards, because whoever holds the token of another process may take the
PCB in between (kernel.c:1353-1354, 1472-1474, 1507-1508); `BlockAReadyBusca` is the
search of procesosBloqueados, without the mutex, and `BlockAReady` puts in Ready
whatever is at that position by then. `ExecAReady` and `ExecAFinalizado` are one
step: nobody can take what they insert before `cpu_libre` or `procesos_en_exit` is
posted. `lugar` is auxiliary: where a process is, in which queue or in the
processor, whatever its `estado` says; the diagram is about it. `evaluar_io` is
split at its unlocked read of `ocupada` (`CdeIO`), the use (`CdeEncola`,
`CdeDespacha`) and the move to Blocked, and `atender_io` at `ocupada = false`
(`IoLibera`) and the dispatch of the next process (`IoSiguiente`).
`controlar_tiempo` is split at its sleep and at its second, unlocked, read of
`pcb_en_ejecucion`. A NULL that is dereferenced sets `falla`, and a Kernel with
`falla` takes no more steps. `Liberar` is what `iniciar_planificacion` does with
`__align` on glibc: the value in the low half and the sleepers in the high one.

**Paginacion.** One action per request `atender_cpu` serves; the searches of
`lista_procesos` without the mutex are one step per element, so that
`LiberarProceso` (thread of the Kernel) may come in between. A RESIZE that grows
is one step per frame taken and per page added. The CPU sends a request and
waits, except after MOV_OUT, which has no answer, so requests queue
(`pedidos`). `CpuSeTraba` is `recibir_buffer` reading a code as a size.

**DialFS.** One operation at a time, as the program does; each is split where
something reaches the disk. A creation is `FsCreate` (`fopen`, which leaves a
metadata file without keys, `SinClaves`), `CrearMetadata` (its `config_save`),
`AsignarBloque` (the bit) and `GuardarInicial`. `Caida` kills the program between
two of those steps; `Reiniciar` rebuilds the list from the metadata directory, in
any order. What it finds may be half created, and the model goes on with it: a
write to a file with no block (-1) goes below the mapping, where it is lost
(`FsWrite`) or kills the program (`FsWriteAfuera`), and a file without keys ends it when they are read (`SinClavesTermina`,
`FsDeleteSinClaves`). `bloquesmap[b]` holds which part of which file was written
there, so `LecturaFiel` compares what a read would find with what programs wrote
(`escrito`).

**Recursos.** The console is a thread here, because it waits on the semaphores
of the scheduler: `FinalizarProceso` finds the PCB, `LiberaRecurso` is one turn
of the loop that gives back what it has (and `ConsolaDespierta` the
`enviar_pcb_de_block_a_ready` inside of it), and `VaciaListas` the rest of
`liberar_recursos_pcb`. `retirar_pcb_de_su_respectivo_estado` is the read of
`estado` that chooses the case (`RetiraLee`; `RetiraExec` for a process in the CPU or
that has ended), the wait for the token of the queue (`RetiraEspera`) and the
removal of the PCB, out of wherever it is in it (`RetiraQuita`); `finalizar_pcb`
is `FinalizaPcb` (the insertion in Finalizados) and `FinalizaAvisa` (the posts).
`MULTIPROGRAMACION` is `CambiarGrado` (the count of the semaphore is read),
`GradoEscribe` (what was computed is written over it, modulo `ModSem`) and
`GradoSuma` (the post). `Colgada` is the console waiting for the token of NEW
that the long-term scheduler took already. `EvaluarWait`,
`EvaluarSignal` and `RecursoInexistente` are the three outcomes of a request;
the CPU (`CpuFetch`, `CpuVence`, `CpuInterrupt`, `CpuDevuelve`) runs a program
per process and asks. `Fifo` is the refinement of `RecursoFifo`: the instances a process
has are the ones in `recursos_asignados`, from the position the console has not
given back yet.

**CicloCpu.** The dispatch thread goes from `RecibirProceso` through the loop
(`SigueBucle`, `Fetch`, one `Ejecutar*` per kind of instruction) to `SaleBucle`,
where a reason is chosen and the flags cleared, and then `Devolver`, `BorrarPid`
and `BorrarInstruccion`, in the order of `desalojar_cde`. The other thread is
`RecibirInterrupcion` (the comparison of the pid), `MirarInstruccion` (the read
of `instruccion_actualizada`, without the mutex) and `Marcar` (the flag).
An interrupt may be read as soon as the pid is set, so a turn may end with no
instruction run (`corrio` FALSE), and what goes back with the context is the last
instruction of the turn before.
`Instrucciones` has the registers with their widths `Mod8` and `Mod32`, and the
message of a context as the sequence of its fields in the order each function
writes or reads them. `Virtual` is the refinement of `MaquinaVirtual`: the
registers of a process are those of the CPU, of the message or of its PCB,
wherever it is, with the PC the program sees (`SinTerminar`).

**AccesoMemoria.** `memoria_fisica` has bytes. `Trozo` is how many of them go in
the next request of the CPU (`CpuLee`, `CpuEscribe`); a write waits in
`socket_cpu` until Memoria reads it (`EscribirFisica`). A device gives the
physical address of the first byte and Memoria looks for the following pages in
the table of the process (`PaginasSiguientes`): `EscribirPrimera`, `LeerPrimera`
and one `EscribirSiguiente`, `LeerSiguiente` per page. `Espacio` is the
refinement of `EspacioLogico`: what a process sees (`Vista`) is its pages in the
physical memory once the pieces in the socket have arrived (`Llegan`: the last
piece that has a byte decides it), and an access that has written a piece counts
as done.

## 3. Runs

Deadlock is checked in `DialFS`, which always has an operation to serve. In the
others it is not: programs end, the console may stay silent, and a Kernel or a
Memoria that died takes no step.

| run | instance | what it shows |
|---|---|---|
| `plan_fifo` | FIFO, 4 processes, degree 3, one interface, every reason to leave the CPU, fair | `EstadoFiel`, `BloqueadosContados`, `BloqueadosAtendidos`, `SinFalla`, `SinAdelantos`, `BloqueadoVuelve` |
| `plan_pausa_vrr` | VRR, 2 processes, degree 2, one interface, one DETENER_PLANIFICACION, one unread DESALOJO | `TypeOK`, `SemaforosFieles`, `CpuExclusiva`, `UnaSolaCola`, `GradoConservado`, `UnSoloQuantum`; `CumpleDiagrama`: the scheduler implements `CincoEstados` |
| `plan_vivo_rr` | RR, 2 processes, one interface, programs that may compute forever, fair | `ListoEjecuta`: the quantum gives everybody the CPU |
| `pag_tlb` | a program that only grows and one that also shrinks, 6 frames, LRU TLB of 2 entries, fair | `AccesoPropio`, `UltimaQueda`, `PedidoRespondido` |
| `pag_achican` | 2 programs that grow and shrink, 4 frames, one ends | `TypeOK`, `MarcosSinCompartir`, also after Memoria or the CPU stop |
| `fs_archivos` | 3 names, 4 blocks of 2 bytes, sizes 2, 4, 6, names that do not exist | `TypeOK`, `BitmapFiel`, `MetadataGuardada`, through compactions |
| `fs_caidas` | 2 names, 3 blocks, killed up to twice anywhere in a creation or a deletion, and used afterwards | `SinSolapes`, `LecturaFiel` |
| `recursos` | 3 programs, resources with 2 and 1 instances, degree 2 that may become 1, 2 or 3, 2 commands of the console served whole, fair | `TypeOK`, `InstanciasConservadas`, `EsperaFiel`, `GradoConservado`, `SemaforosFieles`, `SinFalla`, `EsperaTermina`, `FinalizarTermina`; `CumpleFifo`: resources implement `RecursoFifo` |
| `ciclo_cpu` | 2 programs, registers modulo 4 and 16, one interrupt unread, any answer to WAIT, SIGNAL and RESIZE, an end of quantum per turn, turns that run nothing, fair | `TypeOK`, `QuantumSinPendientes`, `TodosTerminan`; `CumpleMaquina`: the CPU implements `MaquinaVirtual` |
| `acceso_memoria` | 2 processes of 3 and 1 pages of 4 bytes out of order in 4 frames, 4 accesses out of 11, reads of devices inside a page among them, fair | `TypeOK`; `CumpleEspacio`: every step is one of `EspacioLogico`; `AccesosSeHacen`: each access asked for is done, the fairness of `EspacioLogico`, unless Memoria dies of a read of a device inside a page |
| `falla_*` (2) | see section 6 | a property the code is said to have and does not |

*Why the bounds are enough.* Scheduler: three processes of four fill the degree
while the fourth waits in New; two can hold the two ends of every race of the
code (one leaving the CPU, one arriving), and one interface with three processes
has a queue of two, where order matters. One DETENER reaches every thread in
each of its three points. One unread DESALOJO is enough for it to arrive before,
during or after the process it names. A second interface adds what section 6 shows
of two, `falla_libre_antes` and `falla_pcb_ajeno`, and nothing that can be
checked with it. Memory: 6 frames hold two
programs of at most two pages twice over (RESIZE takes more than it should, see
section 6), so that both always get what they ask for and the frames one gives
back go to the other while the TLB still has entries for them; 4 run out. Two
TLB entries with four possible pages force an eviction. File system: four blocks and three names are the least in which a hole
appears between two files and a third needs a compaction. Resources: three programs are
the least with one that has, one that waits and one more that arrives meanwhile;
with two instances of A one program takes both, and the other waits. Degree 2
with three programs keeps one in New; commands find processes in New, Ready,
Exec, Blocked and Exit, and the only process of New when its token is taken; the
second command comes on top of what the first left. CPU: the programs
have every kind of instruction, results below zero and past the width of a
register, and a word that is no instruction; one unread interrupt reaches
each point of a turn. Accesses: pages of 4 bytes are the least the code
supports, so that 4 bytes cross at most one limit and 9 or 10 cross two; the
frame of the other process lies between those of the first, so a byte too many
falls on it; four accesses are enough for a write of the CPU still in the socket,
a device at work for the other process, and the reads of both.

*Constants that choose the schedules.* What a run shows is for the schedules it
has. These constants name the ones that are left to the configurations of section
6, because there the code does something else:

| constant | FALSE leaves out | FALSE in |
|---|---|---|
| `CarreraIO` | `evaluar_io` and `atender_io` inside each other, between the read of `ocupada` and its use | `plan_fifo`, `plan_pausa_vrr` |
| `CarreraEstado` | a PCB taken from its new queue before its `estado` is written | `plan_fifo` |
| `CarreraBloqueados` | a removal from procesosBloqueados between the search of another thread and its removal | none: with one interface there is only one such thread |
| `CarreraConsola` | commands of the console in the middle of what others do | `recursos` |
| `BajaDelGrado` | MULTIPROGRAMACION below what is in use | `recursos` |
| `CarreraDesalojo` | an interrupt that is read, or whose flag is set, after the dispatch thread left the loop of the turn it is for | `ciclo_cpu` |
| `CarreraInicio` | a quantum that ends the turn of a process back from I/O before it runs an instruction | `ciclo_cpu` |
| `Cruces` | writes of devices that start inside a page and leave it | `acceso_memoria` |

With `CarreraConsola` FALSE a command begins when no thread is inside of a
transition and no request is half served (`EnReposo`), and is served whole, its
INTERRUPT read, before the others move (`SinOrdenPendiente`). The exception is
`Colgada`: a console that waits for the token of NEW lets the others run, for
ever if nobody starts another process, and `FinalizarTermina` has that state as
its exception too. With `CarreraDesalojo` FALSE the interrupts fall anywhere from
the dispatch to the end of the loop, before the first instruction included. With
`Cruces` FALSE every read of a device is there: those that end inside the page
they start in kill Memoria, which is the exception of `AccesosSeHacen`.
`plan_vivo_rr` has the three constants of `Planificador` TRUE.

`Achican`, `Terminan`, `Inexistentes` and `Repetidos` say what programs do.
`AccesoPropio` is for the programs that never shrink, whatever the others do. One
that shrinks and grows again may find its own old entry in the TLB, for an
address inside of what it asked for last, and reach a frame that is of another
by now (`falla_tlb_vieja`). `Repetidos` is FALSE: the code promises nothing for a
file created twice.

## 4. Fairness

`SpecJusta` adds weak fairness for each thread of the Kernel, for the end of a
device operation, for the delivery of an interrupt and for the end of a blocking
instruction. The threads are those of the operating system, which runs them all,
and none of them polls, so an enabled step stays enabled until the thread takes
it; a device sleeps a time given by its instruction. `SpecFifoJusta` adds that a
CPU burst ends (`JusticiaRafagas`): FIFO needs it, since it never takes the CPU
from anybody; RR does not, and `plan_vivo_rr` is checked without it. The console
has no fairness: nobody is obliged to type. `Paginacion!SpecJusta` has weak
fairness for the thread of Memoria and for the cycle of the CPU; the Kernel owes
nothing there.

`Recursos!Justicia` has weak fairness for each thread of the Kernel and for the
CPU, under the guard they have in `Next` (`SinOrdenPendiente`); commands are not
fair, but a command that was begun goes on. `CicloCpu!SpecJusta` has weak fairness for both threads of
the CPU and for `atender_cpu`, a process that waits for a resource gets it, and
strong fairness for `Despachar(p)`: Ready is a queue, so a process in it is
dispatched however often others are, although in between it cannot be. It also has
strong fairness for the first step of the loop of a turn that has run nothing
(`~corrio`): a quantum is counted from the dispatch, so it is not over in every
turn of a process before the CPU has taken its context.
FinDeQuantum and Finalizar are not fair. `AccesoMemoria!Spec` has weak fairness
for the CPU, for the thread of Memoria that serves it and for the access of each
device.

## 5. Proofs

Everything here is proved for every value of the constants: any number of
processes, interfaces, frames, blocks, names, orders and kills. The only
assumptions are the ones the modules name on their constants, and TLC evaluates
them in every run: bounds are naturals, `Nulo` is none of the values it is
compared with, interfaces are finite and not called like threads, a resource
starts with an instance (`InstanciasAssumption`: with none, its semaphore sleeps
for ever), a degree fits in a semaphore (`GradoAssumption`), names are finite.
A theorem that holds only for some programs or some schedules has them as a
hypothesis in its statement, and TLC finds what happens outside of it in a
configuration of section 6.

### The scheduler: counts (`Planificador_proofs`)

For the three algorithms and any value of the three `Carrera` constants:

| theorem | states |
|---|---|
| `TiposCorrectos` | `Spec => []TypeOK` |
| `SemaforosCuentan` | `Spec => []SemaforosFieles` |
| `CpuDeUno` | `Spec => []CpuExclusiva` |
| `GradoSeConserva` | `BusquedaSola => (Spec => []GradoConservado)` |
| `QuantumDeUno` | `Spec => []UnSoloQuantum` |

`BusquedaSola == ~CarreraBloqueados \/ UnaInterfaz`: no thread removes a process
from procesosBloqueados between the search of another and its removal, which one
interface guarantees and two do not. With two the code moves a PCB that was not
looked for (`falla_pcb_ajeno`); the other four theorems hold all the same.

None of the five is inductive alone. A PCB is taken with
`Head(cola[..])`: that it is a pid, which `TypeOK` needs, follows from
`SemaforosFieles` (whoever passed the `sem_wait` finds a process). That
`pcb_en_ejecucion` is a pid when `atender_cpu` inserts it in a queue comes from
`CpuExclusiva`, and `CpuExclusiva` needs the counts of `cpu_libre` and
`procesos_en_exec` and where "corto" and "cde" are. `GradoConservado` needs that
"largo" has taken a place before it admits. `UnSoloQuantum` needs
`sem_reloj_destruido` to be given back on both ends of the clock. `SoloVRR` (only
VRR fills Ready+; without it the semaphore could count a process of Ready+ under
the other two, and the short-term scheduler would take the head of an empty
Ready) closes the set:

    IInv == TypeOK /\ SoloVRR /\ SemaforosFieles /\ CpuExclusiva
                   /\ (BusquedaSola => GradoConservado) /\ UnSoloQuantum

`Init => IInv`; then one lemma per action, or per family of actions that share a
shape, each with one step per conjunct the action can disturb. The frame lemma
`Marco` says that a step which leaves queues, the counted semaphores and the
counted points of the threads alone preserves the counts; `PasoDeInterfaz` uses
it for the steps in which "cde" or an interface moves between points that are
not counted and an interface changes its record, and `IoPropio` gives the type
of such a change. `ColaAgrega`, `ColaSaca`, `ColaMueve` and `ColaDesbloquea` say
what the operations on queues do to their lengths and members; the last one rests on
`QuitarPosicion` (what `RemoveAt` does) of `Secuencias_lemas`. `SiBusca` goes with
`IInv`: under `BusquedaSola`, what a search found is still at that position, and one
thread at most has found something. `Invariante` joins all in `Spec => [](IInv /\ SiBusca)`.

### The scheduler: where each PCB is (`Planificador_refina`)

| theorem | states |
|---|---|
| `CadaUnoEnSuLugar` | `BusquedaSola => (Spec => []RInv)`, the inductive invariant |
| `UnaSola` | `BusquedaSola => (Spec => []UnaSolaCola)` |
| `EstadoVerdadero` | `~CarreraEstado /\ BusquedaSola => (Spec => []EstadoFiel)` |
| `ImplementaDiagrama` | `BusquedaSola => (Spec => CumpleDiagrama)`: the scheduler implements `CincoEstados` |
| `OrdenDeLlegada` | `BusquedaSola => (Spec => SinAdelantos)`: nobody gets ahead of a ready process |
| `BlockedCuenta` | `BusquedaSola => (Spec => []BloqueadosContados)` |
| `NadieQuedaHuerfano` | `BusquedaSola => (Spec /\ []SinCruce => []BloqueadosAtendidos)`: no blocked process is forgotten by the interfaces, and none has two |
| `KernelVivo` | `Algoritmo = "FIFO" /\ UnaInterfaz => (Spec /\ []SinCruce => []SinFalla)`: no NULL PCB is used |

    RInv == IInv /\ BusquedaVigente /\ Lugar /\ Nacidos
    Lugar == SinRepetidos /\ Separadas /\ LugarFiel /\ PorOrden

That a transition of the code follows the diagram needs the place of the PCB it
takes: `LugarFiel` says it, and it is kept because a PCB is in one queue
(`Separadas`) once (`SinRepetidos`), so what is removed is there no more. A new
process is in no queue yet because pids grow and New is sorted (`PorOrden`);
`Nacidos` says that the threads that are late in writing an `estado` write the one of
a process that exists. Queues are seen as sets: six kinds of step move a PCB, one
lemma gives the effect of each on sets and places, and both the invariant and the
step of the diagram come from it. All this holds with the late writes of `estado`
(`CarreraEstado`), because the transitions go by queues and semaphores and never
read it. What is written is another matter: `EstadoVerdadero` has its own
invariant, `EInv`, on top of `RInv`: what each thread is about to write is the place
of its PCB, no two are about to write the same one, and every other PCB has the
`estado` of its place. It needs that nobody takes a PCB whose `estado` is not
written yet; `falla_estado_tarde` is what happens otherwise.

`BlockedCuenta` adds up interfaces: those that took the token of
`procesos_en_blocked` and have not moved the process yet are as many as the count
lacks, and an interface that enters or leaves that stretch changes the cardinality by
one; this is why interfaces must be finite. It does not depend on `CarreraIO`.

The last two do, because of what `falla_io_huerfano` shows, and say so of the
behaviour: `SinCruce` is that `evaluar_io` is never between its read of `ocupada` and
the use of it while `atender_io` of the same interface is between the release and
the look at who waits. So they are about every behaviour without that crossing,
whatever the constant: no other interleaving leaves an orphan. `Fase` says what the
record of an interface and its sockets can be at each point of its thread: it
works for one process, moves it, lets it go, or looks for the next one, and is
free only if nobody waits. So what `evaluar_io` read of `ocupada` is still so when it acts on it (`Buscada`).
`Repartidos` is the equality behind the property: the processes in BLOCKED, with
the one `evaluar_io` has given and not blocked yet (`PorBloquear`), are exactly
those the interfaces have, each in one. This holds under the three algorithms
and, with `BusquedaSola`, for any number of interfaces. `EnOrden` adds that the one not blocked yet is
the last of its interface. With a single interface, whoever is in
procesosBloqueados came before; `BlockedCuenta` says somebody is, so the process
of a LIBRE is there when it is looked for (`EstaBloqueado`), and FIFO starts no
clock (`RelojParado`). With two interfaces (`falla_libre_antes`) or with a clock
(kernel.c:570) the Kernel does use a NULL, hence both hypotheses.

### Memory (`Paginacion_proofs`)

| theorem | states |
|---|---|
| `MemoriaTipada` | `Spec => []TypeOK` |
| `SinCompartir` | `Spec => []MarcosSinCompartir`: a frame of a table says it is of that page, and a taken frame of a live process is in its table |

    PInv == TypeOK /\ TipoCruzado /\ Censo /\ CreaPropia /\ MarcosSinCompartir

Both hold with the races of the code: `LiberarProceso` may come between any two
steps of a RESIZE or of a search, and a search without the mutex may miss its
process. Types depend on where Memoria and the CPU are (`TipoCruzado`: a request
in course has a process, an answer with a frame has one). `Censo` says that
whoever owns a frame, runs or is named by a request was started, once: a pid is
not reused, so the frames that a process left taken when it ended are never of a
process that is in the list. `CreaPropia` covers the two steps in which a
frame is marked and not in the table yet.

| theorem | states |
|---|---|
| `CadaCualATiempo` | `Spec => []Turno`: a request that has an answer is the last one in its socket, Memoria is not busy with another, and the CPU waits for that one |
| `UnaEntradaPorPagina` | `Spec => []TlbFiel`: the TLB has each page once, its times are of the same entries, and it never overflows |
| `LaUltimaQueda` | `Spec => UltimaQueda`: LRU with two entries or more never evicts the translation used last |
| `AccesoDeCadaUno` | `Spec => []AccesoPropio`: a read or a write of a program that never shrinks reaches the frame of the page it named, whatever the others do |

`AccesoPropio` speaks of the requests in the socket and is far from inductive:
the frame of a request comes from the CPU, there from the TLB or from an answer,
and the answer from a search that took several steps and may have been for
somebody else. `Turno` rules the last out, whatever programs do: answers carry no
name, so the CPU has to be waiting for the very request Memoria works on. The
only answer that outlives its turn is the `PEDIDO_OK` after
`ERROR_OUT_OF_MEMORY`, and a CPU that reads it as the size of a buffer never
reads again. `Fijas` then says that every translation of such a program, wherever
it is, names a frame that is of that page and a page that is within what the
program asked for. A RESIZE gives back only the pages past its size
(`FijaSigue`), so the translations of a program that only grows stay true. Those of
one that shrinks do not, because nobody invalidates the TLB, and their frames may
become of anybody; but an entry carries its pid, so it is used by nobody else. The end
of a process keeps its translations true as well, because its frames are never
given to another one.

### Resources (`Recursos_proofs`)

| theorem | states |
|---|---|
| `RecursosTipados` | `~CarreraConsola => (Spec => []TypeOK)` |
| `NingunaFalla` | `~CarreraConsola => (Spec => []SinFalla)` |
| `NadieDuermeDeMas` | `~CarreraConsola => (Spec => []EsperaFiel)` |
| `TokensSiempreFieles` | `~CarreraConsola => (Spec => []SemaforosFieles)` |
| `LugaresSiempreConservados` | `~CarreraConsola /\ ~BajaDelGrado => (Spec => []GradoConservado)` |
| `NingunaInstanciaPerdida` | `~CarreraConsola => (Spec => []InstanciasConservadas)` |
| `RecursosSonSemaforos` | `~CarreraConsola => (Spec => CumpleFifo)`: resources implement `RecursoFifo` |

The hypothesis is that commands of the console are served whole. In the middle of
what others do they break the tokens, the degree, who waits, the instances and
the Kernel itself (`falla_consola` and `falla_consola_colgada`, section 6).

    RInv == TypeOK /\ Hilada /\ (falla \/ Cuentas)
    Servida == Quieto /\ Retirando /\ Escribiendo

`Hilada` says what each thread has in its hands at each point; `Cuentas` has the
counts, one owner of the CPU, and who is in each queue (`EnCola`: all who are in
that state, once). `Servida` is what serving commands whole gives: no request is
half-way while the console works (`Quieto`), the PCB the console reads the state of
is still there when it has the token and takes it out (`Retirando`, with the token of
NEW as the only one that may be missing), and the count MULTIPROGRAMACION writes is
the one of what it read (`Escribiendo`). Together they are inductive. Then

    FInv == RInv /\ SinFalla /\ Servida /\ Atenta /\ UnaVez /\ Dormidos /\ Pedidos
                 /\ Elegidos /\ Agotados /\ Recorrido

`Dormidos` is the centre: a process is in the queue of a resource exactly when
it is in procesosBloqueados and not on its way out, or it is the one in the CPU
that has just asked. So whoever is chosen to be woken is found
(`NingunaFalla`). `Agotados` (nobody waits for what is free)
makes a WAIT that succeeds a `Tomar` and a SIGNAL with a queue a `Ceder`.

The instances are sums over processes of positions in `recursos_asignados`, and
a sum cannot be defined by recursion here: `Total` is the cardinality of the set of
pairs of a process and a position, and `CuentaDeUno` says that a change to the list of
one process changes it by as much. From it follow the conservation and, with
`Cuenta`, each step of `RecursoFifo`; the same argument is made once for WAIT,
for SIGNAL, for the loop of the console (which moves the position it looks from and
leaves the list) and for the end of a process.

### The instruction cycle (`CicloCpu_proofs`)

Under `~CarreraDesalojo /\ ~CarreraInicio` (an interrupt is read within the turn it
is for, and no quantum ends the turn of a process back from I/O before it runs
an instruction), for any programs, widths of the registers and number of
interrupts:

| theorem | states |
|---|---|
| `Invariante` | `Spec => []IInv` |
| `TiposCorrectos` | `Spec => []TypeOK` |
| `NadaSePierdePorElQuantum` | `Spec => []QuantumSinPendientes`: a process put back by the end of its quantum owes no instruction |
| `CadaProcesoSuMaquina` | `Spec => CumpleMaquina`: the CPU implements `MaquinaVirtual` |

Each hypothesis has its disagreement: with the first race
(`falla_interrupcion_ajena`) a process is given back as interrupted by an order
meant for another one; with the second (`falla_io_repetida`) the Kernel does an I/O
again. Turns that run nothing are covered in every other case.

    IInv == Tipos /\ Control /\ Turno /\ Ordenes /\ Programas

*The codec.* Contexts and instructions go through streams of integers, read by
position. `InstruccionViaja` and `CdeViaja` show that what is read from a message is
what was written in it, for every context, and what remains is the rest of the
message. From here on a context in a socket is the context.

*The argument.* `Control` says where the context of each process is: one at most
is with the CPU or between both programs (`Corriendo`, `Yendo`, `Volviendo`), and
the Kernel has the others. `Turno` says that the flags of the interrupt belong to the
turn in course, and `Ordenes` that the INTERRUPTs left in the socket are for
processes that have been condemned. `Programas` relates the instruction in the CPU
to the machine: the one being executed is the one at the program counter, or, when
it has been advanced already and the instruction is not over, at the one
before (`Atras`, `Avanzar`). Each step of either thread is then one of four for
the machine of one process: nothing, an instruction done, its end, or its
condemnation; `PasoVirtual` joins them.

*Assumptions.* `TextosAssumption`: an instruction has the parameters its code reads,
a program ends with EXIT, and jumps stay within it. With a program that
does not, Memoria dereferences the NULL of `list_get` (memoria.c:830), and there
is nothing to say about the registers.

### The memory of the programs (`AccesoMemoria_proofs`)

Under `~Cruces` (no device writes from the middle of a page past its end; reads
are all there), for any tables of pages without a frame in common, any pages of
four bytes or more, and any accesses within what the process has:

| theorem | states |
|---|---|
| `Invariante` | `Spec => []AInv` |
| `TiposCorrectos` | `Spec => []TypeOK` |
| `CadaProcesoSuMemoria` | `Spec => CumpleEspacio`: accesses cut in pieces implement `EspacioLogico` |
| `SoloMuereLeyendo` | `Spec => []Muerte`: only a read of a device that starts and ends inside a page kills Memoria |

The hypothesis is the disagreement of `falla_dispositivo_cruza`: such a write goes
over the frame of somebody else. A read of a device that starts inside a page and
ends before it copies the rest of the page and goes on with a negative number of
bytes (`falla_lectura_corta`): Memoria dies
with it, and before that nobody has seen a wrong byte.

    AInv == Tipos /\ Muerte /\ Apartadas(socket_cpu, interfaz)
         /\ \A p \in Procesos : Fiel(Llegan(memoria_fisica, socket_cpu), cpu, interfaz[p], p)

`Fiel` relates an access under way to the memory of its process: its next address
follows from how many bytes are done, the bytes read so far are those the process
has there, and only one of the CPU and a device works for it. `Apartadas` says that
a piece in the socket lies within a page of a process no device works for.

*The argument.* Two addresses of a process, or of two processes, are different
bytes of the memory, because tables share no frame (`Pagina`, `Cociente`), and a
piece that does not leave its page has consecutive bytes; `Trozo` never gives the
CPU one that does. A piece that is sent changes what its process will see by those
bytes (`LlegaOtra`), one that is written changes nothing anybody sees
(`LlegaPrimera`), and neither is seen by others (`LlegaLejos`). A device writes
directly, past what is in the socket: its process has nothing there, so the
order does not matter (`LlegaAparte`). The first piece of a write counts as the
whole access, the pieces left are pasted on what the process sees, and each of
the next ones pastes what was pasted already. So every step of the CPU, of Memoria
or of a device is, for one process, a step of `EspacioLogico` or nothing
(`Sigue`, `Cambio`), and nothing for the others (`Ajeno`, `UnoSolo`).

### The file system (`DialFS_proofs`)

Under `Uso == ~Repetidos /\ Llenos /\ (MaxCaidas = 0 \/ DeUnBloque)`: nobody
creates a file that exists, sizes fill their blocks, and the program is killed
only if every file has one block.

| theorem | states |
|---|---|
| `DiscoTipado` | `Uso => (Spec => []TypeOK)` |
| `DirectorioFiel` | `Uso => (Spec => []MetadataGuardada)` |
| `BloquesSinCompartir` | `Uso => (Spec => []SinSolapes)` |
| `BitmapExacto` | `Uso /\ MaxCaidas = 0 => (Spec => []BitmapFiel)` |
| `LecturaConservada` | `Uso /\ DeUnBloque /\ ~Inexistentes => (Spec => []LecturaFiel)` |
| `LecturaSinCompactar` | `Uso /\ ~Inexistentes => (Spec /\ [][op'.paso # "copia"]_vars => []LecturaFiel)` |

*Why the hypothesis.* Each part of it is a promise the code does not make. A
name created twice has two entries and one metadata file. A size that leaves a
block half full is rounded down where blocks are released and up where they
are taken (`falla_fs_bordes` is the case of size 0). A kill between the bits and
the size of a truncation, or in a compaction, leaves a disk nobody repairs. Data
do not survive a compaction (`falla_fs_compactar`), so what is proved of
`LecturaFiel` is for behaviours without one: the second theorem says so of the
behaviour, the first of files of a block, which never compact (`NuncaCopia`). An operation
on an unknown name goes to another file (`falla_fs_bordes`): it keeps the
disk whole, and the first four theorems cover it, but writes over data. A kill
during a creation may leave a file with no block, where nothing that is written
stays (`falla_fs_sin_bloque`): `LecturaFiel` is for the files that have one.

    DInv == Tipos /\ Lista /\ EnCreacion /\ HayLibre /\ Compacta /\ Reparto /\ Copia

*The argument.* Bits, list and metadata are written one after the other, so
between two steps they disagree. `Previsto(n)` is the data file n will have when
the operation under way ends, and `Zona[n]` its blocks; `Reparte` says that zones
are disjoint and the bitmap is their union, and it holds between any two steps
outside of a compaction. A step then either leaves zones and bitmap alone, gives
free blocks to one zone, or takes blocks from one: `Reparte` is a statement about
three sets, with one lemma per case, and a kill drops the operation, which leaves
blocks that are taken and nobody's. Inside a compaction zones overlap. `Copia` says
instead that the files already copied are disjoint and fill the start of the
disk with no gap, that this start has as many blocks as those files, and that
all files with the new blocks still fit; counts are cardinalities of sets of pairs
(`Partes`), as above. At the end of the copy it gives `Reparto` back. `LecturaFiel`
needs, on top of `DInv`, that each part written is in its place in its file
(`EscritoFiel`) and that nothing is being compacted (`SinCopia`).

### Only model-checked

Liveness (`ListoEjecuta`, `BloqueadoVuelve`,
`PedidoRespondido`, `EsperaTermina`, `FinalizarTermina`, `TodosTerminan`,
`AccesosSeHacen`): fairness and ENABLED are out of reach of the prover. What
`Instrucciones` makes of a whole script is induction over data, out of reach as
well. Every safety property that a passing run checks is a theorem, under the
hypotheses given above.

## 6. Where the code departs from what it says

Two runs end in a violation on purpose; each quotes its comment in
`PROJECT.json`.

| run | property | what happens |
|---|---|---|
| `falla_interrupcion_ajena` | `InterrupcionPropia` | an INTERRUPT passes the comparison of the pid (cpu.c:192) and sets its flag after `ejecutar_proceso` cleared them: the next process is returned as interrupted and the Kernel ends it |
| `falla_fs_compactar` | `LecturaFiel` | the origin of the copies of a compaction adds up from file to file (io.c:779) |

Others were met while modelling. Their properties are in the modules and their
configurations beside them, to be run by hand (`tlc -config falla_x.cfg` with
the module named), outside of the list of runs, which is kept short. Several
properties with the same constants share a configuration: the ones after the
first are comments in it, and one is looked at at a time.

| configuration (module) | property | what happens |
|---|---|---|
| `falla_io_huerfano` (MCPlanificador) | `BloqueadoVuelve` | `evaluar_io` (kernel.c:821) reads `ocupada`, the interface becomes free and finds nobody waiting, and then the process queues: it stays blocked |
| `falla_estado_tarde` (MCPlanificador) | `EstadoFiel` | the short-term scheduler, with the token of another process, takes the PCB that was just put in Ready; it writes EXEC and then the late READY goes over it (kernel.c:1354): the `estado` by which FINALIZAR_PROCESO chooses a queue is wrong |
| `falla_pcb_ajeno` (MCPlanificador) | `UnaSolaCola` | two interfaces: a removal between the search of procesosBloqueados and the use of the position (kernel.c:1499-1505) puts another PCB in Ready, which is then in two queues |
| `falla_libre_antes` (MCPlanificador) | `SinFalla` | LIBRE is served between the dispatch to the interface (kernel.c:830) and the move to Blocked, with another process blocked: its token is taken and NULL is dereferenced |
| `falla_pausa` (MCPlanificador) | `IniciarReanuda` | INICIAR_PLANIFICACION between the test and the wait of a thread (kernel.c:1347) wakes nobody; the thread sleeps with the planning running |
| `falla_resize_sin_memoria` (Paginacion) | `CpuAtenta` | after OUT_OF_MEMORY Memoria also sends PEDIDO_OK (memoria.c:325), which the next fetch reads as part of a size |
| `falla_tlb_vieja` (Paginacion) | `AccesoDeTodos` | a program that shrinks and grows again finds its old entry in the TLB (cpu.c:1317) and reaches a frame that is of another one |
| `falla_recurso_perdido` (MCRecursos) | `RecursosDevueltos` | only FINALIZAR_PROCESO calls `liberar_recursos_pcb`: a process that ends by EXIT or by an error keeps its instances for ever (kernel.c:1672) |
| `falla_signal_sin_wait` (MCRecursos) | `SignalSinWait` | a SIGNAL of what the process does not have ends it, against kernel.c:864 |
| `falla_grado_bajo` (MCRecursos) | `AdmiteConLugar` | a degree below what is in use makes the unsigned count wrap (kernel.c:354): processes are admitted above it |
| `falla_consola` (MCRecursos) | `FinalizarTermina` | FINALIZAR_PROCESO in the middle of a transition waits for the token its thread took, or sends an INTERRUPT for a process that has left the CPU: the process does not end |
| `falla_consola` (MCRecursos) | `InstanciasConservadas` | the loop of `liberar_recursos_pcb` runs against SIGNAL or WAIT of the same process in the CPU (kernel.c:1661): an instance is counted twice or lost |
| `falla_consola` (MCRecursos) | `EsperaFiel` | the console gives a resource to a process, or ends one, between its WAIT and its move to Blocked (kernel.c:913) |
| `falla_consola` (MCRecursos) | `SinFalla` | as before, and the NULL of the search of procesosBloqueados is dereferenced (kernel.c:1508) |
| `falla_consola` (MCRecursos) | `SemaforosFieles` | a process leaves the queue between the read of its `estado` by the console and the wait for the token (kernel.c:432-443): the token of another process is taken |
| `falla_consola_colgada` (MCRecursos) | `FinalizarSiempreTermina` | FINALIZAR_PROCESO of the only process in New, whose token the long-term scheduler took while the degree is full, waits for ever (kernel.c:435); commands are served whole here |
| `falla_consola` (MCRecursos) | `GradoConservado` | a wait or a post between the read and the write of the count of the semaphore is lost (kernel.c:354) |
| `falla_io_repetida` (MCCicloCpu) | `CumpleMaquina` | a DESALOJO before the first instruction of a turn (cpu.c:371) gives back the last instruction of the turn before, and the Kernel does that I/O again |
| `falla_lectura_corta` (MCAccesoMemoria) | `MemoriaViva` | a read of a device that starts inside a page and ends before it copies up to the end of the page and goes on with a negative length (memoria.c:490-499) |
| `falla_dispositivo_cruza` (MCAccesoMemoria) | `EscrituraPropia` | a write of a device that starts inside of a page and crosses it copies a whole page from there, over the next frame (memoria.c:400) |
| `falla_quantum` (MCPlanificador) | `InterrumpeAlQueSigue` | the clock reads `pcb_en_ejecucion` again (kernel.c:594) and may interrupt the process that came next |
| `falla_quantum` (MCPlanificador) | `VencidoDejaCpu` | a DESALOJO during WAIT or SIGNAL is dropped (cpu.c:202) and no clock is left: the process keeps the CPU |
| `falla_io_invalida` (MCPlanificador) | `InvalidaFinaliza` | a process that names an interface that is not there is never finished (kernel.c:815), and the CPU is never free again |
| `falla_pausa_restos` (MCPlanificador) | `PausaSinRestos` | `pausar_blocked_a_readyPlus` is posted and `pausar_blocked_a_ready` tested (kernel.c:653): posts add up |
| `falla_pausa` (MCPlanificador) | `SoloDosSePausan` | kernel.c:1332 speaks of two transitions that stop; all seven do |
| `falla_resize` (Paginacion) | `SoloLaDiferencia` | RESIZE creates the total again, not the difference (memoria.c:310, against the comment at 304) |
| `falla_resize` (Paginacion) | `PedidoRespondido` | RESIZE to the reserved size executes `return` in the thread of the CPU (memoria.c:270) |
| `falla_marcos` (Paginacion) | `MarcosDevueltos` | the frames of a process that ended stay taken (memoria.c:788) |
| `falla_marcos` (Paginacion) | `NuloSoloSiEliminado` | a removal shifts the list under a search without mutex, which misses a process that is there (memoria.c:916) |
| `falla_fs_bordes` (DialFS) | `VacioConBloque` | a file cut to 0 loses its block and keeps pointing at it (io.c:909) |
| `falla_fs_sin_bloque` (DialFS) | `EscritoConBloque` | a file whose creation was killed before its block was saved is truncated and written after the restart: the memcpy goes below the mapping (io.c:1042) |
| `falla_fs_bordes` (DialFS) | `InexistenteNoToca` | an operation on an unknown name goes to the last file of the list (io.c:1000) |

## 7. Abstractions

- **Time.** A quantum is long compared with a message; `usleep` ends at any
  later moment. The quantum VRR has left is a flag (`clock`: some or none). The
  repeated reads of `pcb_en_ejecucion` at the start of a cycle are one
  (`RelojInicia`). LRU times are strictly ordered.
- **Console.** In `Planificador` a command is atomic with respect to the other
  threads; in `Recursos` it has the steps of section 2, and `MULTIPROGRAMACION`
  reads and writes the count of the semaphore in two of them, but not the
  two halves of a wait or a post of the other threads.
- **Transitions.** `Planificador` has the removal, the insertion, the late write of
  `estado` and the posts of a transition as section 2 says. In `Recursos` each
  transition is one step from its last wait on, without its pauses: there the
  `estado` is never late, and a process is searched and removed in one step.
  Processes there do no I/O. `motivo_finalizacion` is left out, since it is only
  printed.
- **CPU.** The Kernel of `CicloCpu` is what reads and writes the sockets of the
  CPU: it sends any process that is not blocked, names no interface that does
  not exist, and answers WAIT, SIGNAL and RESIZE in any way. A turn has at most
  one end of quantum (`reloj`). Words and numbers of a script are a tagged value
  each (`Nombre`, `Numero`); registers are numbers modulo their width, which is
  4 and 16 in the run. SUM and SUB on SI and DI assign the second operand
  (cpu.c:718): both `CicloCpu` and `MaquinaVirtual` take it from
  `Instrucciones`, so the run says nothing for or against it.
- **Bytes.** A device writes the n bytes it asked for: the string that is typed
  or read from a file is assumed to have n of them and no 0 among them, because
  the code copies what lies after a shorter one (io.c:214-226, memoria.c:389);
  what is read from the memory is cut at its first 0 by `buffer_write_string`.
  The buffers of 2 bytes of `escribir_y_guardar_en_dos_paginas` may take a third
  (cpu.c:1022); `malloc` rounds them up and the bytes stay.
- **Lists.** An insertion or a removal is atomic (they hold a mutex); a search
  without the mutex is one step per element in Memoria. The one of
  procesosBloqueados in the Kernel (kernel.c:1499) is one step, and the use of the
  position another one; `list_get` and the removal that follows it
  (kernel.c:1501-1505) are together. The use of memory that another thread freed is not
  modelled.
- **WAIT and SIGNAL.** In `Planificador` the process asks and goes on
  (`CpuSigue`); instances and queues are in `Recursos`.
- **Addresses.** In `Paginacion` a physical address is its frame, a value has no
  bytes and a request that crosses a page is a page after another; the bytes are
  in `AccesoMemoria`, where tables of pages do not change. Programs address what
  they asked RESIZE for.
- **DialFS.** An operation the code refuses changes nothing and is no action;
  `config_save`, of the commons, is one write of the whole file; a `memcpy` of a
  compaction from outside of the mapping finds `Basura`, and a write outside of it
  is lost or kills the program; clearing the bit -1 has no
  effect; the code requires BLOCK_COUNT to be a multiple of 8 (io.c:428-433) and
  the model takes any number. `BitmapFiel` is checked with sizes that fill their
  blocks; `fs_caidas` kills the program in creations, deletions and growths
  within the block, since the order of the writes of a truncation or a
  compaction protects nothing and the code does not say it should.
- **Bounds.** `MaxProcesos` pids, `MaxOrdenes` DETENER commands (in `Recursos`,
  FINALIZAR_PROCESO and MULTIPROGRAMACION), `MaxInterrupciones` unread
  interrupts, `MaxPedidos` unread requests, `MaxAccesos` accesses, `MaxCaidas`
  kills, `Escritos` parts of a file written: guards on actions, named
  in the modules.

## 8. Not modelled

Interfaces that connect or disconnect while the system runs; the time left of a
quantum under VRR; the messages of the socket between Kernel and Memoria, which
two threads of the Kernel write without a lock, and an INICIAR_PROCESO that
fails (no answer comes); EJECUTAR_SCRIPT, which repeats the other commands, and
PROCESO_ESTADO, which prints; reading and trimming the lines of a script; names
of codes for the log; start-up, configuration and logging (sequential input and
output). A program that disconnects ends the whole exercise and is left out.

## 9. Plan

The components that carry the logic of the program are modelled. Left to model,
in this order:

| module | code | properties |
|---|---|---|
| `SocketMemoria` | kernel.c 478-560, memoria.c 600-660 | each request of the two threads of the Kernel arrives whole, and each INICIAR_PROCESO is answered |
| `Quantum` | kernel.c 540-605 | the time left under VRR never exceeds the quantum |
