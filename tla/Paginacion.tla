----------------------------- MODULE Paginacion -----------------------------
(***************************************************************************)
(* Paged memory: the two threads of Memoria that serve the CPU and the     *)
(* Kernel (memoria/src/memoria.c), and the CPU that translates addresses   *)
(* through its TLB (cpu/src/cpu.c).                                        *)
(*                                                                         *)
(*   atender_cpu     one request at a time: instruction, frame number,     *)
(*                   RESIZE, MOV_IN, MOV_OUT                               *)
(*   atender_kernel  adds and removes processes while the other works      *)
(*   the CPU         sends a request and waits on the socket; MOV_OUT has  *)
(*                   no answer                                             *)
(*                                                                         *)
(* lista_procesos is read without its mutex by every request but the       *)
(* instruction: buscar_proceso is one step per element there, and one step *)
(* where the mutex is held.  A physical address is its frame: the offset   *)
(* never leaves the page.                                                  *)
(***************************************************************************)
EXTENDS Integers, FiniteSets, SequencesExt

CONSTANTS
  Pids,         \* processes; the Kernel never reuses a pid
  CantMarcos,   \* TAM_MEMORIA / TAM_PAGINA
  TamPagina,    \* TAM_PAGINA, in bytes
  Tamanios,     \* sizes that the programs give to RESIZE
  Achican,      \* programs whose RESIZE may ask for less than before
  Terminan,     \* processes that the Kernel ends
  EntradasTlb,  \* CANTIDAD_ENTRADAS_TLB
  AlgoritmoTlb, \* "FIFO" or "LRU"
  MaxPedidos,   \* bound: requests in the socket (a full socket blocks send)
  Nulo          \* NULL, -1 and UINT32_MAX

Marcos == 0..CantMarcos - 1

ASSUME MemoriaAssumption == CantMarcos \in Nat /\ TamPagina \in Nat \ {0}
ASSUME TamaniosAssumption == Tamanios \subseteq Nat
ASSUME ProgramasAssumption == Achican \subseteq Pids /\ Terminan \subseteq Pids
ASSUME CotaAssumption == MaxPedidos \in Nat
ASSUME TlbAssumption == EntradasTlb \in Nat /\ AlgoritmoTlb \in {"FIFO", "LRU"}
ASSUME PaginacionNuloAssumption == Nulo \notin Pids /\ Nulo \notin Marcos

VARIABLES
  marcos,          \* tabla_de_marcos: the page associated to each frame
  lista_procesos,
  tabla_de_paginas,
  mem,             \* locals of atender_cpu
  respuestas,      \* socket from Memoria to the CPU
  pedidos,         \* socket from the CPU to Memoria
  cpu,
  tlb,             \* queue of entries
  tiempos,         \* the same entries, by tiempo_ultimo_acceso
  tamanio,         \* size each program asked for last, as it knows it
  fin              \* processes that left the CPU for good

memoria == <<marcos, lista_procesos, tabla_de_paginas, mem>>
estadoCpu == <<cpu, tlb, tiempos, tamanio, fin>>
vars == <<memoria, estadoCpu, respuestas, pedidos>>

Libre == [pid |-> Nulo, nro |-> 0]
Pagina(p, n) == [pid |-> p, nro |-> n]

\* A message of the socket to the CPU: a one-byte code, or a buffer.
Codigo(c) == [tipo |-> c, marco |-> Nulo]
Buffer(c, f) == [tipo |-> c, marco |-> f]

Inactiva == [pc |-> "espera", pid |-> Nulo, nro |-> 0, i |-> 0, faltan |-> 0, marco |-> Nulo]
CpuOciosa == [pc |-> "libre", pid |-> Nulo, nro |-> 0, marco |-> Nulo]

Init ==
  /\ marcos = [f \in Marcos |-> Libre]
  /\ lista_procesos = <<>>
  /\ tabla_de_paginas = [p \in Pids |-> <<>>]
  /\ mem = Inactiva
  /\ respuestas = <<>>
  /\ pedidos = <<>>
  /\ cpu = CpuOciosa
  /\ tlb = <<>>
  /\ tiempos = <<>>
  /\ tamanio = [p \in Pids |-> 0]
  /\ fin = {}

(***************************************************************************)
(* atender_kernel.  Both handlers hold mutex_lista_procesos.               *)
(***************************************************************************)
SinCpu == UNCHANGED <<estadoCpu, respuestas, pedidos>>

IniciarProceso(p) ==
  /\ ~Contains(lista_procesos, p) /\ p \notin fin
  /\ lista_procesos' = Append(lista_procesos, p)
  /\ UNCHANGED <<marcos, tabla_de_paginas, mem>> /\ SinCpu

\* list_destroy(tabla_de_paginas) forgets the pages; their frames stay taken.
LiberarProceso(p) ==
  /\ p \in fin \cap Terminan /\ Contains(lista_procesos, p)
  /\ lista_procesos' = RemoveFirst(lista_procesos, p)
  /\ tabla_de_paginas' = [tabla_de_paginas EXCEPT ![p] = <<>>]
  /\ UNCHANGED <<marcos, mem>> /\ SinCpu

(***************************************************************************)
(* atender_cpu.                                                            *)
(***************************************************************************)
EnMemoria(desde, hasta) == mem.pc = desde /\ mem' = [mem EXCEPT !.pc = hasta]

Recibe(tipo) == mem.pc = "espera" /\ pedidos # <<>> /\ Head(pedidos).tipo = tipo
                /\ pedidos' = Tail(pedidos)

Responde(m) == respuestas' = respuestas \o m

\* PEDIDO_INSTRUCCION: the search holds the mutex; no answer if it fails.
EnviarInstruccion ==
  /\ Recibe("instruccion")
  /\ Responde(IF Contains(lista_procesos, Head(pedidos).pid) 
                THEN <<Buffer("instruccion", Nulo)>> ELSE <<>>)
  /\ UNCHANGED <<memoria, estadoCpu>>

\* NUMERO_MARCO_SOLICITUD and RESIZE_SOLICITUD start by looking for the
\* process; nro is the page number of one and the size of the other.
EmpiezaBusqueda ==
  \E tipo \in {"marco", "resize"} :
    /\ Recibe(tipo)
    /\ mem' = [mem EXCEPT !.pc = IF tipo = "marco" THEN "busca_marco" ELSE "busca_resize",
                          !.pid = Head(pedidos).pid, !.nro = Head(pedidos).nro, !.i = 0]
    /\ UNCHANGED <<marcos, lista_procesos, tabla_de_paginas,
                   estadoCpu, respuestas>>

Buscando == {"busca_marco", "busca_resize", "busca_crea"}
Encontrado == mem.i < Len(lista_procesos) /\ lista_procesos[mem.i + 1] = mem.pid

\* One turn of the loop of buscar_proceso.
BuscarSiguiente ==
  /\ mem.pc \in Buscando
  /\ mem.i < Len(lista_procesos) /\ ~Encontrado
  /\ mem' = [mem EXCEPT !.i = @ + 1]
  /\ UNCHANGED <<marcos, lista_procesos, tabla_de_paginas>> /\ SinCpu

\* buscar_proceso returned NULL and its caller dereferences it.
BuscarNulo ==
  /\ mem.pc \in Buscando
  /\ mem.i >= Len(lista_procesos)
  /\ mem' = [mem EXCEPT !.pc = "caida"]
  /\ UNCHANGED <<marcos, lista_procesos, tabla_de_paginas>> /\ SinCpu

tabla == tabla_de_paginas[mem.pid]

DevolverNroMarco ==
  /\ Encontrado
  /\ mem.pc = "busca_marco"
  /\ IF mem.nro < Len(tabla)
       THEN mem' = Inactiva /\ Responde(<<Buffer("marco", tabla[mem.nro + 1])>>)
       ELSE mem' = [mem EXCEPT !.pc = "caida"] /\ UNCHANGED respuestas  \* list_get NULL
  /\ UNCHANGED <<marcos, lista_procesos, tabla_de_paginas, estadoCpu, pedidos>>

MarcosLibres == {f \in Marcos : marcos[f] = Libre}
Solicitadas == (mem.nro + TamPagina - 1) \div TamPagina
Reservado == Len(tabla) * TamPagina

\* Same size: it answers and returns, which ends the thread.
ResizeIgual ==
  /\ Encontrado /\ mem.nro = Reservado
  /\ EnMemoria("busca_resize", "terminado")
  /\ Responde(<<Codigo("PEDIDO_OK")>>)
  /\ UNCHANGED <<marcos, lista_procesos, tabla_de_paginas, estadoCpu, pedidos>>

\* Mutation: the pages go and their frames stay taken.
ResizeReduceSinLiberar ==
  /\ Encontrado /\ mem.nro < Reservado
  /\ mem.pc = "busca_resize" /\ mem' = Inactiva
  /\ tabla_de_paginas' = [tabla_de_paginas EXCEPT ![mem.pid] = SubSeq(@, 1, Solicitadas)]
  /\ Responde(<<Codigo("PEDIDO_OK")>>)
  /\ UNCHANGED <<marcos, lista_procesos, estadoCpu, pedidos>>

\* Reduction: pages go from the end until the requested ones are left.
ResizeReduce ==
  /\ Encontrado /\ mem.nro < Reservado
  /\ mem.pc = "busca_resize" /\ mem' = Inactiva
  /\ tabla_de_paginas' = [tabla_de_paginas EXCEPT ![mem.pid] = SubSeq(@, 1, Solicitadas)]
  /\ marcos' = [f \in Marcos |->
                  IF \E n \in Solicitadas + 1..Len(tabla) : tabla[n] = f
                    THEN Libre ELSE marcos[f]]
  /\ Responde(<<Codigo("PEDIDO_OK")>>)
  /\ UNCHANGED <<lista_procesos, estadoCpu, pedidos>>

\* Growth: the check counts the difference, the loop that follows creates
\* all the pages requested.
ResizeAmplia ==
  /\ Encontrado /\ mem.nro > Reservado
  /\ Cardinality(MarcosLibres) >= Solicitadas - Len(tabla)
  /\ mem.pc = "busca_resize"
  /\ mem' = [mem EXCEPT !.pc = "crea", !.faltan = Solicitadas]
  /\ UNCHANGED <<marcos, lista_procesos, tabla_de_paginas>> /\ SinCpu

\* Out of memory: PEDIDO_OK follows the error.
ResizeSinMemoria ==
  /\ Encontrado /\ mem.nro > Reservado
  /\ Cardinality(MarcosLibres) < Solicitadas - Len(tabla)
  /\ mem.pc = "busca_resize" /\ mem' = Inactiva
  /\ Responde(<<Codigo("ERROR_OUT_OF_MEMORY"), Codigo("PEDIDO_OK")>>)
  /\ UNCHANGED <<marcos, lista_procesos, tabla_de_paginas, estadoCpu, pedidos>>

obtener_marco_libre == CHOOSE f \in MarcosLibres : \A g \in MarcosLibres : f <= g

\* Mutation: the -1 of obtener_marco_libre is used as a frame.
CrearPaginaSinMarco ==
  /\ mem.faltan > 0
  /\ mem.pc = "crea"
  /\ LET f == IF MarcosLibres = {} THEN Nulo ELSE obtener_marco_libre
     IN /\ marcos' = [g \in Marcos |-> IF g = f THEN Pagina(mem.pid, Len(tabla)) ELSE marcos[g]]
        /\ mem' = [mem EXCEPT !.pc = "busca_crea", !.i = 0, !.marco = f]
  /\ UNCHANGED <<lista_procesos, tabla_de_paginas>> /\ SinCpu

\* crear_pagina_y_asignar_a_pid up to its own buscar_proceso.
CrearPagina ==
  /\ mem.faltan > 0
  /\ mem.pc = "crea"
  /\ MarcosLibres # {}
  /\ marcos' = [marcos EXCEPT ![obtener_marco_libre] = Pagina(mem.pid, Len(tabla))]
  /\ mem' = [mem EXCEPT !.pc = "busca_crea", !.i = 0, !.marco = obtener_marco_libre]
  /\ UNCHANGED <<lista_procesos, tabla_de_paginas>> /\ SinCpu

\* obtener_marco_libre returned -1 and list_get returned NULL.
CrearSinMarco ==
  /\ mem.faltan > 0 /\ MarcosLibres = {}
  /\ EnMemoria("crea", "caida")
  /\ UNCHANGED <<marcos, lista_procesos, tabla_de_paginas>> /\ SinCpu

\* Mutation: the loop does not count down.
AgregarPaginaSinDescontar ==
  /\ Encontrado
  /\ mem.pc = "busca_crea"
  /\ tabla_de_paginas' = [tabla_de_paginas EXCEPT ![mem.pid] = Append(@, mem.marco)]
  /\ mem' = [mem EXCEPT !.pc = "crea", !.marco = Nulo]
  /\ UNCHANGED <<marcos, lista_procesos>> /\ SinCpu

AgregarPagina ==
  /\ Encontrado
  /\ mem.pc = "busca_crea"
  /\ tabla_de_paginas' = [tabla_de_paginas EXCEPT ![mem.pid] = Append(@, mem.marco)]
  /\ mem' = [mem EXCEPT !.pc = "crea", !.faltan = @ - 1, !.marco = Nulo]
  /\ UNCHANGED <<marcos, lista_procesos>> /\ SinCpu

ResizeAmpliado ==
  /\ mem.pc = "crea" /\ mem.faltan = 0
  /\ mem' = Inactiva
  /\ Responde(<<Codigo("PEDIDO_OK")>>)
  /\ UNCHANGED <<marcos, lista_procesos, tabla_de_paginas, estadoCpu, pedidos>>

\* MOV_OUT_SOLICITUD: memcpy to the physical address, no answer.
EscribirFisica ==
  /\ Recibe("escribe")
  /\ UNCHANGED <<memoria, estadoCpu, respuestas>>

\* MOV_IN_SOLICITUD.
LeerFisica ==
  /\ Recibe("lee")
  /\ Responde(<<Buffer("dato", Nulo)>>)
  /\ UNCHANGED <<memoria, estadoCpu>>

AtenderCpu ==
  \/ EnviarInstruccion \/ EmpiezaBusqueda \/ BuscarSiguiente \/ BuscarNulo
  \/ DevolverNroMarco \/ ResizeIgual \/ ResizeReduce \/ ResizeAmplia \/ ResizeSinMemoria
  \/ CrearPagina \/ CrearSinMarco \/ AgregarPagina \/ ResizeAmpliado
  \/ EscribirFisica \/ LeerFisica

(***************************************************************************)
(* The CPU.                                                                *)
(***************************************************************************)
Pedido(tipo, p, nro, f) == [tipo |-> tipo, pid |-> p, nro |-> nro, marco |-> f]
Fetch(p) == Pedido("instruccion", p, 0, Nulo)

Pide(tipo, nro, f) == pedidos' = Append(pedidos, Pedido(tipo, cpu.pid, nro, f))

EnCpu(desde, hasta) == cpu.pc = desde /\ cpu' = [cpu EXCEPT !.pc = hasta]

\* EJECUTAR_PROCESO: the Kernel sends a process that Memoria knows, and the
\* cycle of ejecutar_proceso starts with the fetch.
CpuEmpieza(p) ==
  /\ cpu.pc = "libre" /\ p \notin fin /\ Contains(lista_procesos, p)
  /\ cpu' = [cpu EXCEPT !.pc = "instruccion", !.pid = p]
  /\ pedidos' = Append(pedidos, Fetch(p))
  /\ UNCHANGED <<memoria, tlb, tiempos, tamanio, fin, respuestas>>

\* The process leaves the CPU, for good if it ended.
CpuDevuelve ==
  /\ cpu.pc = "decodifica"
  /\ cpu' = CpuOciosa
  /\ fin' \in {fin, fin \cup {cpu.pid}}
  /\ UNCHANGED <<memoria, tlb, tiempos, tamanio, respuestas, pedidos>>

\* recibir_buffer finds a code where the four bytes of a size should be: the
\* size it makes up is of more bytes than will ever come.
CpuSeTraba ==
  /\ cpu.pc \in {"instruccion", "marco", "dato"}
  /\ respuestas # <<>> /\ Head(respuestas).tipo = "PEDIDO_OK"
  /\ respuestas' = Tail(respuestas)
  /\ cpu' = [cpu EXCEPT !.pc = "trabada"]
  /\ UNCHANGED <<memoria, tlb, tiempos, tamanio, fin, pedidos>>

RecibeBuffer(tipo) ==
  respuestas # <<>> /\ Head(respuestas).tipo = tipo /\ respuestas' = Tail(respuestas)

CpuRecibeInstruccion ==
  /\ EnCpu("instruccion", "decodifica")
  /\ RecibeBuffer("instruccion")
  /\ UNCHANGED <<memoria, tlb, tiempos, tamanio, fin, pedidos>>

\* RESIZE.
EjecutarResize(t) ==
  /\ EnCpu("decodifica", "resize")
  /\ cpu.pid \in Achican \/ t > tamanio[cpu.pid]
  /\ tamanio' = [tamanio EXCEPT ![cpu.pid] = t]
  /\ Pide("resize", t, Nulo)
  /\ UNCHANGED <<memoria, tlb, tiempos, fin, respuestas>>

\* Out of memory ends the process; otherwise the next fetch follows.
CpuRecibeResize ==
  /\ cpu.pc = "resize" /\ respuestas # <<>>
  /\ respuestas' = Tail(respuestas)
  /\ IF Head(respuestas).tipo = "ERROR_OUT_OF_MEMORY"
       THEN /\ cpu' = CpuOciosa /\ fin' = fin \cup {cpu.pid}
            /\ UNCHANGED pedidos
       ELSE /\ cpu' = [cpu EXCEPT !.pc = "instruccion"]
            /\ pedidos' = Append(pedidos, Fetch(cpu.pid))
            /\ UNCHANGED fin
  /\ UNCHANGED <<memoria, tlb, tiempos, tamanio>>

Entrada(p, n, f) == [pid |-> p, nro |-> n, marco |-> f]

\* Mutation: the pid of the entry is not compared.
EncontradasSinPid(n) == {e \in ToSet(tlb) : e.nro = n}

\* se_encuentra_en_tlb.
Encontradas(n) == {e \in ToSet(tlb) : e.nro = n /\ e.pid = cpu.pid}

\* A hit updates tiempo_ultimo_acceso.
TlbHit(n) ==
  \E e \in Encontradas(n) :
    /\ cpu' = [cpu EXCEPT !.pc = "accede", !.nro = n, !.marco = e.marco]
    /\ tiempos' = Append(RemoveFirst(tiempos, e), e)
    /\ UNCHANGED <<memoria, tlb, tamanio, fin, respuestas, pedidos>>

\* calcular_direccion_fisica asks Memoria.
TlbMiss(n) ==
  /\ Encontradas(n) = {}
  /\ cpu' = [cpu EXCEPT !.pc = "marco", !.nro = n]
  /\ Pide("marco", n, Nulo)
  /\ UNCHANGED <<memoria, tlb, tiempos, tamanio, fin, respuestas>>

\* Programs address what they asked RESIZE for.
PaginasDe(p) == 0..((tamanio[p] + TamPagina - 1) \div TamPagina) - 1
Traducir ==
  cpu.pc \in {"decodifica", "continua"} /\ \E n \in PaginasDe(cpu.pid) : TlbHit(n) \/ TlbMiss(n)

\* Mutation: the comparison of times the other way round.
victimaMasReciente == Last(tiempos)

\* desalojar_y_agregar: the oldest entry, or the one unused for longest.
victima == IF AlgoritmoTlb = "FIFO" THEN Head(tlb) ELSE Head(tiempos)

colocar_pagina_en_tlb(e) ==
  CASE EntradasTlb = 0 -> UNCHANGED <<tlb, tiempos>>
    [] EntradasTlb > 0 /\ Len(tlb) < EntradasTlb ->
         tlb' = Append(tlb, e) /\ tiempos' = Append(tiempos, e)
    [] OTHER ->
         /\ tlb' = Append(RemoveFirst(tlb, victima), e)
         /\ tiempos' = Append(RemoveFirst(tiempos, victima), e)

CpuRecibeMarco ==
  /\ cpu.pc = "marco"
  /\ RecibeBuffer("marco")
  /\ cpu' = [cpu EXCEPT !.pc = "accede", !.marco = Head(respuestas).marco]
  /\ colocar_pagina_en_tlb(Entrada(cpu.pid, cpu.nro, Head(respuestas).marco))
  /\ UNCHANGED <<memoria, tamanio, fin, pedidos>>

\* MOV_OUT, and what COPY_STRING writes: no answer to wait for.  A value that
\* crosses a page, or a string, goes on with another page.
MovOut ==
  /\ cpu.pc = "accede" /\ Len(pedidos) + 2 <= MaxPedidos
  /\ LET escribe == Pedido("escribe", cpu.pid, cpu.nro, cpu.marco)
     IN \/ /\ cpu' = [cpu EXCEPT !.pc = "continua"]
           /\ pedidos' = Append(pedidos, escribe)
        \/ /\ cpu' = [cpu EXCEPT !.pc = "instruccion"]
           /\ pedidos' = pedidos \o <<escribe, Fetch(cpu.pid)>>
  /\ UNCHANGED <<memoria, tlb, tiempos, tamanio, fin, respuestas>>

\* MOV_IN, and what COPY_STRING reads.
MovIn ==
  /\ EnCpu("accede", "dato")
  /\ Pide("lee", cpu.nro, cpu.marco)
  /\ UNCHANGED <<memoria, tlb, tiempos, tamanio, fin, respuestas>>

CpuRecibeDato ==
  /\ cpu.pc = "dato"
  /\ RecibeBuffer("dato")
  /\ \/ cpu' = [cpu EXCEPT !.pc = "continua"] /\ UNCHANGED pedidos
     \/ /\ cpu' = [cpu EXCEPT !.pc = "instruccion"]
        /\ pedidos' = Append(pedidos, Fetch(cpu.pid))
  /\ UNCHANGED <<memoria, tlb, tiempos, tamanio, fin>>

Cpu ==
  \/ CpuRecibeInstruccion \/ CpuSeTraba \/ CpuDevuelve
  \/ CpuRecibeResize \/ CpuRecibeMarco \/ CpuRecibeDato
  \/ Traducir \/ MovOut \/ MovIn
  \/ \E t \in Tamanios : EjecutarResize(t)

Next ==
  \/ AtenderCpu
  \/ Cpu
  \/ \E p \in Pids : IniciarProceso(p) \/ LiberarProceso(p) \/ CpuEmpieza(p)

Spec == Init /\ [][Next]_vars

\* Memoria runs its thread and the CPU its cycle, whatever the programs do.
SpecJusta == Spec /\ WF_vars(AtenderCpu) /\ WF_vars(Cpu)

(***************************************************************************)
(* Properties.                                                             *)
(***************************************************************************)
Paginas == [pid : Pids \cup {Nulo}, nro : Nat]
Mensajes == [tipo : {"PEDIDO_OK", "ERROR_OUT_OF_MEMORY", "instruccion", "marco", "dato"},
             marco : Marcos \cup {Nulo}]
Pedidos == [tipo : {"instruccion", "marco", "resize", "escribe", "lee"},
            pid : Pids, nro : Nat, marco : Marcos \cup {Nulo}]
Entradas == [pid : Pids, nro : Nat, marco : Marcos]

PuntosMem == Buscando \cup {"espera", "crea", "terminado", "caida"}
LocalesMem == [pc : PuntosMem, pid : Pids \cup {Nulo}, nro : Nat, i : Nat, faltan : Nat,
               marco : Marcos \cup {Nulo}]
PuntosCpu == {"libre", "instruccion", "decodifica", "resize", "marco", "accede", "dato",
              "continua", "trabada"}
LocalesCpu == [pc : PuntosCpu, pid : Pids \cup {Nulo}, nro : Nat, marco : Marcos \cup {Nulo}]

TipoMemoria ==
  /\ marcos \in [Marcos -> Paginas]
  /\ lista_procesos \in Seq(Pids)
  /\ tabla_de_paginas \in [Pids -> Seq(Marcos)]
  /\ mem \in LocalesMem
TipoMensajes == respuestas \in Seq(Mensajes) /\ pedidos \in Seq(Pedidos)
TipoCpu ==
  /\ cpu \in LocalesCpu
  /\ tlb \in Seq(Entradas) /\ tiempos \in Seq(Entradas)
  /\ tamanio \in [Pids -> Nat]
  /\ fin \subseteq Pids

\* Every variable keeps its type: no request names a frame that is not one,
\* and the -1 of obtener_marco_libre never becomes the frame of a page.
TypeOK == TipoMemoria /\ TipoMensajes /\ TipoCpu

\* A frame that was taken for a page whose table does not have it yet.
EnCreacion(f) ==
  /\ mem.pc = "busca_crea" /\ mem.marco = f
  /\ marcos[f] = Pagina(mem.pid, Len(tabla_de_paginas[mem.pid]))

\* tabla_de_marcos and the tables of pages are inverse of each other for the
\* processes Memoria knows: two pages never share a frame, whatever sequence
\* of RESIZE the programs make and whatever processes come and go, and no
\* frame of theirs is mislaid unless Memoria crashed.
MarcosSinCompartir ==
  /\ \A p \in Pids : \A n \in DOMAIN tabla_de_paginas[p] :
       marcos[tabla_de_paginas[p][n]] = Pagina(p, n - 1)
  /\ \A f \in Marcos :
       \/ marcos[f].pid = Nulo
       \/ mem.pc = "caida" \/ EnCreacion(f)
       \/ ~Contains(lista_procesos, marcos[f].pid)
       \/ LET t == tabla_de_paginas[marcos[f].pid]
          IN marcos[f].nro < Len(t) /\ t[marcos[f].nro + 1] = f

\* What MOV_IN reads and MOV_OUT writes of a program that never shrinks is the
\* frame of the page it named, although the CPU took the frame from a TLB that
\* nobody invalidates, where the programs that do shrink leave translations of
\* frames that are of this one by now.
AccesoPropio ==
  \A k \in DOMAIN pedidos :
    pedidos[k].tipo \in {"escribe", "lee"} /\ pedidos[k].pid \notin Achican =>
      marcos[pedidos[k].marco] = Pagina(pedidos[k].pid, pedidos[k].nro)

\* With LRU and room for two, the translation used last stays in the TLB.
UltimaQueda ==
  [][AlgoritmoTlb = "LRU" /\ EntradasTlb >= 2 /\ tiempos # <<>>
       => Contains(tlb', Last(tiempos))]_vars

Esperas == {"instruccion", "resize", "marco", "dato"}

\* Memoria answers every request of the CPU, so the instruction goes on.
PedidoRespondido == cpu.pc \in Esperas ~> cpu.pc \notin Esperas \cup {"trabada"}

(***************************************************************************)
(* What a reader, or a comment, expects of the code, and it does not do.   *)
(***************************************************************************)
\* The same of every program.  One that shrinks and grows again finds in the
\* TLB the frame it gave back, inside of the size it asked for.
AccesoDeTodos ==
  \A k \in DOMAIN pedidos :
    pedidos[k].tipo \in {"escribe", "lee"} =>
      marcos[pedidos[k].marco] = Pagina(pedidos[k].pid, pedidos[k].nro)

\* memoria.c:304: "en ese caso solo se crea la diferencia".
SoloLaDiferencia ==
  mem.pc = "crea" /\ mem.faltan = 0 => Len(tabla) = Solicitadas

\* diccionarioMem.h:35: "NULL si no esta asociado".  Once its process is
\* gone, a frame has no page.
MarcosDevueltos ==
  \A f \in Marcos : marcos[f].pid # Nulo => Contains(lista_procesos, marcos[f].pid)

\* memoria.c:824: "si el proceso no esta es porque fue eliminado".
NuloSoloSiEliminado ==
  mem.pc \in Buscando /\ mem.i >= Len(lista_procesos) => ~Contains(lista_procesos, mem.pid)

\* scripts_memoria/MEMORIA_3.txt:6: "RESIZE 1056", more than TAM_MEMORIA, in
\* a script that runs with others: running out of memory ends one process and
\* leaves the CPU in step with Memoria.
CpuAtenta == cpu.pc # "trabada"
=============================================================================
