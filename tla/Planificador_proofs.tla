------------------------- MODULE Planificador_proofs -------------------------
(***************************************************************************)
(* The counting invariants of the scheduler, proved for any number of      *)
(* processes, any degree of multiprogramming, any set of interfaces, the   *)
(* three algorithms and any use of DETENER/INICIAR_PLANIFICACION.          *)
(*                                                                         *)
(* Layout: first what a step of a thread, of a semaphore or of a queue     *)
(* changes; then one lemma per action, each ending in the preservation of  *)
(* the inductive invariant IInv; then the theorems.                        *)
(***************************************************************************)
EXTENDS Planificador, Secuencias_lemas

\* Ready+ is used under VRR only: without this the short-term scheduler
\* could be thought to take the head of an empty Ready.
SoloVRR ==
  Algoritmo # "VRR" =>
    cola["ReadyPlus"] = <<>> /\ \A h \in Hilos : transicion[h] # "blocked_a_readyPlus"

\* No other thread removes a process between a search in procesosBloqueados
\* and its removal: because it never happens to, or because there is no other.
UnaInterfaz == \A i, j \in Interfaces : i = j
BusquedaSola == ~CarreraBloqueados \/ UnaInterfaz

GradoSiBusca == BusquedaSola => GradoConservado

IInv == TypeOK /\ SoloVRR /\ SemaforosFieles /\ CpuExclusiva /\ GradoSiBusca /\ UnSoloQuantum

\* At most one thread is between the search and the removal, and what it
\* found is still at that position.
BusquedaVigente ==
  \A i \in Interfaces : pc[i] = "mueve" =>
    /\ \A j \in Interfaces \ {i} : pc[j] # "mueve"
    /\ io[i].posicion # 0 =>
         /\ io[i].posicion \in DOMAIN cola["Bloqueados"]
         /\ cola["Bloqueados"][io[i].posicion] = io[i].pcb
SiBusca == BusquedaSola => BusquedaVigente

(***************************************************************************)
(* Threads.                                                                *)
(***************************************************************************)

\* The points where each thread of the Kernel may be, and that the thread of
\* an interface is none of the fixed ones.
LEMMA HilosDistintos ==
  /\ PuntosDe("largo") = {"inicio", "grado", "anota", "chequeo", "pausando", "dormido"}
  /\ PuntosDe("corto") = {"inicio", "ready", "reloj", "enviar", "chequeo", "pausando", "dormido"}
  /\ PuntosDe("cde") = {"inicio", "encola", "despacha", "exec", "anota", "chequeo", "pausando", "dormido"}
  /\ PuntosDe("reloj") = {"inicio", "durmiendo", "interrumpir"}
  /\ PuntosDe("exit") = {"inicio"}
  /\ \A i \in Interfaces :
       /\ i \notin HilosKernel
       /\ PuntosDe(i) = {"inicio", "blocked", "mueve", "anota", "liberar", "siguiente",
                          "chequeo", "pausando", "dormido"}
BY InterfacesAssumption DEF PuntosDe, EnPausa, HilosKernel

\* The points of every thread are points of the model.
LEMMA PuntosPropios == \A h \in Hilos : PuntosDe(h) \subseteq Puntos
<1>1. \A h \in HilosKernel : PuntosDe(h) \subseteq Puntos
  BY HilosDistintos DEF HilosKernel, Puntos, EnPausa
<1>2. \A h \in Interfaces : PuntosDe(h) \subseteq Puntos
  BY HilosDistintos DEF Puntos, EnPausa
<1> QED BY <1>1, <1>2 DEF Hilos

\* The fixed threads and the interfaces are threads, and different ones.
LEMMA SonHilos ==
  /\ "largo" \in Hilos /\ "corto" \in Hilos /\ "cde" \in Hilos /\ "reloj" \in Hilos
  /\ \A i \in Interfaces :
       i \in Hilos /\ i # "largo" /\ i # "corto" /\ i # "cde" /\ i # "reloj"
BY HilosDistintos DEF Hilos, HilosKernel

\* A thread that can pause has the three points of the pause.
LEMMA PausaPropia ==
  ASSUME NEW h \in Hilos, NEW v \in PuntosDe(h), v \in EnPausa
  PROVE  EnPausa \subseteq PuntosDe(h)
<1>1. CASE h = "reloj" \/ h = "exit"
  BY <1>1, HilosDistintos DEF EnPausa
<1>2. CASE h \in {"largo", "corto", "cde"} \cup Interfaces
  BY <1>2, HilosDistintos DEF EnPausa
<1> QED BY <1>1, <1>2 DEF Hilos, HilosKernel

\* There are as many threads as interfaces, and one more.
LEMMA AvisosFinitos == IsFiniteSet(SinAvisar) /\ Cardinality(SinAvisar) \in Nat
<1>1. IsFiniteSet(Interfaces \cup {"largo"})
  BY InterfacesFinitas, FS_AddElement
<1>2. SinAvisar \subseteq Interfaces \cup {"largo"}
  BY DEF SinAvisar
<1>3. IsFiniteSet(SinAvisar)
  BY <1>1, <1>2, FS_Subset
<1> QED BY <1>3, FS_CardinalityType

\* What a step that moves thread h to v tells the counts.
LEMMA PcMueve ==
  ASSUME TypeOK, NEW h \in Hilos, NEW v \in PuntosDe(h), pc' = [pc EXCEPT ![h] = v]
  PROVE  /\ pc'[h] = v
         /\ EnTransicion(h)' <=> v \in EnPausa
         /\ \A g \in Hilos \ {h} : pc'[g] = pc[g] /\ (EnTransicion(g)' <=> EnTransicion(g))
         /\ pc' \in [Hilos -> Puntos]
         /\ \A g \in Hilos : pc'[g] \in PuntosDe(g)
         /\ h \notin {"largo"} \cup Interfaces \/ (pc[h] # "anota" /\ v # "anota") =>
              SinAvisar' = SinAvisar
<1>1. /\ pc'[h] = v
      /\ \A g \in Hilos \ {h} : pc'[g] = pc[g]
      /\ pc' \in [Hilos -> Puntos]
  BY PuntosPropios DEF TypeOK, TipoHilos
<1>2. \A g \in Hilos : pc'[g] \in PuntosDe(g)
  BY <1>1 DEF TypeOK, TipoHilos
<1>3. h \notin {"largo"} \cup Interfaces \/ (pc[h] # "anota" /\ v # "anota") =>
        SinAvisar' = SinAvisar
  BY <1>1, SonHilos DEF SinAvisar
<1> QED BY <1>1, <1>2, <1>3 DEF EnTransicion

\* A thread that inserted a PCB in Ready, and its post.
LEMMA Avisos ==
  ASSUME TypeOK, NEW h \in {"largo"} \cup Interfaces, NEW v \in PuntosDe(h),
         pc' = [pc EXCEPT ![h] = v]
  PROVE  /\ v = "anota" /\ pc[h] # "anota" =>
              Cardinality(SinAvisar)' = Cardinality(SinAvisar) + 1
         /\ v # "anota" /\ pc[h] = "anota" =>
              Cardinality(SinAvisar)' = Cardinality(SinAvisar) - 1
         /\ Cardinality(SinAvisar) \in Nat
<1>1. /\ pc'[h] = v
      /\ \A g \in Hilos \ {h} : pc'[g] = pc[g]
  BY SonHilos DEF TypeOK, TipoHilos
<1>2. IsFiniteSet(SinAvisar) /\ Cardinality(SinAvisar) \in Nat
  BY AvisosFinitos
<1>3. ASSUME v = "anota", pc[h] # "anota"
      PROVE  Cardinality(SinAvisar)' = Cardinality(SinAvisar) + 1
  <2>1. SinAvisar' = SinAvisar \cup {h} /\ h \notin SinAvisar
    BY <1>1, <1>3, SonHilos DEF SinAvisar
  <2> QED BY <2>1, <1>2, FS_AddElement
<1>4. ASSUME v # "anota", pc[h] = "anota"
      PROVE  Cardinality(SinAvisar)' = Cardinality(SinAvisar) - 1
  <2>1. SinAvisar' = SinAvisar \ {h} /\ h \in SinAvisar
    BY <1>1, <1>4, SonHilos DEF SinAvisar
  <2> QED BY <2>1, <1>2, FS_RemoveElement
<1> QED BY <1>2, <1>3, <1>4

(***************************************************************************)
(* Semaphores.                                                             *)
(***************************************************************************)

\* sem_wait takes one token of one semaphore, which had it, and no other.
LEMMA SemBaja ==
  ASSUME TypeOK, NEW s \in Semaforos, sem_wait(s)
  PROVE  /\ sem' \in [Semaforos -> Nat]
         /\ sem[s] > 0
         /\ sem'[s] = sem[s] - 1
         /\ \A r \in Semaforos \ {s} : sem'[r] = sem[r]
BY DEF sem_wait, TypeOK, TipoSemaforos

\* sem_post gives one token to each semaphore posted and to no other.
LEMMA SemSube ==
  ASSUME TypeOK, NEW S, sem_post(S)
  PROVE  /\ sem' \in [Semaforos -> Nat]
         /\ \A r \in Semaforos : sem'[r] = IF r \in S THEN sem[r] + 1 ELSE sem[r]
BY DEF sem_post, TypeOK, TipoSemaforos

\* Going past a pause: the semaphore of the pause never goes negative.
LEMMA PausaBaja ==
  ASSUME TypeOK, NEW h \in Hilos, NEW v, Transita(h, v)
  PROVE  /\ pausa' \in [Transiciones -> Nat]
         /\ EnTransicion(h)
         /\ pc' = [pc EXCEPT ![h] = v]
         /\ UNCHANGED <<planificacion_detenida, ordenes>>
<1>1. \/ pc[h] = "chequeo" /\ pausa' = pausa
      \/ /\ pausa[transicion[h]] > 0
         /\ pausa' = [pausa EXCEPT ![transicion[h]] = pausa[transicion[h]] - 1]
  BY DEF Transita, PuedePasar
<1>2. pausa' \in [Transiciones -> Nat]
  BY <1>1 DEF TypeOK, TipoSemaforos
<1> QED BY <1>2 DEF Transita, PuedePasar, EnTransicion, EnPausa

(***************************************************************************)
(* Queues.                                                                 *)
(***************************************************************************)
TipoColas == cola \in [Colas -> Seq(Pids)]

\* queue_push: one process more at the end of that queue, the rest as they were.
LEMMA ColaAgrega ==
  ASSUME TipoColas, NEW c \in Colas, NEW p \in Pids, Agregar(p, c)
  PROVE  /\ TipoColas'
         /\ list_size(c)' = list_size(c) + 1
         /\ \A d \in Colas \ {c} : list_size(d)' = list_size(d) /\ cola'[d] = cola[d]
BY DEF Agregar, TipoColas, list_size

\* The head of a queue that is not empty is taken out.
LEMMA ColaSaca ==
  ASSUME TipoColas, NEW c \in Colas, list_size(c) > 0,
         cola' = [cola EXCEPT ![c] = Tail(@)]
  PROVE  /\ TipoColas'
         /\ Head(cola[c]) \in Pids
         /\ list_size(c)' = list_size(c) - 1
         /\ \A d \in Colas \ {c} : list_size(d)' = list_size(d) /\ cola'[d] = cola[d]
<1>1. cola[c] \in Seq(Pids) /\ cola[c] # <<>>
  BY DEF TipoColas, list_size
<1>2. /\ Head(cola[c]) \in Pids /\ Tail(cola[c]) \in Seq(Pids)
      /\ Len(Tail(cola[c])) = Len(cola[c]) - 1
  BY <1>1, HeadTailProperties
<1> QED BY <1>2 DEF TipoColas, list_size

\* The head of a queue goes to the end of another one.
LEMMA ColaMueve ==
  ASSUME TipoColas, NEW c \in Colas, NEW d \in Colas, c # d, list_size(c) > 0,
         Mover(Head(cola[c]), c, d)
  PROVE  /\ TipoColas'
         /\ Head(cola[c]) \in Pids
         /\ list_size(c)' = list_size(c) - 1
         /\ list_size(d)' = list_size(d) + 1
         /\ \A e \in Colas \ {c, d} : list_size(e)' = list_size(e) /\ cola'[e] = cola[e]
<1>1. cola[c] \in Seq(Pids) /\ cola[c] # <<>> /\ cola[d] \in Seq(Pids)
  BY DEF TipoColas, list_size
<1>2. /\ Head(cola[c]) \in Pids /\ Tail(cola[c]) \in Seq(Pids)
      /\ Len(Tail(cola[c])) = Len(cola[c]) - 1
  BY <1>1, HeadTailProperties
<1>3. /\ Append(cola[d], Head(cola[c])) \in Seq(Pids)
      /\ Len(Append(cola[d], Head(cola[c]))) = Len(cola[d]) + 1
  BY <1>1, <1>2
<1>4. /\ cola' \in [Colas -> Seq(Pids)] /\ cola'[c] = Tail(cola[c])
      /\ cola'[d] = Append(cola[d], Head(cola[c]))
      /\ \A e \in Colas \ {c, d} : cola'[e] = cola[e]
  BY <1>2, <1>3 DEF Mover, TipoColas
<1> QED BY <1>2, <1>3, <1>4 DEF TipoColas, list_size

\* list_remove_element: of a process that is there, one element fewer.
LEMMA ColaQuita ==
  ASSUME TipoColas, NEW c \in Colas, NEW p
  PROVE  /\ Quitar(c, p) \in Seq(Pids)
         /\ Contains(cola[c], p) => Len(Quitar(c, p)) = Len(cola[c]) - 1
<1> DEFINE s == cola[c]
           k == CHOOSE j \in DOMAIN s : s[j] = p
<1>1. s \in Seq(Pids) /\ DOMAIN s = 1..Len(s)
  BY DEF TipoColas
<1>2. CASE Contains(s, p)
  <2>1. \E j \in DOMAIN s : s[j] = p
    BY <1>1, <1>2 DEF Contains
  <2>2. k \in 1..Len(s)
    BY <1>1, <2>1
  <2>3. Quitar(c, p) = RemoveAt(s, k)
    BY <1>2 DEF Quitar
  <2> HIDE DEF k
  <2>4. RemoveAt(s, k) \in Seq(Pids) /\ Len(RemoveAt(s, k)) = Len(s) - 1
    BY <1>1, <2>2, QuitarPosicion
  <2> QED BY <2>3, <2>4
<1>3. CASE ~Contains(s, p)
  BY <1>1, <1>3 DEF Quitar
<1> QED BY <1>2, <1>3

\* A process of procesosBloqueados is moved to a Ready queue.
LEMMA ColaDesbloquea ==
  ASSUME TipoColas, NEW p, NEW q \in Pids, NEW d \in {"Ready", "ReadyPlus"},
         cola' = [cola EXCEPT !["Bloqueados"] = Quitar("Bloqueados", p), ![d] = Append(@, q)]
  PROVE  /\ TipoColas'
         /\ cola'["Bloqueados"] = Quitar("Bloqueados", p)
         /\ cola'[d] = Append(cola[d], q)
         /\ Contains(cola["Bloqueados"], p) =>
              list_size("Bloqueados")' = list_size("Bloqueados") - 1
         /\ list_size(d)' = list_size(d) + 1
         /\ \A e \in Colas \ {"Bloqueados", d} : list_size(e)' = list_size(e) /\ cola'[e] = cola[e]
<1> DEFINE r == Quitar("Bloqueados", p)
<1>1. "Bloqueados" \in Colas /\ d \in Colas \ {"Bloqueados"} /\ cola[d] \in Seq(Pids)
  BY DEF TipoColas, Colas
<1>2. /\ r \in Seq(Pids)
      /\ Contains(cola["Bloqueados"], p) => Len(r) = Len(cola["Bloqueados"]) - 1
  BY <1>1, ColaQuita
<1>3. Append(cola[d], q) \in Seq(Pids) /\ Len(Append(cola[d], q)) = Len(cola[d]) + 1
  BY <1>1
<1> HIDE DEF r
<1>4. /\ cola' \in [Colas -> Seq(Pids)] /\ cola'["Bloqueados"] = r
      /\ cola'[d] = Append(cola[d], q)
      /\ \A e \in Colas \ {"Bloqueados", d} : cola'[e] = cola[e]
  BY <1>1, <1>2, <1>3 DEF TipoColas, Colas, r
<1> QED BY <1>2, <1>3, <1>4 DEF TipoColas, list_size, r

(***************************************************************************)
(* The parts of the invariant that a step does not touch.                  *)
(***************************************************************************)
\* The numbers the invariants add up.
LEMMA Numeros ==
  ASSUME TypeOK
  PROVE  /\ TipoColas
         /\ list_size("New") \in Nat /\ list_size("Ready") \in Nat
         /\ list_size("ReadyPlus") \in Nat /\ list_size("Bloqueados") \in Nat
         /\ list_size("Finalizados") \in Nat
         /\ sem["procesos_en_new"] \in Nat /\ sem["procesos_en_ready"] \in Nat
         /\ sem["procesos_en_exec"] \in Nat /\ sem["procesos_en_exit"] \in Nat
         /\ sem["cpu_libre"] \in Nat /\ sem["cpu_debe_retornar"] \in Nat
         /\ sem["sem_reloj_destruido"] \in Nat /\ sem["sem_iniciar_quantum"] \in Nat
         /\ sem["grado_de_multiprogramacion"] \in Nat
         /\ Cardinality(SinAvisar) \in Nat
BY AvisosFinitos, SMTT(30) DEF TypeOK, TipoProcesos, TipoSemaforos, TipoColas, list_size, Colas, Semaforos

\* Steps that only move the contents of the CPU socket, of the interfaces,
\* of the pauses, or a thread between points that count the same.
LEMMA Marco ==
  ASSUME IInv, TypeOK', SoloVRR',
         \A s \in Semaforos \ {"procesos_en_blocked"} : sem'[s] = sem[s],
         cola' = cola, pcb_en_ejecucion' = pcb_en_ejecucion,
         cpu'.fase = "libre" <=> cpu.fase = "libre", cpu'.pid = cpu.pid,
         \A h \in {"largo", "corto", "cde"} : EnTransicion(h)' <=> EnTransicion(h),
         pc'["largo"] = "grado" <=> pc["largo"] = "grado",
         \A v \in {"inicio", "ready", "reloj", "enviar"} : pc'["corto"] = v <=> pc["corto"] = v,
         \A v \in {"inicio", "anota"} : pc'["cde"] = v <=> pc["cde"] = v,
         SinAvisar' = SinAvisar,
         pc'["reloj"] = "inicio" <=> pc["reloj"] = "inicio"
  PROVE  IInv'
<1>1. SemaforosFieles'
  BY DEF IInv, SemaforosFieles, Semaforos, Uno, list_size
<1>2. CpuExclusiva'
  BY DEF IInv, CpuExclusiva, Semaforos, Uno
<1>3. GradoSiBusca'
  BY DEF IInv, GradoSiBusca, GradoConservado, Semaforos, Uno, list_size
<1>4. UnSoloQuantum'
  BY DEF IInv, UnSoloQuantum, Semaforos, Uno
<1> QED BY <1>1, <1>2, <1>3, <1>4 DEF IInv

(***************************************************************************)
(* Console, pauses, CPU.                                                   *)
(***************************************************************************)

\* DETENER_PLANIFICACION sets a flag that no part of the invariant reads.
LEMMA PasoDetener == ASSUME IInv, DetenerPlanificacion PROVE IInv'
<1>1. TypeOK'
  BY CotasAssumption DEF DetenerPlanificacion, IInv, TypeOK, TipoProcesos, TipoSemaforos, TipoHilos, locales, TipoCpu,
         TipoInterfaces, colas, dispositivos
<1> QED BY <1>1, Marco DEF DetenerPlanificacion, IInv, SoloVRR, EnTransicion, SinAvisar, colas

\* INICIAR_PLANIFICACION leaves no semaphore of the pause negative.
LEMMA PasoIniciarPlanificacion == ASSUME IInv, IniciarPlanificacion PROVE IInv'
<1>1. \A t \in Transiciones : Liberar(t) \in Nat
  BY DEF Liberar, IInv, TypeOK, TipoSemaforos
<1>2. TypeOK'
  BY <1>1 DEF IniciarPlanificacion, IInv, TypeOK, TipoProcesos, TipoSemaforos, TipoHilos, locales,
              TipoCpu, TipoInterfaces, colas, dispositivos
<1> QED BY <1>2, Marco DEF IniciarPlanificacion, IInv, SoloVRR, EnTransicion, SinAvisar, colas

\* A thread that stops keeps its place between the wait and the removal.
LEMMA PasoPausar == ASSUME IInv, NEW h \in Hilos, Pausar(h) PROVE IInv'
<1>1. /\ pc[h] \in EnPausa
      /\ \E v \in {"pausando", "dormido"} : pc' = [pc EXCEPT ![h] = v]
      /\ UNCHANGED <<colas, sem, pausas, transicion, locales, cpu, interrupciones,
                     dispositivos, falla>>
  BY DEF Pausar, Detenerse, Dormirse, Ir, EnPausa
<1>2. PICK v \in {"pausando", "dormido"} : pc' = [pc EXCEPT ![h] = v]
  BY <1>1
<1>3. v \in PuntosDe(h) /\ v \in EnPausa
  <2>1. pc[h] \in PuntosDe(h) /\ pc[h] \in EnPausa
    BY <1>1 DEF IInv, TypeOK, TipoHilos, locales
  <2>2. v \in EnPausa
    BY DEF EnPausa
  <2>3. EnPausa \subseteq PuntosDe(h)
    BY <2>1, PausaPropia
  <2> QED BY <2>2, <2>3
<1>4. /\ EnTransicion(h)' /\ EnTransicion(h) /\ pc'[h] \in EnPausa
      /\ \A g \in Hilos \ {h} : pc'[g] = pc[g] /\ (EnTransicion(g)' <=> EnTransicion(g))
      /\ pc' \in [Hilos -> Puntos] /\ \A g \in Hilos : pc'[g] \in PuntosDe(g)
      /\ SinAvisar' = SinAvisar
  <2>1. TypeOK /\ pc[h] # "anota" /\ v # "anota"
    BY <1>1 DEF IInv, EnPausa
  <2>2. /\ pc'[h] = v /\ (EnTransicion(h)' <=> v \in EnPausa)
        /\ \A g \in Hilos \ {h} : pc'[g] = pc[g] /\ (EnTransicion(g)' <=> EnTransicion(g))
        /\ pc' \in [Hilos -> Puntos] /\ \A g \in Hilos : pc'[g] \in PuntosDe(g)
        /\ SinAvisar' = SinAvisar
    BY <1>2, <1>3, <2>1, PcMueve
  <2> QED BY <1>1, <1>3, <2>2 DEF EnTransicion
<1>5. TypeOK'
  BY <1>1, <1>4 DEF IInv, TypeOK, TipoProcesos, TipoSemaforos, TipoHilos, locales, TipoCpu,
                    TipoInterfaces, colas, pausas, dispositivos
<1>6. \A g \in Hilos, w \in {"grado", "inicio", "ready", "reloj", "enviar", "anota"} :
        pc'[g] = w <=> pc[g] = w
  BY <1>1, <1>4 DEF EnPausa
<1>7. \A g \in Hilos : EnTransicion(g)' <=> EnTransicion(g)
  BY <1>4
<1>8. SoloVRR' /\ UNCHANGED <<sem, cola, pcb_en_ejecucion, cpu>>
  BY <1>1 DEF IInv, SoloVRR, colas
<1> QED BY <1>4, <1>5, <1>6, <1>7, <1>8, SonHilos, Marco

\* The CPU and the interrupt socket: the CPU keeps the process it has.
LEMMA PasoCpu == ASSUME IInv, Cpu PROVE IInv'
<1>1. /\ cpu'.fase = "libre" <=> cpu.fase = "libre"
      /\ cpu'.pid = cpu.pid
      /\ cpu' \in [fase : {"libre", "calcula", "bloqueante", "devuelto"},
                   pid : Pids \cup {Nulo}, motivo : Motivos \cup {Nulo}]
      /\ interrupciones' \in Seq(Pids)
      /\ UNCHANGED <<colas, sem, pausas, pc, transicion, locales, dispositivos, falla>>
  <2>1. /\ cpu \in [fase : {"libre", "calcula", "bloqueante", "devuelto"},
                    pid : Pids \cup {Nulo}, motivo : Motivos \cup {Nulo}]
        /\ interrupciones \in Seq(Pids)
    BY DEF IInv, TypeOK, TipoCpu
  <2>2. CASE CpuBloqueante
    BY <2>1, <2>2 DEF CpuBloqueante
  <2>3. CASE CpuSigue
    BY <2>1, <2>3 DEF CpuSigue
  <2>4. CASE CpuDevuelve
    <3>1. PICK m \in MotivosDe(cpu.fase) :
            cpu' = [cpu EXCEPT !.fase = "devuelto", !.motivo = m]
      BY <2>4 DEF CpuDevuelve
    <3>2. m \in Motivos /\ cpu.fase # "libre"
      BY <3>1, <2>1, PedidosAssumption DEF MotivosDe, Motivos, TiposDePedido
    <3> QED BY <2>1, <2>4, <3>1, <3>2 DEF CpuDevuelve
  <2>5. CASE CpuInterrumpida
    <3>1. /\ interrupciones # <<>> /\ interrupciones' = Tail(interrupciones)
          /\ \/ cpu' = cpu
             \/ /\ cpu.fase = "calcula"
                /\ cpu' = [cpu EXCEPT !.fase = "devuelto", !.motivo = "FIN_DE_QUANTUM"]
      <4>1. CASE cpu.fase = "calcula" /\ cpu.pid = Head(interrupciones)
        BY <2>5, <4>1 DEF CpuInterrumpida
      <4>2. CASE ~(cpu.fase = "calcula" /\ cpu.pid = Head(interrupciones))
        BY <2>5, <4>2 DEF CpuInterrumpida
      <4> QED BY <4>1, <4>2
    <3>2. interrupciones' \in Seq(Pids)
      BY <2>1, <3>1, HeadTailProperties
    <3>3. "FIN_DE_QUANTUM" \in Motivos
      BY DEF Motivos
    <3> QED BY <2>1, <2>5, <3>1, <3>2, <3>3 DEF CpuInterrumpida
  <2> QED BY <2>2, <2>3, <2>4, <2>5 DEF Cpu
<1>2. TypeOK'
  BY <1>1 DEF IInv, TypeOK, TipoProcesos, TipoSemaforos, TipoHilos, locales, TipoCpu, TipoInterfaces,
              colas, pausas, dispositivos
<1> QED BY <1>1, <1>2, Marco DEF IInv, SoloVRR, EnTransicion, SinAvisar, colas

\* INICIAR_PROCESO.
LEMMA PasoIniciarProceso == ASSUME IInv, IniciarProceso PROVE IInv'
<1>1. PICK p \in Pids :
        /\ estado' = [estado EXCEPT ![p] = "NEW"] /\ lugar' = [lugar EXCEPT ![p] = "NEW"]
        /\ Agregar(p, "New")
        /\ procesos_globales' = procesos_globales \cup {p}
        /\ memoria' = memoria \cup {p}
        /\ sem_post({"procesos_en_new"})
        /\ UNCHANGED <<clock, pcb_en_ejecucion, pausas, pc, transicion, locales,
                       cpu, interrupciones, dispositivos, falla>>
  BY DEF IniciarProceso, Anotar, Ubicar
<1>2. /\ TipoColas' /\ list_size("New")' = list_size("New") + 1
      /\ \A d \in Colas \ {"New"} : cola'[d] = cola[d] /\ list_size(d)' = list_size(d)
  BY <1>1, ColaAgrega DEF IInv, TypeOK, TipoProcesos, TipoColas, Colas
<1>3. /\ sem' \in [Semaforos -> Nat] /\ sem'["procesos_en_new"] = sem["procesos_en_new"] + 1
      /\ \A r \in Semaforos \ {"procesos_en_new"} : sem'[r] = sem[r]
  BY <1>1, SemSube DEF IInv, Semaforos
<1>4. TypeOK'
  BY <1>1, <1>2, <1>3 DEF IInv, TypeOK, TipoProcesos, TipoSemaforos, TipoHilos, locales, TipoCpu,
                          TipoInterfaces, pausas, dispositivos, TipoColas, Estados
<1>5. SoloVRR'
  BY <1>1, <1>2 DEF IInv, SoloVRR, Colas
<1>6. /\ \A h \in Hilos : pc'[h] = pc[h] /\ (EnTransicion(h)' <=> EnTransicion(h))
      /\ SinAvisar' = SinAvisar
  BY <1>1 DEF EnTransicion, SinAvisar
<1>7. SemaforosFieles'
  BY <1>2, <1>3, <1>6, Numeros, SonHilos DEF IInv, SemaforosFieles, Uno, Colas, Semaforos
<1>8. CpuExclusiva' /\ GradoSiBusca' /\ UnSoloQuantum'
  BY <1>1, <1>2, <1>3, <1>6, SonHilos DEF IInv, CpuExclusiva, GradoSiBusca, GradoConservado, UnSoloQuantum,
                                          Uno, Colas, Semaforos
<1> QED BY <1>4, <1>5, <1>7, <1>8 DEF IInv

(***************************************************************************)
(* Steps that only wait on a semaphore.                                    *)
(***************************************************************************)
\* Everything such a step does, whatever the thread and the semaphore.
LEMMA Espera ==
  ASSUME IInv, NEW h \in Hilos, NEW s \in Semaforos, NEW u, NEW v \in PuntosDe(h),
         sem_wait(s), Ir(h, u, v), u # "anota", v # "anota",
         UNCHANGED <<colas, pausas, transicion, locales, cpu, interrupciones,
                     dispositivos, falla>>
  PROVE  /\ TypeOK' /\ SoloVRR'
         /\ sem'[s] = sem[s] - 1 /\ \A r \in Semaforos \ {s} : sem'[r] = sem[r]
         /\ pc[h] = u /\ pc'[h] = v
         /\ EnTransicion(h) <=> u \in EnPausa
         /\ EnTransicion(h)' <=> v \in EnPausa
         /\ \A g \in Hilos \ {h} : pc'[g] = pc[g] /\ (EnTransicion(g)' <=> EnTransicion(g))
         /\ SinAvisar' = SinAvisar
         /\ pcb_en_ejecucion' = pcb_en_ejecucion /\ cpu' = cpu
         /\ cola' = cola /\ \A c \in Colas : list_size(c)' = list_size(c)
<1>1. /\ sem' \in [Semaforos -> Nat]
      /\ sem'[s] = sem[s] - 1 /\ \A r \in Semaforos \ {s} : sem'[r] = sem[r]
  BY SemBaja DEF IInv
<1>2. pc[h] = u /\ pc' = [pc EXCEPT ![h] = v]
  BY DEF Ir
<1>3. /\ pc'[h] = v /\ (EnTransicion(h)' <=> v \in EnPausa)
      /\ \A g \in Hilos \ {h} : pc'[g] = pc[g] /\ (EnTransicion(g)' <=> EnTransicion(g))
      /\ pc' \in [Hilos -> Puntos] /\ \A g \in Hilos : pc'[g] \in PuntosDe(g)
      /\ SinAvisar' = SinAvisar
  BY <1>2, PcMueve DEF IInv
<1>4. EnTransicion(h) <=> u \in EnPausa
  BY <1>2 DEF EnTransicion
<1>5. TypeOK' /\ SoloVRR'
  BY <1>1, <1>3, SMTT(30) DEF IInv, TypeOK, TipoProcesos, TipoSemaforos, TipoHilos, locales, TipoCpu,
                    TipoInterfaces, SoloVRR, colas, pausas, dispositivos
<1> QED BY <1>1, <1>2, <1>3, <1>4, <1>5 DEF colas, list_size

\* The long-term scheduler takes a token of procesos_en_new: one process of
\* New is now its own.
LEMMA PasoLargoEsperaNew == ASSUME IInv, LargoEsperaNew PROVE IInv'
<1>1. "grado" \in PuntosDe("largo") /\ "largo" \in Hilos /\ "procesos_en_new" \in Semaforos
  BY HilosDistintos, SonHilos DEF Semaforos
<1>2. /\ TypeOK' /\ SoloVRR'
      /\ sem'["procesos_en_new"] = sem["procesos_en_new"] - 1
      /\ \A r \in Semaforos \ {"procesos_en_new"} : sem'[r] = sem[r]
      /\ pc["largo"] = "inicio" /\ pc'["largo"] = "grado"
      /\ ~EnTransicion("largo") /\ ~EnTransicion("largo")'
      /\ \A g \in Hilos \ {"largo"} : pc'[g] = pc[g] /\ (EnTransicion(g)' <=> EnTransicion(g))
      /\ SinAvisar' = SinAvisar
      /\ pcb_en_ejecucion' = pcb_en_ejecucion /\ cpu' = cpu
      /\ \A c \in Colas : list_size(c)' = list_size(c)
  BY <1>1, Espera DEF LargoEsperaNew, EnPausa
<1>3. SemaforosFieles'
  BY <1>2, Numeros, SonHilos DEF IInv, SemaforosFieles, Colas, Semaforos, Uno
<1>4. CpuExclusiva'
  BY <1>2, Numeros, SonHilos DEF IInv, CpuExclusiva, Semaforos, Uno
<1>5. GradoSiBusca'
  BY <1>2, Numeros, SonHilos DEF IInv, GradoSiBusca, GradoConservado, Colas, Semaforos, Uno
<1>6. UnSoloQuantum'
  BY <1>2, Numeros, SonHilos DEF IInv, UnSoloQuantum, Semaforos, Uno
<1> QED BY <1>2, <1>3, <1>4, <1>5, <1>6 DEF IInv

\* It takes a place of the degree, which is still counted while it admits.
LEMMA PasoLargoEsperaGrado == ASSUME IInv, LargoEsperaGrado PROVE IInv'
<1>1. "chequeo" \in PuntosDe("largo") /\ "largo" \in Hilos /\ "grado_de_multiprogramacion" \in Semaforos
  BY HilosDistintos, SonHilos DEF Semaforos
<1>2. /\ TypeOK' /\ SoloVRR'
      /\ sem'["grado_de_multiprogramacion"] = sem["grado_de_multiprogramacion"] - 1
      /\ \A r \in Semaforos \ {"grado_de_multiprogramacion"} : sem'[r] = sem[r]
      /\ pc["largo"] = "grado" /\ pc'["largo"] = "chequeo"
      /\ ~EnTransicion("largo") /\ EnTransicion("largo")'
      /\ \A g \in Hilos \ {"largo"} : pc'[g] = pc[g] /\ (EnTransicion(g)' <=> EnTransicion(g))
      /\ SinAvisar' = SinAvisar
      /\ pcb_en_ejecucion' = pcb_en_ejecucion /\ cpu' = cpu
      /\ \A c \in Colas : list_size(c)' = list_size(c)
  BY <1>1, Espera DEF LargoEsperaGrado, EnPausa
<1>3. SemaforosFieles'
  BY <1>2, Numeros, SonHilos DEF IInv, SemaforosFieles, Colas, Semaforos, Uno
<1>4. CpuExclusiva'
  BY <1>2, Numeros, SonHilos DEF IInv, CpuExclusiva, Semaforos, Uno
<1>5. GradoSiBusca'
  BY <1>2, Numeros, SonHilos DEF IInv, GradoSiBusca, GradoConservado, Colas, Semaforos, Uno
<1>6. UnSoloQuantum'
  BY <1>2, Numeros, SonHilos DEF IInv, UnSoloQuantum, Semaforos, Uno
<1> QED BY <1>2, <1>3, <1>4, <1>5, <1>6 DEF IInv

\* The short-term scheduler takes the processor: cpu_libre passes to it.
LEMMA PasoCortoEsperaCpu == ASSUME IInv, CortoEsperaCpu PROVE IInv'
<1>1. "ready" \in PuntosDe("corto") /\ "corto" \in Hilos /\ "cpu_libre" \in Semaforos
  BY HilosDistintos, SonHilos DEF Semaforos
<1>2. /\ TypeOK' /\ SoloVRR'
      /\ sem'["cpu_libre"] = sem["cpu_libre"] - 1
      /\ \A r \in Semaforos \ {"cpu_libre"} : sem'[r] = sem[r]
      /\ pc["corto"] = "inicio" /\ pc'["corto"] = "ready"
      /\ ~EnTransicion("corto") /\ ~EnTransicion("corto")'
      /\ \A g \in Hilos \ {"corto"} : pc'[g] = pc[g] /\ (EnTransicion(g)' <=> EnTransicion(g))
      /\ SinAvisar' = SinAvisar
      /\ pcb_en_ejecucion' = pcb_en_ejecucion /\ cpu' = cpu
      /\ \A c \in Colas : list_size(c)' = list_size(c)
  BY <1>1, Espera DEF CortoEsperaCpu, EnPausa
<1>3. SemaforosFieles'
  BY <1>2, Numeros, SonHilos DEF IInv, SemaforosFieles, Colas, Semaforos, Uno
<1>4. CpuExclusiva'
  BY <1>2, Numeros, SonHilos DEF IInv, CpuExclusiva, Semaforos, Uno
<1>5. GradoSiBusca'
  BY <1>2, Numeros, SonHilos DEF IInv, GradoSiBusca, GradoConservado, Colas, Semaforos, Uno
<1>6. UnSoloQuantum'
  BY <1>2, Numeros, SonHilos DEF IInv, UnSoloQuantum, Semaforos, Uno
<1> QED BY <1>2, <1>3, <1>4, <1>5, <1>6 DEF IInv

\* It takes a token of procesos_en_ready: one process of the Ready queues is
\* now its own.
LEMMA PasoCortoEsperaReady == ASSUME IInv, CortoEsperaReady PROVE IInv'
<1>1. "chequeo" \in PuntosDe("corto") /\ "corto" \in Hilos /\ "procesos_en_ready" \in Semaforos
  BY HilosDistintos, SonHilos DEF Semaforos
<1>2. /\ TypeOK' /\ SoloVRR'
      /\ sem'["procesos_en_ready"] = sem["procesos_en_ready"] - 1
      /\ \A r \in Semaforos \ {"procesos_en_ready"} : sem'[r] = sem[r]
      /\ pc["corto"] = "ready" /\ pc'["corto"] = "chequeo"
      /\ ~EnTransicion("corto") /\ EnTransicion("corto")'
      /\ \A g \in Hilos \ {"corto"} : pc'[g] = pc[g] /\ (EnTransicion(g)' <=> EnTransicion(g))
      /\ SinAvisar' = SinAvisar
      /\ pcb_en_ejecucion' = pcb_en_ejecucion /\ cpu' = cpu
      /\ \A c \in Colas : list_size(c)' = list_size(c)
  BY <1>1, Espera DEF CortoEsperaReady, EnPausa
<1>3. SemaforosFieles'
  BY <1>2, Numeros, SonHilos DEF IInv, SemaforosFieles, Colas, Semaforos, Uno
<1>4. CpuExclusiva'
  BY <1>2, Numeros, SonHilos DEF IInv, CpuExclusiva, Semaforos, Uno
<1>5. GradoSiBusca'
  BY <1>2, Numeros, SonHilos DEF IInv, GradoSiBusca, GradoConservado, Colas, Semaforos, Uno
<1>6. UnSoloQuantum'
  BY <1>2, Numeros, SonHilos DEF IInv, UnSoloQuantum, Semaforos, Uno
<1> QED BY <1>2, <1>3, <1>4, <1>5, <1>6 DEF IInv

\* It takes sem_reloj_destruido: the last quantum cycle is over.
LEMMA PasoCortoEsperaReloj == ASSUME IInv, CortoEsperaReloj PROVE IInv'
<1>1. "enviar" \in PuntosDe("corto") /\ "corto" \in Hilos /\ "sem_reloj_destruido" \in Semaforos
  BY HilosDistintos, SonHilos DEF Semaforos
<1>2. /\ TypeOK' /\ SoloVRR'
      /\ sem'["sem_reloj_destruido"] = sem["sem_reloj_destruido"] - 1
      /\ \A r \in Semaforos \ {"sem_reloj_destruido"} : sem'[r] = sem[r]
      /\ pc["corto"] = "reloj" /\ pc'["corto"] = "enviar"
      /\ ~EnTransicion("corto") /\ ~EnTransicion("corto")'
      /\ \A g \in Hilos \ {"corto"} : pc'[g] = pc[g] /\ (EnTransicion(g)' <=> EnTransicion(g))
      /\ SinAvisar' = SinAvisar
      /\ pcb_en_ejecucion' = pcb_en_ejecucion /\ cpu' = cpu
      /\ \A c \in Colas : list_size(c)' = list_size(c)
  BY <1>1, Espera DEF CortoEsperaReloj, EnPausa
<1>3. SemaforosFieles'
  BY <1>2, Numeros, SonHilos DEF IInv, SemaforosFieles, Colas, Semaforos, Uno
<1>4. CpuExclusiva'
  BY <1>2, Numeros, SonHilos DEF IInv, CpuExclusiva, Semaforos, Uno
<1>5. GradoSiBusca'
  BY <1>2, Numeros, SonHilos DEF IInv, GradoSiBusca, GradoConservado, Colas, Semaforos, Uno
<1>6. UnSoloQuantum'
  <2>1. /\ Uno(pc["corto"] = "enviar") = 0 /\ Uno(pc["corto"] = "enviar")' = 1
        /\ Uno(pc["reloj"] # "inicio")' = Uno(pc["reloj"] # "inicio")
        /\ Uno(pc["reloj"] # "inicio") \in Nat
        /\ sem'["sem_iniciar_quantum"] = sem["sem_iniciar_quantum"]
    BY <1>2, SonHilos DEF Uno, Semaforos
  <2> QED BY <2>1, <1>2, Numeros DEF IInv, UnSoloQuantum
<1> QED BY <1>2, <1>3, <1>4, <1>5, <1>6 DEF IInv

\* The thread of the contexts takes procesos_en_exec for the process that
\* came back.
LEMMA PasoCdeEsperaExec == ASSUME IInv, CdeEsperaExec PROVE IInv'
<1>1. "chequeo" \in PuntosDe("cde") /\ "cde" \in Hilos /\ "procesos_en_exec" \in Semaforos
  BY HilosDistintos, SonHilos DEF Semaforos
<1>2. /\ TypeOK' /\ SoloVRR'
      /\ sem'["procesos_en_exec"] = sem["procesos_en_exec"] - 1
      /\ \A r \in Semaforos \ {"procesos_en_exec"} : sem'[r] = sem[r]
      /\ pc["cde"] = "exec" /\ pc'["cde"] = "chequeo"
      /\ ~EnTransicion("cde") /\ EnTransicion("cde")'
      /\ \A g \in Hilos \ {"cde"} : pc'[g] = pc[g] /\ (EnTransicion(g)' <=> EnTransicion(g))
      /\ SinAvisar' = SinAvisar
      /\ pcb_en_ejecucion' = pcb_en_ejecucion /\ cpu' = cpu
      /\ \A c \in Colas : list_size(c)' = list_size(c)
  BY <1>1, Espera DEF CdeEsperaExec, EnPausa
<1>3. SemaforosFieles'
  BY <1>2, Numeros, SonHilos DEF IInv, SemaforosFieles, Colas, Semaforos, Uno
<1>4. CpuExclusiva'
  BY <1>2, Numeros, SonHilos DEF IInv, CpuExclusiva, Semaforos, Uno
<1>5. GradoSiBusca'
  BY <1>2, Numeros, SonHilos DEF IInv, GradoSiBusca, GradoConservado, Colas, Semaforos, Uno
<1>6. UnSoloQuantum'
  BY <1>2, Numeros, SonHilos DEF IInv, UnSoloQuantum, Semaforos, Uno
<1> QED BY <1>2, <1>3, <1>4, <1>5, <1>6 DEF IInv

(***************************************************************************)
(* Long-term scheduler: a process is admitted.                             *)
(***************************************************************************)

\* enviar_de_new_a_ready: the place taken passes to the process in Ready,
\* which has not been posted yet.
LEMMA PasoNewAReady == ASSUME IInv, NewAReady PROVE IInv'
<1> DEFINE p == Head(cola["New"])
<1>1. /\ pausa' \in [Transiciones -> Nat] /\ EnTransicion("largo")
      /\ pc' = [pc EXCEPT !["largo"] = "anota"]
      /\ UNCHANGED <<planificacion_detenida, ordenes>>
  BY PausaBaja, SonHilos DEF NewAReady, IInv
<1>2. /\ Mover(p, "New", "Ready")
      /\ lugar' = [lugar EXCEPT ![p] = "READY"]
      /\ pcb_a_ready' = p
      /\ UNCHANGED <<estado, clock, procesos_globales, memoria, pcb_en_ejecucion, sem, transicion,
                     pid_pre_clock, cpu, interrupciones, dispositivos, falla>>
  BY DEF NewAReady, Ubicar
<1>3. /\ "anota" \in PuntosDe("largo") /\ pc["largo"] # "grado"
      /\ pc["largo"] # "anota" /\ "anota" \notin EnPausa
  BY <1>1, HilosDistintos DEF EnTransicion, EnPausa
<1>4. /\ pc'["largo"] = "anota" /\ ~EnTransicion("largo")'
      /\ \A g \in Hilos \ {"largo"} : pc'[g] = pc[g] /\ (EnTransicion(g)' <=> EnTransicion(g))
      /\ pc' \in [Hilos -> Puntos] /\ \A g \in Hilos : pc'[g] \in PuntosDe(g)
  BY <1>1, <1>3, PcMueve, SonHilos DEF IInv
<1>5. Cardinality(SinAvisar)' = Cardinality(SinAvisar) + 1
  BY <1>1, <1>3, Avisos DEF IInv
<1>6. list_size("New") = sem["procesos_en_new"] + 1
  BY <1>1 DEF IInv, SemaforosFieles, Uno
<1>7. "New" \in Colas /\ "Ready" \in Colas /\ TipoColas /\ list_size("New") > 0
  BY <1>6, Numeros DEF Colas, IInv
<1>8. /\ TipoColas' /\ p \in Pids
      /\ list_size("New")' = list_size("New") - 1
      /\ list_size("Ready")' = list_size("Ready") + 1
      /\ \A e \in Colas \ {"New", "Ready"} : list_size(e)' = list_size(e) /\ cola'[e] = cola[e]
  BY <1>2, <1>7, ColaMueve
<1>9. TypeOK' /\ SoloVRR'
  BY <1>1, <1>2, <1>4, <1>8, SMTT(30)
     DEF IInv, TypeOK, TipoProcesos, TipoSemaforos, TipoHilos, TipoCpu, TipoInterfaces,
         SoloVRR, dispositivos, TipoColas, Colas, Estados
<1>10. /\ list_size("ReadyPlus")' = list_size("ReadyPlus")
       /\ list_size("Bloqueados")' = list_size("Bloqueados")
       /\ list_size("Finalizados")' = list_size("Finalizados")
  BY <1>8 DEF Colas
<1>11. SemaforosFieles'
  <2>1. Uno(EnTransicion("corto"))' = Uno(EnTransicion("corto")) /\ Uno(EnTransicion("corto")) \in Nat
    BY <1>4, SonHilos DEF Uno
  <2>2. (list_size("Ready") + list_size("ReadyPlus")
           = sem["procesos_en_ready"] + Uno(EnTransicion("corto")) + Cardinality(SinAvisar))'
    BY <2>1, <1>2, <1>5, <1>8, <1>10, Numeros DEF IInv, SemaforosFieles
  <2>3. (list_size("New") = sem["procesos_en_new"]
                              + Uno(pc["largo"] = "grado" \/ EnTransicion("largo")))'
    BY <1>2, <1>4, <1>6, <1>8, Numeros DEF IInv, Uno
  <2> QED BY <2>2, <2>3, <1>2, <1>10 DEF IInv, SemaforosFieles
<1>12. CpuExclusiva'
  BY <1>2, <1>4, SonHilos DEF IInv, CpuExclusiva, Semaforos, Uno
<1>13. GradoSiBusca'
  <2>1. /\ Uno(pcb_en_ejecucion # Nulo /\ pc["cde"] # "anota")'
             = Uno(pcb_en_ejecucion # Nulo /\ pc["cde"] # "anota")
        /\ Uno(pcb_en_ejecucion # Nulo /\ pc["cde"] # "anota") \in Nat
        /\ Uno(EnTransicion("largo")) = 1 /\ Uno(EnTransicion("largo"))' = 0
    BY <1>1, <1>2, <1>4, SonHilos DEF Uno
  <2> QED BY <2>1, <1>2, <1>8, <1>10, Numeros DEF IInv, GradoSiBusca, GradoConservado
<1>14. UnSoloQuantum'
  BY <1>2, <1>4, SonHilos DEF IInv, UnSoloQuantum, Semaforos, Uno
<1> QED BY <1>9, <1>11, <1>12, <1>13, <1>14 DEF IInv

\* What a thread does once its PCB is in Ready: the estado and the post.
LEMMA Aviso ==
  ASSUME IInv, NEW h \in {"largo"} \cup Interfaces, NEW v \in PuntosDe(h) \ EnPausa,
         Ir(h, "anota", v), v # "anota", v # "grado",
         estado' \in [Pids -> Estados], pcb_a_ready' \in Pids \cup {Nulo},
         sem_post({"procesos_en_ready"}),
         UNCHANGED <<lugar, clock, cola, procesos_globales, memoria, pcb_en_ejecucion, pausas,
                     transicion, pid_pre_clock, cpu, interrupciones, dispositivos, falla>>
  PROVE  IInv'
<1>1. /\ pc[h] = "anota" /\ pc' = [pc EXCEPT ![h] = v] /\ h \in Hilos
      /\ h \notin {"corto", "cde", "reloj"} /\ ~EnTransicion(h)
  BY SonHilos DEF Ir, EnTransicion, EnPausa
<1>2. /\ pc'[h] = v /\ ~EnTransicion(h)'
      /\ \A g \in Hilos \ {h} : pc'[g] = pc[g] /\ (EnTransicion(g)' <=> EnTransicion(g))
      /\ pc' \in [Hilos -> Puntos] /\ \A g \in Hilos : pc'[g] \in PuntosDe(g)
  BY <1>1, PcMueve DEF IInv
<1>3. Cardinality(SinAvisar)' = Cardinality(SinAvisar) - 1
  BY <1>1, Avisos DEF IInv
<1>4. /\ sem' \in [Semaforos -> Nat] /\ sem["procesos_en_ready"] \in Nat
      /\ sem'["procesos_en_ready"] = sem["procesos_en_ready"] + 1
      /\ \A r \in Semaforos \ {"procesos_en_ready"} : sem'[r] = sem[r]
  BY SemSube DEF Semaforos, IInv, TypeOK, TipoSemaforos
<1>5. TypeOK' /\ SoloVRR'
  BY <1>2, <1>4, SMTT(30)
     DEF IInv, TypeOK, TipoProcesos, TipoSemaforos, TipoHilos, TipoCpu, TipoInterfaces,
         SoloVRR, pausas, dispositivos
<1>6. /\ \A c \in Colas : list_size(c)' = list_size(c)
      /\ \A g \in {"largo", "corto", "cde"} : EnTransicion(g)' <=> EnTransicion(g)
      /\ \A g \in {"corto", "cde", "reloj"} : pc'[g] = pc[g]
      /\ pc'["largo"] = "grado" <=> pc["largo"] = "grado"
  BY <1>1, <1>2, SonHilos DEF list_size
<1>7. SemaforosFieles'
  <2>1. Uno(EnTransicion("corto"))' = Uno(EnTransicion("corto")) /\ Uno(EnTransicion("corto")) \in Nat
    BY <1>6 DEF Uno
  <2>2. (list_size("Ready") + list_size("ReadyPlus")
           = sem["procesos_en_ready"] + Uno(EnTransicion("corto")) + Cardinality(SinAvisar))'
    BY <2>1, <1>3, <1>4, <1>6, Numeros DEF IInv, SemaforosFieles, Colas
  <2> QED BY <2>2, <1>4, <1>6 DEF IInv, SemaforosFieles, Semaforos, Colas, Uno
<1>8. CpuExclusiva'
  BY <1>4, <1>6 DEF IInv, CpuExclusiva, Semaforos, Uno
<1>9. GradoSiBusca' /\ UnSoloQuantum'
  BY <1>4, <1>6 DEF IInv, GradoSiBusca, GradoConservado, UnSoloQuantum, Semaforos, Colas, Uno
<1> QED BY <1>5, <1>7, <1>8, <1>9 DEF IInv

\* The long-term scheduler writes READY and posts.
LEMMA PasoNewAReadyAnota == ASSUME IInv, NewAReadyAnota PROVE IInv'
<1>1. estado' \in [Pids -> Estados] /\ pcb_a_ready' \in Pids \cup {Nulo}
  BY DEF NewAReadyAnota, Anotar, IInv, TypeOK, TipoProcesos, Estados
<1>2. "inicio" \in PuntosDe("largo") \ EnPausa
  BY HilosDistintos DEF EnPausa
<1> QED BY <1>1, <1>2, Aviso DEF NewAReadyAnota

(***************************************************************************)
(* Short-term scheduler: a process gets the CPU.                           *)
(***************************************************************************)
\* The queue retirar_pcb_de_ready_segun_algoritmo chooses is not empty.
LEMMA HayListo ==
  ASSUME IInv, EnTransicion("corto")
  PROVE  ColaElegida \in {"Ready", "ReadyPlus"} /\ list_size(ColaElegida) > 0
<1>1. list_size("Ready") + list_size("ReadyPlus")
        = sem["procesos_en_ready"] + 1 + Cardinality(SinAvisar)
  BY DEF IInv, SemaforosFieles, Uno
<1>2. list_size("Ready") + list_size("ReadyPlus") > 0
  BY <1>1, Numeros, AvisosFinitos DEF IInv
<1>3. CASE Algoritmo = "VRR" /\ cola["ReadyPlus"] # <<>>
  <2>1. list_size("ReadyPlus") > 0
    BY <1>3 DEF list_size, IInv, TypeOK, TipoProcesos, Colas
  <2> QED BY <1>3, <2>1 DEF ColaElegida
<1>4. CASE ~(Algoritmo = "VRR" /\ cola["ReadyPlus"] # <<>>)
  <2>1. cola["ReadyPlus"] = <<>>
    BY <1>4 DEF IInv, SoloVRR
  <2>2. list_size("ReadyPlus") = 0
    BY <2>1 DEF list_size
  <2>3. list_size("Ready") > 0
    BY <2>2, <1>2, Numeros DEF IInv
  <2>4. ColaElegida = "Ready"
    BY <1>4 DEF ColaElegida
  <2> QED BY <2>3, <2>4
<1> QED BY <1>3, <1>4

\* enviar_de_ready_a_exec: the processor passes to the process chosen.
LEMMA PasoReadyAExec == ASSUME IInv, ReadyAExec PROVE IInv'
<1> DEFINE v == IF ConReloj THEN "reloj" ELSE "enviar"
<1>1. /\ pausa' \in [Transiciones -> Nat] /\ EnTransicion("corto")
      /\ pc' = [pc EXCEPT !["corto"] = v]
      /\ UNCHANGED <<planificacion_detenida, ordenes>>
  BY PausaBaja, SonHilos DEF ReadyAExec, IInv
<1>2. PICK q \in {"Ready", "ReadyPlus"} : q = ColaElegida
  BY <1>1, HayListo
<1>3. q \in Colas /\ list_size(q) > 0 /\ TipoColas
  BY <1>1, <1>2, HayListo, Numeros DEF IInv, Colas
<1>4. /\ cola' = [cola EXCEPT ![q] = Tail(cola[q])]
      /\ TipoColas' /\ Head(cola[q]) \in Pids
      /\ list_size(q)' = list_size(q) - 1
      /\ \A d \in Colas \ {q} : list_size(d)' = list_size(d) /\ cola'[d] = cola[d]
  <2>1. cola' = [cola EXCEPT ![q] = Tail(cola[q])]
    BY <1>2 DEF ReadyAExec
  <2> QED BY <2>1, <1>3, ColaSaca
<1>5. PICK p \in Pids : p = Head(cola[q])
  BY <1>4
<1>6. /\ pcb_en_ejecucion' = p
       /\ estado' = [estado EXCEPT ![p] = "EXEC"]
       /\ lugar' = [lugar EXCEPT ![p] = "EXEC"]
       /\ sem_post({"procesos_en_exec"})
       /\ UNCHANGED <<clock, procesos_globales, memoria, transicion, locales, cpu,
                      interrupciones, dispositivos, falla>>
  BY <1>2, <1>5 DEF ReadyAExec, Anotar, Ubicar
<1>7. p # Nulo
  BY NuloAssumption
<1>8. v \in {"reloj", "enviar"} /\ v \in PuntosDe("corto") /\ v \notin EnPausa
  BY HilosDistintos DEF EnPausa
<1> HIDE DEF v
<1>9. /\ pc'["corto"] = v /\ ~EnTransicion("corto")'
      /\ \A g \in Hilos \ {"corto"} : pc'[g] = pc[g] /\ (EnTransicion(g)' <=> EnTransicion(g))
      /\ pc' \in [Hilos -> Puntos] /\ \A g \in Hilos : pc'[g] \in PuntosDe(g)
      /\ SinAvisar' = SinAvisar
  BY <1>1, <1>8, PcMueve, SonHilos DEF IInv
<1>10. /\ sem' \in [Semaforos -> Nat] /\ sem'["procesos_en_exec"] = sem["procesos_en_exec"] + 1
      /\ \A r \in Semaforos \ {"procesos_en_exec"} : sem'[r] = sem[r]
  BY <1>6, SemSube DEF Semaforos, IInv
<1>11. TypeOK'
  BY <1>1, <1>4, <1>6, <1>9, <1>10
     DEF IInv, TypeOK, TipoProcesos, TipoSemaforos, TipoHilos, locales, TipoCpu, TipoInterfaces,
         dispositivos, TipoColas, Estados
<1>12. SoloVRR'
  <2>1. CASE q = "ReadyPlus"
    BY <2>1, <1>2 DEF ColaElegida, SoloVRR
  <2>2. CASE q # "ReadyPlus"
    BY <2>2, <1>4, <1>6 DEF IInv, SoloVRR, Colas
  <2> QED BY <2>1, <2>2
<1>13. /\ list_size("Ready")' + list_size("ReadyPlus")'
            = list_size("Ready") + list_size("ReadyPlus") - 1
       /\ list_size("Ready")' \in Nat /\ list_size("ReadyPlus")' \in Nat
       /\ list_size("New")' = list_size("New")
       /\ list_size("Bloqueados")' = list_size("Bloqueados")
       /\ list_size("Finalizados")' = list_size("Finalizados")
  <2>1. CASE q = "Ready"
    <3>1. /\ list_size("Ready")' = list_size("Ready") - 1
          /\ list_size("ReadyPlus")' = list_size("ReadyPlus")
          /\ list_size("Ready") > 0
      BY <2>1, <1>3, <1>4 DEF Colas
    <3>2. /\ list_size("New")' = list_size("New")
          /\ list_size("Bloqueados")' = list_size("Bloqueados")
          /\ list_size("Finalizados")' = list_size("Finalizados")
      BY <2>1, <1>4 DEF Colas
    <3> QED BY <3>1, <3>2, Numeros DEF IInv
  <2>2. CASE q = "ReadyPlus"
    <3>1. /\ list_size("ReadyPlus")' = list_size("ReadyPlus") - 1
          /\ list_size("Ready")' = list_size("Ready")
          /\ list_size("ReadyPlus") > 0
      BY <2>2, <1>3, <1>4 DEF Colas
    <3>2. /\ list_size("New")' = list_size("New")
          /\ list_size("Bloqueados")' = list_size("Bloqueados")
          /\ list_size("Finalizados")' = list_size("Finalizados")
      BY <2>2, <1>4 DEF Colas
    <3> QED BY <3>1, <3>2, Numeros DEF IInv
  <2> QED BY <1>3, <2>1, <2>2
<1>14. SemaforosFieles'
  <2>1. /\ Uno(EnTransicion("corto")) = 1 /\ Uno(EnTransicion("corto"))' = 0
        /\ sem'["procesos_en_ready"] = sem["procesos_en_ready"]
    BY <1>1, <1>9, <1>10 DEF Uno, Semaforos
  <2>2. (list_size("Ready") + list_size("ReadyPlus")
           = sem["procesos_en_ready"] + Uno(EnTransicion("corto")) + Cardinality(SinAvisar))'
    BY <2>1, <1>9, <1>13, Numeros DEF IInv, SemaforosFieles
  <2> QED BY <2>2, <1>9, <1>10, <1>13, SonHilos DEF IInv, SemaforosFieles, Semaforos, Uno
<1>15. /\ sem["cpu_libre"] = 0 /\ pcb_en_ejecucion = Nulo
       /\ sem["procesos_en_exec"] = 0 /\ cpu.fase = "libre"
       /\ pc["cde"] = "inicio" /\ ~EnTransicion("cde")
       /\ pc["corto"] \notin {"reloj", "enviar"}
  BY <1>1, Numeros DEF IInv, CpuExclusiva, Uno, EnTransicion, EnPausa
<1>16. CpuExclusiva'
  BY <1>6, <1>7, <1>8, <1>9, <1>10, <1>15, SonHilos DEF IInv, CpuExclusiva, Semaforos, Uno
<1>17. GradoSiBusca'
  <2>1. /\ Uno(pcb_en_ejecucion # Nulo /\ pc["cde"] # "anota") = 0
        /\ Uno(pcb_en_ejecucion # Nulo /\ pc["cde"] # "anota")' = 1
        /\ Uno(EnTransicion("largo"))' = Uno(EnTransicion("largo"))
        /\ Uno(EnTransicion("largo")) \in Nat
        /\ sem'["grado_de_multiprogramacion"] = sem["grado_de_multiprogramacion"]
    BY <1>6, <1>7, <1>9, <1>10, <1>15, SonHilos DEF Uno, Semaforos
  <2> QED BY <2>1, <1>13, Numeros DEF IInv, GradoSiBusca, GradoConservado
<1>18. UnSoloQuantum'
  BY <1>8, <1>9, <1>10, <1>15, SonHilos DEF IInv, UnSoloQuantum, Semaforos, Uno, v
<1> QED BY <1>11, <1>12, <1>14, <1>16, <1>17, <1>18 DEF IInv

\* The dispatch: the CPU gets the context, the clock its order to begin.
LEMMA PasoEnviarCdeACpu == ASSUME IInv, EnviarCdeACpu PROVE IInv'
<1> DEFINE S == {"cpu_debe_retornar"} \cup (IF ConReloj THEN {"sem_iniciar_quantum"} ELSE {})
<1>1. /\ pc["corto"] = "enviar" /\ pc' = [pc EXCEPT !["corto"] = "inicio"]
      /\ cpu' = [fase |-> "calcula", pid |-> pcb_en_ejecucion, motivo |-> Nulo]
      /\ sem_post(S)
      /\ UNCHANGED <<colas, pausas, transicion, locales, interrupciones,
                     dispositivos, falla>>
  BY DEF EnviarCdeACpu, Ir
<1>2. "inicio" \in PuntosDe("corto") /\ ~EnTransicion("corto") /\ "inicio" \notin EnPausa
  BY <1>1, HilosDistintos DEF EnTransicion, EnPausa
<1>3. /\ pc'["corto"] = "inicio" /\ ~EnTransicion("corto")'
      /\ \A g \in Hilos \ {"corto"} : pc'[g] = pc[g] /\ (EnTransicion(g)' <=> EnTransicion(g))
      /\ pc' \in [Hilos -> Puntos] /\ \A g \in Hilos : pc'[g] \in PuntosDe(g)
      /\ SinAvisar' = SinAvisar
  BY <1>1, <1>2, PcMueve, SonHilos DEF IInv
<1>4. /\ sem' \in [Semaforos -> Nat]
      /\ \A r \in Semaforos : sem'[r] = IF r \in S THEN sem[r] + 1 ELSE sem[r]
  BY <1>1, SemSube DEF IInv
<1>5. /\ sem'["cpu_debe_retornar"] = sem["cpu_debe_retornar"] + 1
      /\ sem'["sem_iniciar_quantum"] = IF ConReloj THEN sem["sem_iniciar_quantum"] + 1
                                                   ELSE sem["sem_iniciar_quantum"]
      /\ \A r \in Semaforos \ {"cpu_debe_retornar", "sem_iniciar_quantum"} : sem'[r] = sem[r]
  BY <1>4 DEF Semaforos
<1>6. cpu' \in [fase : {"libre", "calcula", "bloqueante", "devuelto"},
                pid : Pids \cup {Nulo}, motivo : Motivos \cup {Nulo}]
  BY <1>1 DEF IInv, TypeOK, TipoProcesos
<1>7. TypeOK' /\ SoloVRR'
  BY <1>1, <1>3, <1>4, <1>6 DEF IInv, TypeOK, TipoProcesos, TipoSemaforos, TipoHilos, locales, TipoCpu,
         TipoInterfaces, SoloVRR, colas, pausas, dispositivos
<1>8. \A c \in Colas : list_size(c)' = list_size(c)
  BY <1>1 DEF colas, list_size
<1>9. pcb_en_ejecucion' = pcb_en_ejecucion
  BY <1>1 DEF colas
<1>10. SemaforosFieles'
  BY <1>1, <1>2, <1>3, <1>5, <1>8, SonHilos DEF IInv, SemaforosFieles, Colas, Semaforos, Uno
<1>11. CpuExclusiva'
  <2>1. /\ cpu.fase = "libre" /\ pcb_en_ejecucion # Nulo /\ pc["cde"] = "inicio"
        /\ sem["cpu_debe_retornar"] = 0
    BY <1>1 DEF IInv, CpuExclusiva, Uno
  <2>2. cpu'.fase = "calcula" /\ cpu'.pid = pcb_en_ejecucion
    BY <1>1
  <2>3. sem'["cpu_debe_retornar"] = 1
    BY <2>1, <1>5
  <2> QED BY <2>1, <2>2, <2>3, <1>1, <1>2, <1>3, <1>5, <1>9, SonHilos
          DEF IInv, CpuExclusiva, Semaforos, Uno
<1>12. GradoSiBusca'
  BY <1>3, <1>5, <1>8, <1>9, SonHilos DEF IInv, GradoSiBusca, GradoConservado, Colas, Semaforos, Uno
<1>13. UnSoloQuantum'
  <2> SUFFICES ASSUME ConReloj
               PROVE  (sem["sem_reloj_destruido"] + sem["sem_iniciar_quantum"]
                         + Uno(pc["corto"] = "enviar") + Uno(pc["reloj"] # "inicio") = 1)'
    BY DEF UnSoloQuantum, ConReloj
  <2>1. /\ Uno(pc["corto"] = "enviar") = 1 /\ Uno(pc["corto"] = "enviar")' = 0
        /\ Uno(pc["reloj"] # "inicio")' = Uno(pc["reloj"] # "inicio")
        /\ Uno(pc["reloj"] # "inicio") \in Nat
        /\ sem'["sem_reloj_destruido"] = sem["sem_reloj_destruido"]
        /\ sem'["sem_iniciar_quantum"] = sem["sem_iniciar_quantum"] + 1
    BY <1>1, <1>3, <1>5, SonHilos DEF Uno, Semaforos
  <2> QED BY <2>1, Numeros DEF IInv, UnSoloQuantum
<1> QED BY <1>7, <1>10, <1>11, <1>12, <1>13 DEF IInv

(***************************************************************************)
(* Quantum clock.                                                          *)
(***************************************************************************)

\* The clock takes sem_iniciar_quantum: the cycle is now its own.
LEMMA PasoRelojInicia == ASSUME IInv, RelojInicia PROVE IInv'
<1>1. /\ pcb_en_ejecucion # Nulo
      /\ sem_wait("sem_iniciar_quantum")
      /\ pc["reloj"] = "inicio" /\ pc' = [pc EXCEPT !["reloj"] = "durmiendo"]
      /\ pid_pre_clock' = pcb_en_ejecucion
      /\ clock' = [clock EXCEPT ![pcb_en_ejecucion] = @ \/ Algoritmo = "VRR"]
      /\ UNCHANGED <<estado, lugar, cola, procesos_globales, memoria, pcb_en_ejecucion, pausas,
                     transicion, pcb_a_ready, cpu, interrupciones, dispositivos, falla>>
  BY DEF RelojInicia, Ir
<1>2. "durmiendo" \in PuntosDe("reloj")
  BY HilosDistintos
<1>3. /\ pc'["reloj"] = "durmiendo"
      /\ \A g \in Hilos \ {"reloj"} : pc'[g] = pc[g] /\ (EnTransicion(g)' <=> EnTransicion(g))
      /\ pc' \in [Hilos -> Puntos] /\ \A g \in Hilos : pc'[g] \in PuntosDe(g)
      /\ SinAvisar' = SinAvisar
  BY <1>1, <1>2, PcMueve, SonHilos DEF IInv
<1>4. /\ sem' \in [Semaforos -> Nat]
      /\ sem'["sem_iniciar_quantum"] = sem["sem_iniciar_quantum"] - 1
      /\ \A r \in Semaforos \ {"sem_iniciar_quantum"} : sem'[r] = sem[r]
  BY <1>1, SemBaja DEF IInv, Semaforos
<1>5. clock' \in [Pids -> BOOLEAN]
  BY <1>1 DEF IInv, TypeOK, TipoProcesos
<1>6. TypeOK' /\ SoloVRR'
  BY <1>1, <1>3, <1>4, <1>5 DEF IInv, TypeOK, TipoProcesos, TipoSemaforos, TipoHilos, TipoCpu,
         TipoInterfaces, SoloVRR, pausas, dispositivos
<1>7. \A c \in Colas : list_size(c)' = list_size(c)
  BY <1>1 DEF list_size
<1>8. SemaforosFieles' /\ CpuExclusiva' /\ GradoSiBusca'
  BY <1>1, <1>3, <1>4, <1>7, SonHilos
     DEF IInv, SemaforosFieles, CpuExclusiva, GradoSiBusca, GradoConservado, Colas, Semaforos, Uno
<1>9. UnSoloQuantum'
  <2>1. /\ Uno(pc["reloj"] # "inicio") = 0 /\ Uno(pc["reloj"] # "inicio")' = 1
        /\ Uno(pc["corto"] = "enviar")' = Uno(pc["corto"] = "enviar")
        /\ Uno(pc["corto"] = "enviar") \in Nat
        /\ sem'["sem_reloj_destruido"] = sem["sem_reloj_destruido"]
    BY <1>1, <1>3, <1>4, SonHilos DEF Uno, Semaforos
  <2> QED BY <2>1, <1>4, Numeros DEF IInv, UnSoloQuantum
<1> QED BY <1>6, <1>8, <1>9 DEF IInv

\* The quantum ends with its process still in EXEC.
LEMMA PasoRelojVence == ASSUME IInv, RelojVence PROVE IInv'
<1>1. /\ pc["reloj"] = "durmiendo" /\ pc' = [pc EXCEPT !["reloj"] = "interrumpir"]
      /\ clock' = [clock EXCEPT ![pcb_en_ejecucion] = FALSE]
      /\ UNCHANGED <<estado, lugar, cola, procesos_globales, memoria, pcb_en_ejecucion, sem, pausas,
                     transicion, locales, cpu, interrupciones, dispositivos, falla>>
  BY DEF RelojVence, Ir
<1>2. "interrumpir" \in PuntosDe("reloj")
  BY HilosDistintos
<1>3. /\ pc'["reloj"] = "interrumpir"
      /\ \A g \in Hilos \ {"reloj"} : pc'[g] = pc[g] /\ (EnTransicion(g)' <=> EnTransicion(g))
      /\ pc' \in [Hilos -> Puntos] /\ \A g \in Hilos : pc'[g] \in PuntosDe(g)
      /\ SinAvisar' = SinAvisar
  BY <1>1, <1>2, PcMueve, SonHilos DEF IInv
<1>4. clock' \in [Pids -> BOOLEAN]
  BY <1>1 DEF IInv, TypeOK, TipoProcesos
<1>5. TypeOK' /\ SoloVRR'
  BY <1>1, <1>3, <1>4 DEF IInv, TypeOK, TipoProcesos, TipoSemaforos, TipoHilos, locales, TipoCpu,
         TipoInterfaces, SoloVRR, pausas, dispositivos
<1> QED BY <1>1, <1>3, <1>5, SonHilos, Marco

\* The two ends of a cycle: both post sem_reloj_destruido.
LEMMA PasoRelojTermina == ASSUME IInv, RelojInterrumpe \/ RelojCaduca PROVE IInv'
<1>1. /\ pc["reloj"] # "inicio" /\ pc' = [pc EXCEPT !["reloj"] = "inicio"]
      /\ sem_post({"sem_reloj_destruido"})
      /\ interrupciones' \in Seq(Pids)
      /\ UNCHANGED <<colas, pausas, transicion, locales, cpu, dispositivos, falla>>
  <2>1. interrupciones \in Seq(Pids) /\ pcb_en_ejecucion \in Pids \cup {Nulo}
    BY DEF IInv, TypeOK, TipoCpu, TipoProcesos
  <2>2. CASE RelojInterrumpe
    BY <2>1, <2>2 DEF RelojInterrumpe, Ir
  <2>3. CASE RelojCaduca
    BY <2>1, <2>3 DEF RelojCaduca, Ir
  <2> QED BY <2>2, <2>3
<1>2. "inicio" \in PuntosDe("reloj")
  BY HilosDistintos
<1>3. /\ pc'["reloj"] = "inicio"
      /\ \A g \in Hilos \ {"reloj"} : pc'[g] = pc[g] /\ (EnTransicion(g)' <=> EnTransicion(g))
      /\ pc' \in [Hilos -> Puntos] /\ \A g \in Hilos : pc'[g] \in PuntosDe(g)
      /\ SinAvisar' = SinAvisar
  BY <1>1, <1>2, PcMueve, SonHilos DEF IInv
<1>4. /\ sem' \in [Semaforos -> Nat]
      /\ sem'["sem_reloj_destruido"] = sem["sem_reloj_destruido"] + 1
      /\ \A r \in Semaforos \ {"sem_reloj_destruido"} : sem'[r] = sem[r]
  BY <1>1, SemSube DEF IInv, Semaforos
<1>5. TypeOK' /\ SoloVRR'
  BY <1>1, <1>3, <1>4 DEF IInv, TypeOK, TipoProcesos, TipoSemaforos, TipoHilos, locales, TipoCpu,
         TipoInterfaces, SoloVRR, colas, pausas, dispositivos
<1>6. \A c \in Colas : list_size(c)' = list_size(c)
  BY <1>1 DEF colas, list_size
<1>7. SemaforosFieles' /\ CpuExclusiva' /\ GradoSiBusca'
  BY <1>1, <1>3, <1>4, <1>6, SonHilos, SMTT(30)
     DEF IInv, SemaforosFieles, CpuExclusiva, GradoSiBusca, GradoConservado, Colas, Semaforos, Uno, colas
<1>8. UnSoloQuantum'
  <2>1. /\ Uno(pc["reloj"] # "inicio") = 1 /\ Uno(pc["reloj"] # "inicio")' = 0
        /\ Uno(pc["corto"] = "enviar")' = Uno(pc["corto"] = "enviar")
        /\ Uno(pc["corto"] = "enviar") \in Nat
        /\ sem'["sem_iniciar_quantum"] = sem["sem_iniciar_quantum"]
    BY <1>1, <1>3, <1>4, SonHilos DEF Uno, Semaforos
  <2> QED BY <2>1, <1>4, Numeros DEF IInv, UnSoloQuantum
<1> QED BY <1>5, <1>7, <1>8 DEF IInv

\* The Kernel dies: nothing else changes.
LEMMA PasoMuere == ASSUME IInv, Muere PROVE IInv'
<1>1. TypeOK' /\ SoloVRR'
  BY DEF Muere, IInv, TypeOK, TipoProcesos, TipoSemaforos, TipoHilos, locales, TipoCpu, TipoInterfaces,
         SoloVRR, colas, pausas, dispositivos
<1> QED BY <1>1, Marco DEF Muere, EnTransicion, SinAvisar, colas

(***************************************************************************)
(* The process comes back from the CPU.                                    *)
(***************************************************************************)
\* recibir_cde_de_cpu, whatever is then decided: the thread "cde" goes on
\* to the transition, or stays where it was after an invalid interface.
LEMMA PasoRecibe ==
  ASSUME IInv, NEW M \in SUBSET Motivos, NEW t \in Transiciones \cup {Nulo},
         NEW v \in {"inicio", "encola", "despacha", "exec"}, RecibeCde(M, t), Ir("cde", "inicio", v),
         Algoritmo # "VRR" => t # "blocked_a_readyPlus",
         procesos_globales' \subseteq Pids, TipoInterfaces'
  PROVE  IInv'
<1>1. /\ cpu.fase = "devuelto"
      /\ sem_wait("cpu_debe_retornar")
      /\ cpu' = [fase |-> "libre", pid |-> Nulo, motivo |-> Nulo]
      /\ transicion' = [transicion EXCEPT !["cde"] = t]
      /\ pc["cde"] = "inicio" /\ pc' = [pc EXCEPT !["cde"] = v]
      /\ UNCHANGED <<estado, lugar, clock, cola, memoria, pcb_en_ejecucion, pausas,
                     locales, interrupciones, falla>>
  BY DEF RecibeCde, Ir, CpuLibre
<1>2. v \in PuntosDe("cde") /\ v \notin EnPausa /\ ~EnTransicion("cde")
  BY <1>1, HilosDistintos DEF EnTransicion, EnPausa
<1>3. /\ pc'["cde"] = v /\ ~EnTransicion("cde")'
      /\ \A g \in Hilos \ {"cde"} : pc'[g] = pc[g] /\ (EnTransicion(g)' <=> EnTransicion(g))
      /\ pc' \in [Hilos -> Puntos] /\ \A g \in Hilos : pc'[g] \in PuntosDe(g)
      /\ SinAvisar' = SinAvisar
  BY <1>1, <1>2, PcMueve, SonHilos DEF IInv
<1>4. /\ sem' \in [Semaforos -> Nat]
      /\ sem'["cpu_debe_retornar"] = sem["cpu_debe_retornar"] - 1
      /\ \A r \in Semaforos \ {"cpu_debe_retornar"} : sem'[r] = sem[r]
  BY <1>1, SemBaja DEF IInv, Semaforos
<1>5. /\ transicion' \in [Hilos -> Transiciones \cup {Nulo}]
      /\ \A h \in Hilos : transicion'[h] = transicion[h] \/ transicion'[h] = t
  BY <1>1 DEF IInv, TypeOK, TipoHilos, locales
<1>6. TypeOK'
  BY <1>1, <1>3, <1>4, <1>5 DEF IInv, TypeOK, TipoProcesos, TipoSemaforos, TipoHilos, locales, TipoCpu,
         pausas
<1>7. SoloVRR'
  BY <1>1, <1>5 DEF IInv, SoloVRR
<1>8. \A c \in Colas : list_size(c)' = list_size(c)
  BY <1>1 DEF list_size
<1>9. SemaforosFieles' /\ GradoSiBusca' /\ UnSoloQuantum'
  BY <1>1, <1>3, <1>4, <1>8, SonHilos
     DEF IInv, SemaforosFieles, GradoSiBusca, GradoConservado, UnSoloQuantum, Colas, Semaforos, Uno
<1>10. CpuExclusiva'
  <2>1. /\ sem["cpu_debe_retornar"] = 1 /\ pcb_en_ejecucion # Nulo
        /\ pc["corto"] \notin {"reloj", "enviar"}
    BY <1>1 DEF IInv, CpuExclusiva, Uno
  <2>2. cpu'.fase = "libre" /\ sem'["cpu_debe_retornar"] = 0
    BY <1>1, <1>4, <2>1
  <2> QED BY <2>1, <2>2, <1>1, <1>2, <1>3, <1>4, SonHilos DEF IInv, CpuExclusiva, Semaforos, Uno
<1> QED BY <1>6, <1>7, <1>9, <1>10 DEF IInv

\* A context comes back for EXIT, ERROR, end of quantum or an interface that
\* is not there.
LEMMA PasoCdeRecibe ==
  ASSUME IInv, CdeTermina \/ CdeFinDeQuantum \/ CdeIOInvalida
  PROVE  IInv'
<1>1. procesos_globales \subseteq Pids /\ TipoInterfaces
  BY DEF IInv, TypeOK, TipoProcesos
<1>2. CASE CdeTermina
  <2>1. {"EXIT", "ERROR"} \in SUBSET Motivos
    BY DEF Motivos
  <2> QED BY <1>1, <1>2, <2>1, PasoRecibe DEF CdeTermina, Transiciones, TipoInterfaces, dispositivos
<1>3. CASE CdeFinDeQuantum
  <2>1. {"FIN_DE_QUANTUM"} \in SUBSET Motivos
    BY DEF Motivos
  <2> QED BY <1>1, <1>3, <2>1, PasoRecibe
          DEF CdeFinDeQuantum, Transiciones, TipoInterfaces, dispositivos
<1>4. CASE CdeIOInvalida
  <2>1. {"IO_INVALIDA"} \in SUBSET Motivos /\ (Nulo \in Transiciones \cup {Nulo})
    BY DEF Motivos
  <2>2. Nulo # "blocked_a_readyPlus"
    BY NuloAssumption DEF Transiciones
  <2> QED BY <1>1, <1>4, <2>1, <2>2, PasoRecibe DEF CdeIOInvalida, TipoInterfaces, dispositivos
<1> QED BY <1>2, <1>3, <1>4

\* A context comes back for an interface: the interface does not change yet.
LEMMA PasoCdeIO == ASSUME IInv, NEW i \in Interfaces, CdeIO(i) PROVE IInv'
<1>1. PICK v \in {"encola", "despacha"} :
        /\ RecibeCde({i}, "exec_a_blocked") /\ Ir("cde", "inicio", v)
        /\ procesos_globales' = procesos_globales
        /\ interfaz_buscada' = i /\ UNCHANGED <<interfaz, io>>
  BY DEF CdeIO, PideIO
<1>2. TipoInterfaces'
  BY <1>1 DEF IInv, TypeOK, TipoInterfaces
<1>3. {i} \in SUBSET Motivos /\ procesos_globales' \subseteq Pids
  BY <1>1 DEF Motivos, IInv, TypeOK, TipoProcesos
<1> QED BY <1>1, <1>2, <1>3, PasoRecibe DEF Transiciones

\* What the interfaces are made of.
TipoInterfaz == [ocupada : BOOLEAN, pcb_ejecutando : Pids \cup {Nulo}, pcb_esperando : Seq(Pids)]
TipoIo == [trabajos : Nat, libres : Nat, pcb : Pids \cup {Nulo}, posicion : Nat]

\* A request more in the socket of an interface, and its thread taking LIBRE.
LEMMA IoPropio ==
  ASSUME io \in [Interfaces -> TipoIo]
  PROVE  /\ \A b : [io EXCEPT ![b].trabajos = @ + 1] \in [Interfaces -> TipoIo]
         /\ \A b \in Interfaces, p \in Pids \cup {Nulo} :
              io[b].libres > 0 =>
                [io EXCEPT ![b].libres = @ - 1, ![b].pcb = p] \in [Interfaces -> TipoIo]
<1>1. ASSUME NEW b PROVE [io EXCEPT ![b].trabajos = @ + 1] \in [Interfaces -> TipoIo]
  <2>1. \A i \in Interfaces : io[i].trabajos + 1 \in Nat
    BY DEF TipoIo
  <2>2. \A i \in Interfaces : [io[i] EXCEPT !.trabajos = @ + 1] \in TipoIo
    BY <2>1 DEF TipoIo
  <2> QED BY <2>2
<1>2. ASSUME NEW b \in Interfaces, NEW p \in Pids \cup {Nulo}, io[b].libres > 0
      PROVE  [io EXCEPT ![b].libres = @ - 1, ![b].pcb = p] \in [Interfaces -> TipoIo]
  <2>1. io[b].libres - 1 \in Nat
    BY <1>2 DEF TipoIo
  <2>2. [io[b] EXCEPT !.libres = @ - 1, !.pcb = p] \in TipoIo
    BY <2>1 DEF TipoIo
  <2> QED BY <2>2
<1> QED BY <1>1, <1>2

\* A thread moves between points of no count, and an interface changes.
LEMMA PasoDeInterfaz ==
  ASSUME IInv, NEW h \in {"cde"} \cup Interfaces,
         NEW desde, NEW hasta \in PuntosDe(h) \ EnPausa, Ir(h, desde, hasta),
         desde \notin EnPausa, h = "cde" => desde # "inicio" /\ hasta # "inicio",
         desde # "anota", hasta # "anota",
         TipoInterfaces',
         UNCHANGED <<colas, sem, pausas, transicion, locales, cpu, interrupciones, falla>>
  PROVE  IInv'
<1>1. pc[h] = desde /\ pc' = [pc EXCEPT ![h] = hasta] /\ h \in Hilos /\ h \notin {"largo", "corto", "reloj"}
  BY SonHilos DEF Ir
<1>2. /\ pc'[h] = hasta /\ (EnTransicion(h)' <=> hasta \in EnPausa)
      /\ \A g \in Hilos \ {h} : pc'[g] = pc[g] /\ (EnTransicion(g)' <=> EnTransicion(g))
      /\ pc' \in [Hilos -> Puntos] /\ \A g \in Hilos : pc'[g] \in PuntosDe(g)
      /\ SinAvisar' = SinAvisar
  BY <1>1, PcMueve DEF IInv
<1>3. EnTransicion(h)' <=> EnTransicion(h)
  BY <1>1, <1>2 DEF EnTransicion
<1>4. TypeOK' /\ SoloVRR'
  BY <1>1, <1>2 DEF IInv, TypeOK, TipoProcesos, TipoSemaforos, TipoHilos, locales, TipoCpu,
         SoloVRR, colas, pausas
<1>5. \A w \in {"inicio", "anota"} : pc'["cde"] = w <=> pc["cde"] = w
  BY <1>1, <1>2, SonHilos
<1> QED BY <1>1, <1>2, <1>3, <1>4, <1>5, SonHilos, Marco DEF colas

\* The process is queued in the interface.
LEMMA PasoCdeEncola == ASSUME IInv, CdeEncola PROVE IInv'
<1>1. /\ Ir("cde", "encola", "exec") /\ interfaz_buscada' = Nulo
      /\ interfaz' = [interfaz EXCEPT
                        ![interfaz_buscada].pcb_esperando = Append(@, pcb_en_ejecucion)]
      /\ UNCHANGED <<colas, sem, pausas, transicion, locales, cpu, interrupciones, io, falla>>
  BY DEF CdeEncola
<1>2. pcb_en_ejecucion \in Pids
  <2>1. pc["cde"] # "inicio"
    BY <1>1 DEF Ir
  <2> QED BY <2>1 DEF IInv, CpuExclusiva, TypeOK, TipoProcesos
<1>3. TipoInterfaces'
  <2>1. interfaz \in [Interfaces -> TipoInterfaz] /\ io' = io
    BY <1>1 DEF IInv, TypeOK, TipoInterfaces, TipoInterfaz
  <2>2. \A i \in Interfaces : Append(interfaz[i].pcb_esperando, pcb_en_ejecucion) \in Seq(Pids)
    BY <2>1, <1>2 DEF TipoInterfaz
  <2>3. interfaz' \in [Interfaces -> TipoInterfaz]
    BY <2>1, <2>2, <1>1 DEF TipoInterfaz
  <2> QED BY <2>1, <2>3, <1>1 DEF IInv, TypeOK, TipoInterfaces, TipoInterfaz
<1>4. "exec" \in PuntosDe("cde") \ EnPausa /\ "encola" \notin EnPausa
  BY HilosDistintos DEF EnPausa
<1> QED BY <1>1, <1>3, <1>4, PasoDeInterfaz

\* The process is given to the interface.
LEMMA PasoCdeDespacha == ASSUME IInv, CdeDespacha PROVE IInv'
<1>1. /\ Ir("cde", "despacha", "exec") /\ interfaz_buscada' = Nulo
      /\ interfaz' = [interfaz EXCEPT ![interfaz_buscada].pcb_ejecutando = pcb_en_ejecucion,
                                      ![interfaz_buscada].ocupada = TRUE]
      /\ io' = [io EXCEPT ![interfaz_buscada].trabajos = @ + 1]
      /\ UNCHANGED <<colas, sem, pausas, transicion, locales, cpu, interrupciones, falla>>
  BY DEF CdeDespacha, Despacha
<1>2. TipoInterfaces'
  <2>1. interfaz \in [Interfaces -> TipoInterfaz] /\ io \in [Interfaces -> TipoIo]
    BY DEF IInv, TypeOK, TipoInterfaces, TipoInterfaz, TipoIo
  <2>2. pcb_en_ejecucion \in Pids \cup {Nulo}
    BY DEF IInv, TypeOK, TipoProcesos
  <2>3. interfaz' \in [Interfaces -> TipoInterfaz]
    BY <2>1, <2>2, <1>1 DEF TipoInterfaz
  <2>4. io' \in [Interfaces -> TipoIo]
    BY <2>1, <1>1, IoPropio
  <2> QED BY <2>3, <2>4, <1>1 DEF TipoInterfaces, TipoInterfaz, TipoIo
<1>3. "exec" \in PuntosDe("cde") \ EnPausa /\ "despacha" \notin EnPausa
  BY HilosDistintos DEF EnPausa
<1> QED BY <1>1, <1>2, <1>3, PasoDeInterfaz

\* Two of the transitions out of EXEC: the place of the process passes to
\* Ready, or back to grado_de_multiprogramacion.
LEMMA PasoDejaExec == ASSUME IInv, ExecAFinalizado \/ ExecAReady PROVE IInv'
<1>1. PICK t \in Transiciones, q \in {"Finalizados", "Ready"}, e \in {"EXIT", "READY"},
           S \in SUBSET {"procesos_en_exit", "grado_de_multiprogramacion", "procesos_en_ready"} :
        /\ DejaExec(t, q, e, S)
        /\ \/ q = "Finalizados" /\ S = {"procesos_en_exit", "grado_de_multiprogramacion"}
           \/ q = "Ready" /\ S = {"procesos_en_ready"}
  <2>1. CASE ExecAFinalizado
    BY <2>1 DEF ExecAFinalizado, Transiciones
  <2>2. CASE ExecAReady
    BY <2>2 DEF ExecAReady, Transiciones
  <2> QED BY <2>1, <2>2
<1>2. /\ pausa' \in [Transiciones -> Nat] /\ EnTransicion("cde")
      /\ pc' = [pc EXCEPT !["cde"] = "inicio"]
      /\ UNCHANGED <<planificacion_detenida, ordenes>>
  BY <1>1, PausaBaja, SonHilos DEF DejaExec, IInv
<1>3. pcb_en_ejecucion # Nulo /\ pc["cde"] # "anota"
  BY <1>2 DEF IInv, CpuExclusiva, EnTransicion, EnPausa
<1>4. PICK p \in Pids : p = pcb_en_ejecucion
  BY <1>3 DEF IInv, TypeOK, TipoProcesos
<1>5. /\ Agregar(p, q)
      /\ estado' = [estado EXCEPT ![p] = e] /\ lugar' = [lugar EXCEPT ![p] = e]
      /\ pcb_en_ejecucion' = Nulo
      /\ sem_post({"cpu_libre"} \cup S)
      /\ UNCHANGED <<clock, procesos_globales, memoria, transicion, locales, cpu,
                     interrupciones, dispositivos, falla>>
  BY <1>1, <1>4 DEF DejaExec, Anotar, Ubicar
<1>6. /\ TipoColas' /\ list_size(q)' = list_size(q) + 1
      /\ \A d \in Colas \ {q} : list_size(d)' = list_size(d) /\ cola'[d] = cola[d]
  BY <1>5, ColaAgrega, Numeros DEF IInv, Colas
<1>7. "inicio" \in PuntosDe("cde") /\ "inicio" \notin EnPausa
  BY HilosDistintos DEF EnPausa
<1>8. /\ pc'["cde"] = "inicio" /\ ~EnTransicion("cde")'
      /\ \A g \in Hilos \ {"cde"} : pc'[g] = pc[g] /\ (EnTransicion(g)' <=> EnTransicion(g))
      /\ pc' \in [Hilos -> Puntos] /\ \A g \in Hilos : pc'[g] \in PuntosDe(g)
      /\ SinAvisar' = SinAvisar
  BY <1>2, <1>7, PcMueve, SonHilos DEF IInv
<1>9. /\ sem' \in [Semaforos -> Nat]
      /\ \A r \in Semaforos : sem'[r] = IF r \in {"cpu_libre"} \cup S THEN sem[r] + 1 ELSE sem[r]
  BY <1>5, SemSube DEF IInv
<1>10. /\ sem'["cpu_libre"] = sem["cpu_libre"] + 1
       /\ \A r \in {"procesos_en_new", "procesos_en_exec", "cpu_debe_retornar",
                    "sem_iniciar_quantum", "sem_reloj_destruido"} : sem'[r] = sem[r]
  BY <1>9 DEF Semaforos
<1>11. TypeOK'
  BY <1>2, <1>5, <1>6, <1>8, <1>9
     DEF IInv, TypeOK, TipoProcesos, TipoSemaforos, TipoHilos, locales, TipoCpu, TipoInterfaces,
         dispositivos, TipoColas, Estados
<1>12. SoloVRR'
  BY <1>5, <1>6 DEF IInv, SoloVRR, Colas
<1>13. /\ sem["cpu_libre"] = 0 /\ cpu.fase = "libre" /\ sem["cpu_debe_retornar"] = 0
       /\ pc["corto"] \notin {"ready", "reloj", "enviar"} /\ ~EnTransicion("corto")
       /\ sem["procesos_en_exec"] = 0
  BY <1>2, <1>3, Numeros DEF IInv, CpuExclusiva, Uno, EnTransicion, EnPausa
<1>14. CpuExclusiva'
  BY <1>5, <1>8, <1>10, <1>13, SonHilos DEF IInv, CpuExclusiva, Uno
<1>15. UnSoloQuantum'
  BY <1>8, <1>10, SonHilos DEF IInv, UnSoloQuantum, Uno
<1>16. SemaforosFieles' /\ GradoSiBusca'
  <2>1. /\ Uno(pcb_en_ejecucion # Nulo /\ pc["cde"] # "anota") = 1
        /\ Uno(pcb_en_ejecucion # Nulo /\ pc["cde"] # "anota")' = 0
        /\ Cardinality(SinAvisar)' = Cardinality(SinAvisar)
        /\ Uno(EnTransicion("largo"))' = Uno(EnTransicion("largo"))
        /\ Uno(EnTransicion("largo")) \in Nat
        /\ Uno(EnTransicion("corto"))' = Uno(EnTransicion("corto"))
        /\ Uno(EnTransicion("corto")) \in Nat
        /\ Uno(pc["largo"] = "grado" \/ EnTransicion("largo"))'
             = Uno(pc["largo"] = "grado" \/ EnTransicion("largo"))
    BY <1>3, <1>5, <1>8, SonHilos DEF Uno
  <2>2. list_size("New")' = list_size("New") /\ list_size("ReadyPlus")' = list_size("ReadyPlus")
    BY <1>6 DEF Colas
  <2>3. CASE q = "Finalizados" /\ S = {"procesos_en_exit", "grado_de_multiprogramacion"}
    <3>1. /\ sem'["procesos_en_exit"] = sem["procesos_en_exit"] + 1
          /\ sem'["grado_de_multiprogramacion"] = sem["grado_de_multiprogramacion"] + 1
          /\ sem'["procesos_en_ready"] = sem["procesos_en_ready"]
      BY <2>3, <1>9 DEF Semaforos
    <3>2. /\ list_size("Ready")' = list_size("Ready")
          /\ list_size("Bloqueados")' = list_size("Bloqueados")
          /\ list_size("Finalizados")' = list_size("Finalizados") + 1
      BY <2>3, <1>6 DEF Colas
    <3>3. SemaforosFieles'
      BY <2>1, <2>2, <3>1, <3>2, <1>10, Numeros DEF IInv, SemaforosFieles
    <3>4. GradoSiBusca'
      BY <2>1, <2>2, <3>1, <3>2, Numeros DEF IInv, GradoSiBusca, GradoConservado
    <3> QED BY <3>3, <3>4
  <2>4. CASE q = "Ready" /\ S = {"procesos_en_ready"}
    <3>1. /\ sem'["procesos_en_exit"] = sem["procesos_en_exit"]
          /\ sem'["grado_de_multiprogramacion"] = sem["grado_de_multiprogramacion"]
          /\ sem'["procesos_en_ready"] = sem["procesos_en_ready"] + 1
      BY <2>4, <1>9 DEF Semaforos
    <3>2. /\ list_size("Ready")' = list_size("Ready") + 1
          /\ list_size("Bloqueados")' = list_size("Bloqueados")
          /\ list_size("Finalizados")' = list_size("Finalizados")
      BY <2>4, <1>6 DEF Colas
    <3> QED BY <2>1, <2>2, <3>1, <3>2, <1>10, Numeros DEF IInv, SemaforosFieles, GradoSiBusca, GradoConservado
  <2> QED BY <1>1, <2>3, <2>4
<1> QED BY <1>11, <1>12, <1>14, <1>15, <1>16 DEF IInv

\* enviar_de_exec_a_block, up to the insertion: the place of the process
\* passes to procesosBloqueados and the processor is still taken.
LEMMA PasoExecABlock == ASSUME IInv, ExecABlock PROVE IInv'
<1>1. /\ pausa' \in [Transiciones -> Nat] /\ EnTransicion("cde")
      /\ pc' = [pc EXCEPT !["cde"] = "anota"]
      /\ UNCHANGED <<planificacion_detenida, ordenes>>
  BY PausaBaja, SonHilos DEF ExecABlock, IInv
<1>2. pcb_en_ejecucion # Nulo /\ pc["cde"] # "anota"
  BY <1>1 DEF IInv, CpuExclusiva, EnTransicion, EnPausa
<1>3. PICK p \in Pids : p = pcb_en_ejecucion
  BY <1>2 DEF IInv, TypeOK, TipoProcesos
<1>4. /\ Agregar(p, "Bloqueados") /\ lugar' = [lugar EXCEPT ![p] = "BLOCKED"]
      /\ UNCHANGED <<estado, clock, procesos_globales, memoria, pcb_en_ejecucion, sem, transicion,
                     locales, cpu, interrupciones, dispositivos, falla>>
  BY <1>3 DEF ExecABlock, Ubicar
<1>5. /\ TipoColas' /\ list_size("Bloqueados")' = list_size("Bloqueados") + 1
      /\ \A d \in Colas \ {"Bloqueados"} : list_size(d)' = list_size(d) /\ cola'[d] = cola[d]
  BY <1>4, ColaAgrega, Numeros DEF IInv, Colas
<1>6. "anota" \in PuntosDe("cde") /\ "anota" \notin EnPausa
  BY HilosDistintos DEF EnPausa
<1>7. /\ pc'["cde"] = "anota" /\ ~EnTransicion("cde")'
      /\ \A g \in Hilos \ {"cde"} : pc'[g] = pc[g] /\ (EnTransicion(g)' <=> EnTransicion(g))
      /\ pc' \in [Hilos -> Puntos] /\ \A g \in Hilos : pc'[g] \in PuntosDe(g)
      /\ SinAvisar' = SinAvisar
  BY <1>1, <1>6, PcMueve, SonHilos DEF IInv
<1>8. TypeOK'
  BY <1>1, <1>4, <1>5, <1>7
     DEF IInv, TypeOK, TipoProcesos, TipoSemaforos, TipoHilos, locales, TipoCpu, TipoInterfaces,
         dispositivos, TipoColas, Estados
<1>9. SoloVRR'
  BY <1>4, <1>5 DEF IInv, SoloVRR, Colas
<1>10. SemaforosFieles'
  BY <1>4, <1>5, <1>7, SonHilos DEF IInv, SemaforosFieles, Colas, Uno
<1>11. CpuExclusiva'
  BY <1>1, <1>2, <1>4, <1>7, SonHilos DEF IInv, CpuExclusiva, EnTransicion, EnPausa, Uno
<1>12. GradoSiBusca'
  <2>1. /\ Uno(pcb_en_ejecucion # Nulo /\ pc["cde"] # "anota") = 1
        /\ Uno(pcb_en_ejecucion # Nulo /\ pc["cde"] # "anota")' = 0
        /\ Uno(EnTransicion("largo"))' = Uno(EnTransicion("largo"))
        /\ Uno(EnTransicion("largo")) \in Nat
    BY <1>2, <1>4, <1>7, SonHilos DEF Uno
  <2>2. /\ list_size("Ready")' = list_size("Ready")
        /\ list_size("ReadyPlus")' = list_size("ReadyPlus")
    BY <1>5 DEF Colas
  <2> QED BY <2>1, <2>2, <1>4, <1>5, Numeros DEF IInv, GradoSiBusca, GradoConservado
<1>13. UnSoloQuantum'
  BY <1>4, <1>7, SonHilos DEF IInv, UnSoloQuantum, Uno
<1> QED BY <1>8, <1>9, <1>10, <1>11, <1>12, <1>13 DEF IInv

\* ... and the rest: the processor is free and the process has its token.
LEMMA PasoExecABlockAnota == ASSUME IInv, ExecABlockAnota PROVE IInv'
<1>1. /\ pc["cde"] = "anota" /\ pc' = [pc EXCEPT !["cde"] = "inicio"]
      /\ estado' = [estado EXCEPT ![pcb_en_ejecucion] = "BLOCKED"]
      /\ pcb_en_ejecucion' = Nulo
      /\ sem_post({"cpu_libre"} \cup {"procesos_en_blocked"})
      /\ UNCHANGED <<lugar, clock, cola, procesos_globales, memoria, pausas, transicion, locales,
                     cpu, interrupciones, dispositivos, falla>>
  BY DEF ExecABlockAnota, FinDeBloqueo, Anotar, Ir
<1>2. pcb_en_ejecucion # Nulo /\ ~EnTransicion("cde")
  BY <1>1 DEF IInv, CpuExclusiva, EnTransicion, EnPausa
<1>3. "inicio" \in PuntosDe("cde") /\ "inicio" \notin EnPausa
  BY HilosDistintos DEF EnPausa
<1>4. /\ pc'["cde"] = "inicio" /\ ~EnTransicion("cde")'
      /\ \A g \in Hilos \ {"cde"} : pc'[g] = pc[g] /\ (EnTransicion(g)' <=> EnTransicion(g))
      /\ pc' \in [Hilos -> Puntos] /\ \A g \in Hilos : pc'[g] \in PuntosDe(g)
      /\ SinAvisar' = SinAvisar
  BY <1>1, <1>3, PcMueve, SonHilos DEF IInv
<1>5. /\ sem' \in [Semaforos -> Nat]
      /\ sem'["cpu_libre"] = sem["cpu_libre"] + 1
      /\ \A r \in Semaforos \ {"cpu_libre", "procesos_en_blocked"} : sem'[r] = sem[r]
  BY <1>1, SemSube DEF IInv, Semaforos
<1>6. TypeOK' /\ SoloVRR'
  BY <1>1, <1>4, <1>5
     DEF IInv, TypeOK, TipoProcesos, TipoSemaforos, TipoHilos, locales, TipoCpu, TipoInterfaces,
         dispositivos, pausas, SoloVRR, Estados
<1>7. \A c \in Colas : list_size(c)' = list_size(c)
  BY <1>1 DEF list_size
<1>8. SemaforosFieles'
  BY <1>4, <1>5, <1>7, SonHilos DEF IInv, SemaforosFieles, Semaforos, Colas, Uno
<1>9. /\ sem["cpu_libre"] = 0 /\ cpu.fase = "libre" /\ sem["cpu_debe_retornar"] = 0
      /\ pc["corto"] \notin {"ready", "reloj", "enviar"} /\ ~EnTransicion("corto")
      /\ sem["procesos_en_exec"] = 0
  BY <1>1, <1>2, Numeros DEF IInv, CpuExclusiva, Uno, EnTransicion, EnPausa
<1>10. CpuExclusiva'
  BY <1>1, <1>4, <1>5, <1>9, SonHilos DEF IInv, CpuExclusiva, Semaforos, Uno
<1>11. GradoSiBusca'
  <2>1. /\ Uno(pcb_en_ejecucion # Nulo /\ pc["cde"] # "anota") = 0
        /\ Uno(pcb_en_ejecucion # Nulo /\ pc["cde"] # "anota")' = 0
        /\ Uno(EnTransicion("largo"))' = Uno(EnTransicion("largo"))
    BY <1>1, <1>4, SonHilos DEF Uno
  <2> QED BY <2>1, <1>5, <1>7 DEF IInv, GradoSiBusca, GradoConservado, Semaforos, Colas
<1>12. UnSoloQuantum'
  BY <1>4, <1>5, SonHilos DEF IInv, UnSoloQuantum, Semaforos, Uno
<1> QED BY <1>6, <1>8, <1>10, <1>11, <1>12 DEF IInv

\* terminar_proceso takes the head of procesosFinalizados out of the system.
LEMMA PasoTerminarProceso == ASSUME IInv, TerminarProceso PROVE IInv'
<1>1. /\ sem_wait("procesos_en_exit")
      /\ cola' = [cola EXCEPT !["Finalizados"] = Tail(cola["Finalizados"])]
      /\ procesos_globales' \subseteq procesos_globales
      /\ memoria' \subseteq memoria
      /\ UNCHANGED <<estado, lugar, clock, pcb_en_ejecucion, pausas, pc, transicion, locales,
                     cpu, interrupciones, dispositivos, falla>>
  BY DEF TerminarProceso
<1>2. /\ sem' \in [Semaforos -> Nat] /\ sem["procesos_en_exit"] > 0
      /\ sem'["procesos_en_exit"] = sem["procesos_en_exit"] - 1
      /\ \A r \in Semaforos \ {"procesos_en_exit"} : sem'[r] = sem[r]
  BY <1>1, SemBaja DEF IInv, Semaforos
<1>3. "Finalizados" \in Colas /\ list_size("Finalizados") > 0 /\ TipoColas
  BY <1>2, Numeros DEF IInv, SemaforosFieles, Colas
<1>4. /\ TipoColas' /\ list_size("Finalizados")' = list_size("Finalizados") - 1
      /\ \A d \in Colas \ {"Finalizados"} : list_size(d)' = list_size(d) /\ cola'[d] = cola[d]
  BY <1>1, <1>3, ColaSaca
<1>5. TypeOK'
  BY <1>1, <1>2, <1>4 DEF IInv, TypeOK, TipoProcesos, TipoSemaforos, TipoHilos, locales, TipoCpu,
         TipoInterfaces, pausas, dispositivos, TipoColas
<1>6. SoloVRR'
  BY <1>1, <1>4 DEF IInv, SoloVRR, Colas
<1>7. /\ \A g \in Hilos : pc'[g] = pc[g] /\ (EnTransicion(g)' <=> EnTransicion(g))
      /\ SinAvisar' = SinAvisar
  BY <1>1 DEF EnTransicion, SinAvisar
<1>8. SemaforosFieles'
  BY <1>2, <1>4, <1>7, Numeros, SonHilos DEF IInv, SemaforosFieles, Colas, Semaforos, Uno
<1>9. CpuExclusiva' /\ GradoSiBusca' /\ UnSoloQuantum'
  BY <1>1, <1>2, <1>4, <1>7, SonHilos
     DEF IInv, CpuExclusiva, GradoSiBusca, GradoConservado, UnSoloQuantum, Colas, Semaforos, Uno
<1> QED BY <1>5, <1>6, <1>8, <1>9 DEF IInv

(***************************************************************************)
(* Interfaces.                                                             *)
(***************************************************************************)

\* A device finishes: only its own state changes.
LEMMA PasoDispositivo == ASSUME IInv, NEW i \in Interfaces, DispositivoTermina(i) PROVE IInv'
<1>1. /\ io[i].trabajos > 0
      /\ io' = [io EXCEPT ![i].trabajos = @ - 1, ![i].libres = @ + 1]
      /\ UNCHANGED <<colas, sem, pausas, pc, transicion, locales, cpu,
                     interrupciones, interfaz, interfaz_buscada, falla>>
  BY DEF DispositivoTermina
<1>2. TipoInterfaces'
  <2>1. io \in [Interfaces -> TipoIo]
    BY DEF IInv, TypeOK, TipoInterfaces, TipoIo
  <2>2. io' \in [Interfaces -> TipoIo]
    BY <2>1, <1>1 DEF TipoIo
  <2> QED BY <2>2, <1>1 DEF IInv, TypeOK, TipoInterfaces, TipoIo
<1>3. TypeOK' /\ SoloVRR'
  BY <1>1, <1>2 DEF IInv, TypeOK, TipoProcesos, TipoSemaforos, TipoHilos, locales, TipoCpu,
              SoloVRR, colas, pausas
<1> QED BY <1>1, <1>3, Marco DEF EnTransicion, SinAvisar, colas

\* The thread of an interface receives LIBRE and chooses the Ready queue.
LEMMA PasoIoRecibeLibre == ASSUME IInv, NEW i \in Interfaces, IoRecibeLibre(i) PROVE IInv'
<1>1. PICK t \in {"blocked_a_readyPlus", "blocked_a_ready"} :
        /\ transicion' = [transicion EXCEPT ![i] = t]
        /\ t = "blocked_a_readyPlus" => Algoritmo = "VRR"
  BY DEF IoRecibeLibre
<1>2. /\ pc[i] = "inicio" /\ pc' = [pc EXCEPT ![i] = "blocked"]
      /\ io[i].libres > 0
      /\ io' = [io EXCEPT ![i].libres = @ - 1, ![i].pcb = interfaz[i].pcb_ejecutando]
      /\ UNCHANGED <<colas, sem, pausas, locales, cpu, interrupciones, interfaz,
                     interfaz_buscada, falla>>
  BY DEF IoRecibeLibre, Ir
<1>3. "blocked" \in PuntosDe(i)
  BY HilosDistintos
<1>4. /\ \A g \in Hilos \ {i} : pc'[g] = pc[g] /\ (EnTransicion(g)' <=> EnTransicion(g))
      /\ pc' \in [Hilos -> Puntos] /\ \A g \in Hilos : pc'[g] \in PuntosDe(g)
      /\ SinAvisar' = SinAvisar
  BY <1>2, <1>3, PcMueve, SonHilos DEF IInv
<1>5. /\ transicion' \in [Hilos -> Transiciones \cup {Nulo}]
      /\ \A h \in Hilos : transicion'[h] = transicion[h] \/ transicion'[h] = t
  BY <1>1 DEF IInv, TypeOK, TipoHilos, Transiciones
<1>6. TipoInterfaces'
  <2>1. interfaz \in [Interfaces -> TipoInterfaz] /\ io \in [Interfaces -> TipoIo]
    BY DEF IInv, TypeOK, TipoInterfaces, TipoInterfaz, TipoIo
  <2>2. interfaz[i].pcb_ejecutando \in Pids \cup {Nulo}
    BY <2>1 DEF TipoInterfaz
  <2>3. io' \in [Interfaces -> TipoIo]
    BY <2>1, <2>2, <1>2, IoPropio
  <2> QED BY <2>3, <1>2 DEF IInv, TypeOK, TipoInterfaces, TipoIo
<1>7. TypeOK' /\ SoloVRR'
  BY <1>1, <1>2, <1>4, <1>5, <1>6 DEF IInv, TypeOK, TipoProcesos, TipoSemaforos, TipoHilos, locales,
         TipoCpu, SoloVRR, colas, pausas
<1> QED BY <1>2, <1>4, <1>7, SonHilos, Marco DEF colas

\* It takes a token of procesos_en_blocked, that no part of the invariant reads.
LEMMA PasoIoEsperaBlocked ==
  ASSUME IInv, NEW i \in Interfaces, IoEsperaBlocked(i) PROVE IInv'
<1>1. "chequeo" \in PuntosDe(i) /\ i \in Hilos /\ "procesos_en_blocked" \in Semaforos
  BY HilosDistintos, SonHilos DEF Semaforos
<1>2. /\ TypeOK' /\ SoloVRR'
      /\ \A r \in Semaforos \ {"procesos_en_blocked"} : sem'[r] = sem[r]
      /\ \A g \in Hilos \ {i} : pc'[g] = pc[g] /\ (EnTransicion(g)' <=> EnTransicion(g))
      /\ SinAvisar' = SinAvisar
      /\ pcb_en_ejecucion' = pcb_en_ejecucion /\ cpu' = cpu /\ cola' = cola
  BY <1>1, Espera DEF IoEsperaBlocked
<1> QED BY <1>2, SonHilos, Marco

\* The interface is free.
LEMMA PasoIoLibera == ASSUME IInv, NEW i \in Interfaces, IoLibera(i) PROVE IInv'
<1>1. /\ Ir(i, "liberar", "siguiente")
      /\ interfaz' = [interfaz EXCEPT ![i].ocupada = FALSE]
      /\ io' = [io EXCEPT ![i].pcb = Nulo]
      /\ UNCHANGED <<colas, sem, pausas, transicion, locales, cpu, interrupciones,
                     interfaz_buscada, falla>>
  BY DEF IoLibera
<1>2. TipoInterfaces'
  <2>1. interfaz \in [Interfaces -> TipoInterfaz] /\ io \in [Interfaces -> TipoIo]
    BY DEF IInv, TypeOK, TipoInterfaces, TipoInterfaz, TipoIo
  <2>2. interfaz' \in [Interfaces -> TipoInterfaz]
    BY <2>1, <1>1 DEF TipoInterfaz
  <2>3. io' \in [Interfaces -> TipoIo]
    BY <2>1, <1>1 DEF TipoIo
  <2> QED BY <2>2, <2>3, <1>1 DEF IInv, TypeOK, TipoInterfaces, TipoInterfaz, TipoIo
<1>3. "siguiente" \in PuntosDe(i) \ EnPausa /\ "liberar" \notin EnPausa /\ i # "cde"
  BY HilosDistintos, SonHilos DEF EnPausa
<1> QED BY <1>1, <1>2, <1>3, PasoDeInterfaz

\* The interface takes the next process that waits for it, if any.
LEMMA PasoIoSiguiente == ASSUME IInv, NEW i \in Interfaces, IoSiguiente(i) PROVE IInv'
<1>1. /\ Ir(i, "siguiente", "inicio")
      /\ UNCHANGED <<colas, sem, pausas, transicion, locales, cpu, interrupciones,
                     interfaz_buscada, falla>>
  BY DEF IoSiguiente
<1>2. TipoInterfaces'
  <2>1. interfaz \in [Interfaces -> TipoInterfaz] /\ io \in [Interfaces -> TipoIo]
    BY DEF IInv, TypeOK, TipoInterfaces, TipoInterfaz, TipoIo
  <2>2. CASE interfaz[i].pcb_esperando = <<>>
    BY <2>2, <1>1 DEF IoSiguiente, IInv, TypeOK, TipoInterfaces
  <2>3. CASE interfaz[i].pcb_esperando # <<>>
    <3>1. /\ Head(interfaz[i].pcb_esperando) \in Pids
          /\ Tail(interfaz[i].pcb_esperando) \in Seq(Pids)
      <4>1. interfaz[i].pcb_esperando \in Seq(Pids)
        BY <2>1 DEF TipoInterfaz
      <4> QED BY <4>1, <2>3, HeadTailProperties
    <3>2. /\ interfaz' = [interfaz EXCEPT
                            ![i].pcb_ejecutando = Head(interfaz[i].pcb_esperando),
                            ![i].pcb_esperando = Tail(@), ![i].ocupada = TRUE]
          /\ io' = [io EXCEPT ![i].trabajos = @ + 1]
      BY <2>3 DEF IoSiguiente
    <3>3. interfaz' \in [Interfaces -> TipoInterfaz]
      BY <3>1, <3>2, <2>1 DEF TipoInterfaz
    <3>4. io' \in [Interfaces -> TipoIo]
      BY <3>2, <2>1, IoPropio
    <3> QED BY <3>3, <3>4, <1>1 DEF IInv, TypeOK, TipoInterfaces, TipoInterfaz, TipoIo
  <2> QED BY <2>2, <2>3
<1>3. "inicio" \in PuntosDe(i) \ EnPausa /\ "siguiente" \notin EnPausa /\ i # "cde"
  BY HilosDistintos, SonHilos DEF EnPausa
<1> QED BY <1>1, <1>2, <1>3, PasoDeInterfaz

\* The search changes nothing but a local of the thread.
LEMMA PasoBlockAReadyBusca == ASSUME IInv, NEW i \in Interfaces, BlockAReadyBusca(i) PROVE IInv'
<1>1. /\ pausa' \in [Transiciones -> Nat] /\ EnTransicion(i)
      /\ pc' = [pc EXCEPT ![i] = "mueve"]
      /\ UNCHANGED <<planificacion_detenida, ordenes>>
  BY PausaBaja, SonHilos DEF BlockAReadyBusca, IInv
<1>2. /\ io' = [io EXCEPT ![i].posicion = Posicion(io[i].pcb)]
      /\ UNCHANGED <<colas, sem, transicion, locales, cpu, interrupciones, interfaz,
                     interfaz_buscada, falla>>
  BY DEF BlockAReadyBusca
<1>3. "mueve" \in PuntosDe(i) /\ pc[i] # "anota"
  BY <1>1, HilosDistintos DEF EnTransicion, EnPausa
<1>4. /\ \A g \in Hilos \ {i} : pc'[g] = pc[g] /\ (EnTransicion(g)' <=> EnTransicion(g))
      /\ pc' \in [Hilos -> Puntos] /\ \A g \in Hilos : pc'[g] \in PuntosDe(g)
      /\ SinAvisar' = SinAvisar
  BY <1>1, <1>3, PcMueve, SonHilos DEF IInv
<1>5. Posicion(io[i].pcb) \in Nat
  <2>1. cola["Bloqueados"] \in Seq(Pids) /\ DOMAIN cola["Bloqueados"] = 1..Len(cola["Bloqueados"])
    BY DEF IInv, TypeOK, TipoProcesos, Colas
  <2>2. Contains(cola["Bloqueados"], io[i].pcb) =>
          \E k \in DOMAIN cola["Bloqueados"] : cola["Bloqueados"][k] = io[i].pcb
    BY <2>1 DEF Contains
  <2> QED BY <2>1, <2>2 DEF Posicion
<1>6. TipoInterfaces'
  <2>1. io \in [Interfaces -> TipoIo]
    BY DEF IInv, TypeOK, TipoInterfaces, TipoIo
  <2>2. io' \in [Interfaces -> TipoIo]
    BY <2>1, <1>2, <1>5 DEF TipoIo
  <2> QED BY <2>2, <1>2 DEF IInv, TypeOK, TipoInterfaces, TipoIo
<1>7. TypeOK' /\ SoloVRR'
  BY <1>1, <1>2, <1>4, <1>6 DEF IInv, TypeOK, TipoProcesos, TipoSemaforos, TipoHilos, locales,
         TipoCpu, SoloVRR, colas
<1> QED BY <1>2, <1>4, <1>7, SonHilos, Marco DEF colas

\* The move: the place of the process stays taken, and the post is to come.
LEMMA PasoBlockAReady ==
  ASSUME IInv, SiBusca, NEW i \in Interfaces, BlockAReady(i) PROVE IInv'
<1>1. PICK d \in {"Ready", "ReadyPlus"} : d = ColaDestino(transicion[i])
  BY DEF ColaDestino
<1>2. PICK p \in Pids \cup {Nulo}, k \in Nat : p = io[i].pcb /\ k = io[i].posicion
  <2>1. io \in [Interfaces -> TipoIo]
    BY DEF IInv, TypeOK, TipoInterfaces, TipoIo
  <2>2. io[i].pcb \in Pids \cup {Nulo} /\ io[i].posicion \in Nat
    BY <2>1 DEF TipoIo
  <2> QED BY <2>2
<1>3. cola["Bloqueados"] \in Seq(Pids) /\ k \in DOMAIN cola["Bloqueados"]
  BY <1>2 DEF BlockAReady, IInv, TypeOK, TipoProcesos, Colas
<1>4. PICK q \in Pids : q = cola["Bloqueados"][k]
  BY <1>3
<1>5. /\ pc[i] = "mueve" /\ pc' = [pc EXCEPT ![i] = "anota"]
      /\ cola' = [cola EXCEPT !["Bloqueados"] = Quitar("Bloqueados", p), ![d] = Append(@, q)]
      /\ lugar' = [lugar EXCEPT ![q] = "READY"]
      /\ io' = [io EXCEPT ![i].pcb = q, ![i].posicion = 0]
      /\ UNCHANGED <<estado, clock, procesos_globales, memoria, pcb_en_ejecucion, sem, pausas,
                     transicion, locales, cpu, interrupciones, interfaz, interfaz_buscada, falla>>
  BY <1>1, <1>2, <1>4, Zenon DEF BlockAReady, Ubicar, Ir
<1>6. /\ TipoColas'
      /\ Contains(cola["Bloqueados"], p) => list_size("Bloqueados")' = list_size("Bloqueados") - 1
      /\ list_size(d)' = list_size(d) + 1
      /\ \A e \in Colas \ {"Bloqueados", d} : list_size(e)' = list_size(e) /\ cola'[e] = cola[e]
  BY <1>5, ColaDesbloquea, Numeros DEF IInv
<1>7. "anota" \in PuntosDe(i) /\ "anota" \notin EnPausa /\ "mueve" \notin EnPausa
  BY HilosDistintos DEF EnPausa
<1>8. /\ \A g \in Hilos \ {i} : pc'[g] = pc[g] /\ (EnTransicion(g)' <=> EnTransicion(g))
      /\ pc' \in [Hilos -> Puntos] /\ \A g \in Hilos : pc'[g] \in PuntosDe(g)
  BY <1>5, <1>7, PcMueve, SonHilos DEF IInv
<1>9. Cardinality(SinAvisar)' = Cardinality(SinAvisar) + 1
  BY <1>5, <1>7, Avisos DEF IInv
<1>10. TypeOK'
  <2>1. TipoInterfaces'
    <3>1. io \in [Interfaces -> TipoIo]
      BY DEF IInv, TypeOK, TipoInterfaces, TipoIo
    <3>2. io' \in [Interfaces -> TipoIo]
      BY <3>1, <1>5 DEF TipoIo
    <3> QED BY <3>2, <1>5 DEF IInv, TypeOK, TipoInterfaces, TipoIo
  <2> QED BY <2>1, <1>5, <1>6, <1>8
          DEF IInv, TypeOK, TipoProcesos, TipoSemaforos, TipoHilos, locales, TipoCpu,
              pausas, TipoColas, Estados
<1>11. SoloVRR'
  <2>1. Algoritmo # "VRR" => d = "Ready"
    BY <1>1, SonHilos DEF IInv, SoloVRR, ColaDestino
  <2> QED BY <2>1, <1>5, <1>6 DEF IInv, SoloVRR, Colas
<1>12. /\ list_size("Ready")' + list_size("ReadyPlus")'
            = list_size("Ready") + list_size("ReadyPlus") + 1
       /\ list_size("Ready")' \in Nat /\ list_size("ReadyPlus")' \in Nat
       /\ list_size("New")' = list_size("New")
       /\ list_size("Finalizados")' = list_size("Finalizados")
  <2>1. list_size("New")' = list_size("New") /\ list_size("Finalizados")' = list_size("Finalizados")
    BY <1>6 DEF Colas
  <2>2. CASE d = "Ready"
    BY <2>1, <2>2, <1>6, Numeros DEF Colas, IInv
  <2>3. CASE d = "ReadyPlus"
    BY <2>1, <2>3, <1>6, Numeros DEF Colas, IInv
  <2> QED BY <2>2, <2>3
<1>13. SemaforosFieles'
  <2>1. Uno(EnTransicion("corto"))' = Uno(EnTransicion("corto")) /\ Uno(EnTransicion("corto")) \in Nat
    BY <1>8, SonHilos DEF Uno
  <2>2. (list_size("Ready") + list_size("ReadyPlus")
           = sem["procesos_en_ready"] + Uno(EnTransicion("corto")) + Cardinality(SinAvisar))'
    <3>1. (sem["procesos_en_ready"])' = sem["procesos_en_ready"]
      BY <1>5
    <3>2. /\ list_size("Ready") + list_size("ReadyPlus")
               = sem["procesos_en_ready"] + Uno(EnTransicion("corto")) + Cardinality(SinAvisar)
          /\ list_size("Ready") \in Nat /\ list_size("ReadyPlus") \in Nat
          /\ sem["procesos_en_ready"] \in Nat /\ Cardinality(SinAvisar) \in Nat
      BY Numeros, AvisosFinitos DEF IInv, SemaforosFieles
    <3> QED BY <2>1, <3>1, <3>2, <1>9, <1>12
  <2> QED BY <2>2, <1>5, <1>8, <1>12, SonHilos DEF IInv, SemaforosFieles, Semaforos, Uno
<1>14. CpuExclusiva' /\ UnSoloQuantum'
  BY <1>5, <1>8, SonHilos DEF IInv, CpuExclusiva, UnSoloQuantum, Semaforos, Uno
<1>15. GradoSiBusca'
  <2> SUFFICES ASSUME BusquedaSola PROVE GradoConservado'
    BY DEF GradoSiBusca
  <2>1. cola["Bloqueados"][k] = p
    <3>1. k # 0
      BY <1>3
    <3> QED BY <3>1, <1>2, <1>5 DEF SiBusca, BusquedaVigente
  <2>2. Contains(cola["Bloqueados"], p)
    BY <2>1, <1>3 DEF Contains
  <2>3. /\ Uno(EnTransicion("largo"))' = Uno(EnTransicion("largo"))
        /\ Uno(EnTransicion("largo")) \in Nat
        /\ Uno(pcb_en_ejecucion # Nulo /\ pc["cde"] # "anota")'
             = Uno(pcb_en_ejecucion # Nulo /\ pc["cde"] # "anota")
        /\ Uno(pcb_en_ejecucion # Nulo /\ pc["cde"] # "anota") \in Nat
        /\ sem'["grado_de_multiprogramacion"] = sem["grado_de_multiprogramacion"]
    BY <1>5, <1>8, SonHilos DEF Uno
  <2>4. GradoConservado
    BY DEF IInv, GradoSiBusca
  <2> QED BY <2>2, <2>3, <2>4, <1>6, <1>12, Numeros DEF IInv, GradoConservado
<1> QED BY <1>10, <1>11, <1>13, <1>14, <1>15 DEF IInv

\* The thread of the interface writes READY and posts.
LEMMA PasoBlockAReadyAnota == ASSUME IInv, NEW i \in Interfaces, BlockAReadyAnota(i) PROVE IInv'
<1>1. estado' \in [Pids -> Estados] /\ pcb_a_ready' \in Pids \cup {Nulo}
  BY DEF BlockAReadyAnota, FinDeDesbloqueo, Anotar, locales, IInv, TypeOK, TipoProcesos, TipoHilos,
         Estados
<1>2. "liberar" \in PuntosDe(i) \ EnPausa
  BY HilosDistintos DEF EnPausa
<1> QED BY <1>1, <1>2, Aviso DEF BlockAReadyAnota, FinDeDesbloqueo, locales

(***************************************************************************)
(* What a search found is still there when it is used.                     *)
(***************************************************************************)
\* An interface that is not searching and whose PCB stays where it was.
LEMMA BusquedaQuieta ==
  ASSUME BusquedaVigente,
         \A i \in Interfaces : pc'[i] = "mueve" =>
            /\ pc[i] = "mueve"
            /\ io'[i].pcb = io[i].pcb /\ io'[i].posicion = io[i].posicion,
         \A k \in DOMAIN cola["Bloqueados"] :
            k \in DOMAIN cola'["Bloqueados"] /\ cola'["Bloqueados"][k] = cola["Bloqueados"][k]
  PROVE  BusquedaVigente'
BY DEF BusquedaVigente

\* Insertions are at the end of procesosBloqueados, and the one removal is of
\* the only thread that searched.
LEMMA BusquedaSeMantiene == ASSUME IInv, SiBusca, [Next]_vars PROVE SiBusca'
<1> SUFFICES ASSUME BusquedaSola PROVE BusquedaVigente'
  BY DEF SiBusca
<1>1. /\ BusquedaVigente
      /\ cola["Bloqueados"] \in Seq(Pids)
      /\ io \in [Interfaces -> TipoIo] /\ pc \in [Hilos -> Puntos]
      /\ "Bloqueados" \in Colas
  BY DEF SiBusca, IInv, TypeOK, TipoProcesos, TipoHilos, TipoInterfaces, TipoIo, Colas
<1> DEFINE Igual == cola'["Bloqueados"] = cola["Bloqueados"]
           Quietos == \A i \in Interfaces : pc'[i] = "mueve" =>
                        /\ pc[i] = "mueve"
                        /\ io'[i].pcb = io[i].pcb /\ io'[i].posicion = io[i].posicion
<1>2. ASSUME Igual, Quietos PROVE BusquedaVigente'
  BY <1>1, <1>2, BusquedaQuieta
<1>3. CASE Consola
  <2>1. Quietos /\ (cola' = cola \/ \E p : Agregar(p, "New"))
    BY <1>3 DEF Consola, IniciarProceso, DetenerPlanificacion, IniciarPlanificacion, colas, dispositivos
  <2> QED BY <2>1, <1>1, <1>2 DEF Agregar, Colas, IInv, TypeOK, TipoProcesos
<1>4. CASE PlanificadorLargo
  <2>1. Quietos
    BY <1>4, <1>1, SonHilos DEF PlanificadorLargo, LargoEsperaNew, LargoEsperaGrado, NewAReady,
       NewAReadyAnota, Ir, Transita, dispositivos
  <2>2. Igual
    BY <1>4 DEF PlanificadorLargo, LargoEsperaNew, LargoEsperaGrado, NewAReady, NewAReadyAnota,
       Mover, colas, IInv, TypeOK, TipoProcesos, Colas
  <2> QED BY <2>1, <2>2, <1>2
<1>5. CASE PlanificadorCorto
  <2>1. Quietos
    BY <1>5, <1>1, SonHilos DEF PlanificadorCorto, CortoEsperaCpu, CortoEsperaReady, ReadyAExec,
       CortoEsperaReloj, EnviarCdeACpu, Ir, Transita, dispositivos
  <2>2. Igual
    BY <1>5 DEF PlanificadorCorto, CortoEsperaCpu, CortoEsperaReady, ReadyAExec, ColaElegida,
       CortoEsperaReloj, EnviarCdeACpu, colas, IInv, TypeOK, TipoProcesos, Colas
  <2> QED BY <2>1, <2>2, <1>2
<1>6. CASE Reloj
  <2>1. Igual /\ Quietos
    BY <1>6, <1>1, SonHilos DEF Reloj, RelojInicia, RelojVence, RelojInterrumpe, RelojCaduca, RelojNulo,
       Muere, Ir, colas, dispositivos
  <2> QED BY <2>1, <1>2
<1>7. CASE Cpu
  <2>1. Igual /\ Quietos
    BY <1>7 DEF Cpu, CpuBloqueante, CpuSigue, CpuDevuelve, CpuInterrumpida, colas, dispositivos
  <2> QED BY <2>1, <1>2
<1>8. CASE AtenderCpu /\ ~ExecABlock
  <2>1. Quietos
    <3>1. \A i \in Interfaces : pc'[i] = pc[i]
      BY <1>8, <1>1, SonHilos DEF AtenderCpu, CdeTermina, CdeFinDeQuantum, CdeIO, PideIO, CdeIOInvalida,
         CdeEncola, CdeDespacha, CdeEsperaExec, ExecAFinalizado, ExecAReady, DejaExec,
         ExecABlockAnota, FinDeBloqueo, Ir, Transita
    <3>2. CASE CdeDespacha
      <4>1. \A i \in Interfaces : io'[i].pcb = io[i].pcb /\ io'[i].posicion = io[i].posicion
        BY <3>2, <1>1 DEF CdeDespacha, Despacha, TipoIo
      <4> QED BY <3>1, <4>1
    <3>3. CASE ~CdeDespacha
      <4>1. io' = io
        BY <3>3, <1>8 DEF AtenderCpu, CdeTermina, CdeFinDeQuantum, CdeIO, PideIO, CdeIOInvalida,
           CdeEncola, CdeEsperaExec, ExecAFinalizado, ExecAReady, DejaExec,
           ExecABlockAnota, FinDeBloqueo, dispositivos
      <4> QED BY <3>1, <4>1
    <3> QED BY <3>2, <3>3
  <2>2. Igual
    BY <1>8 DEF AtenderCpu, CdeTermina, CdeFinDeQuantum, CdeIO, PideIO, CdeIOInvalida,
       CdeEncola, CdeDespacha, CdeEsperaExec, ExecAFinalizado, ExecAReady, DejaExec, Agregar,
       ExecABlockAnota, FinDeBloqueo, RecibeCde, colas, IInv, TypeOK, TipoProcesos, Colas
  <2> QED BY <2>1, <2>2, <1>2
<1>9. CASE ExecABlock
  <2>1. Quietos
    BY <1>9, <1>1, SonHilos DEF ExecABlock, Transita, dispositivos
  <2>2. PICK p \in Pids \cup {Nulo} : cola'["Bloqueados"] = Append(cola["Bloqueados"], p)
    BY <1>9 DEF ExecABlock, Agregar, IInv, TypeOK, TipoProcesos, Colas
  <2>3. \A k \in DOMAIN cola["Bloqueados"] :
          k \in DOMAIN cola'["Bloqueados"] /\ cola'["Bloqueados"][k] = cola["Bloqueados"][k]
    <3>1. PICK s \in Seq(Pids \cup {Nulo}) : s = cola["Bloqueados"]
      BY <1>1
    <3>2. \A k \in DOMAIN s : k \in DOMAIN Append(s, p) /\ Append(s, p)[k] = s[k]
      OBVIOUS
    <3> QED BY <3>1, <3>2, <2>2
  <2> QED BY <2>1, <2>3, <1>1, BusquedaQuieta
<1>10. CASE TerminarProceso
  <2>1. Igual /\ Quietos
    BY <1>10 DEF TerminarProceso, dispositivos, IInv, TypeOK, TipoProcesos, Colas
  <2> QED BY <2>1, <1>2
<1>11. ASSUME NEW i \in Interfaces,
              \/ DispositivoTermina(i) \/ IoRecibeLibre(i) \/ IoEsperaBlocked(i)
              \/ BlockAReadyNulo(i) \/ BlockAReadyAnota(i) \/ IoLibera(i) \/ IoSiguiente(i)
       PROVE  BusquedaVigente'
  <2>1. Igual
    BY <1>11 DEF DispositivoTermina, IoRecibeLibre, IoEsperaBlocked, BlockAReadyNulo, Muere,
       BlockAReadyAnota, FinDeDesbloqueo, IoLibera, IoSiguiente, colas
  <2>2. ASSUME NEW j \in Interfaces, pc'[j] = "mueve"
        PROVE  pc[j] = "mueve" /\ io'[j].pcb = io[j].pcb /\ io'[j].posicion = io[j].posicion
    <3>1. j \in Hilos
      BY SonHilos
    <3>2. CASE DispositivoTermina(i) \/ BlockAReadyNulo(i)
      BY <3>1, <3>2, <2>2, <1>1 DEF DispositivoTermina, BlockAReadyNulo, Muere, dispositivos, TipoIo
    <3>3. CASE IoRecibeLibre(i) \/ IoLibera(i)
      BY <3>1, <3>3, <2>2, <1>1 DEF IoRecibeLibre, IoLibera, Ir, TipoIo
    <3>4. CASE IoEsperaBlocked(i) \/ BlockAReadyAnota(i)
      BY <3>1, <3>4, <2>2, <1>1 DEF IoEsperaBlocked, BlockAReadyAnota, FinDeDesbloqueo, Ir, dispositivos
    <3>5. CASE IoSiguiente(i)
      BY <3>1, <3>5, <2>2, <1>1 DEF IoSiguiente, Ir, TipoIo
    <3> QED BY <1>11, <3>2, <3>3, <3>4, <3>5
  <2> QED BY <2>1, <2>2, <1>2
<1>12. ASSUME NEW i \in Interfaces, BlockAReadyBusca(i) PROVE BusquedaVigente'
  <2>1. /\ pc' = [pc EXCEPT ![i] = "mueve"]
        /\ io' = [io EXCEPT ![i].posicion = Posicion(io[i].pcb)]
        /\ cola' = cola
    BY <1>12 DEF BlockAReadyBusca, Transita, colas
  <2>2. \A j \in Interfaces \ {i} : pc'[j] # "mueve"
    <3>1. \A j \in Interfaces \ {i} : pc[j] # "mueve"
      BY <1>12 DEF BlockAReadyBusca, BusquedaSola, UnaInterfaz
    <3> QED BY <3>1, <2>1, <1>1, SonHilos
  <2>3. PICK p \in Pids \cup {Nulo}, s \in Seq(Pids \cup {Nulo}) :
          p = io[i].pcb /\ s = cola["Bloqueados"]
    <3>1. io[i].pcb \in Pids \cup {Nulo}
      BY <1>1 DEF TipoIo
    <3> QED BY <3>1, <1>1
  <2>4. io'[i].pcb = p /\ io'[i].posicion = Posicion(p)
    BY <2>1, <2>3, <1>1 DEF TipoIo
  <2>5. Posicion(p) # 0 => Posicion(p) \in DOMAIN s /\ s[Posicion(p)] = p
    <3>1. Contains(s, p) => \E k \in DOMAIN s : s[k] = p
      BY DEF Contains
    <3> QED BY <2>3, <3>1 DEF Posicion
  <2> QED BY <2>1, <2>2, <2>3, <2>4, <2>5 DEF BusquedaVigente
<1>13. ASSUME NEW i \in Interfaces, BlockAReady(i) PROVE BusquedaVigente'
  <2>1. pc[i] = "mueve" /\ pc' = [pc EXCEPT ![i] = "anota"]
    BY <1>13 DEF BlockAReady, Ir
  <2>2. \A j \in Interfaces : pc'[j] # "mueve"
    BY <2>1, <1>1, SonHilos DEF BusquedaVigente
  <2> QED BY <2>2 DEF BusquedaVigente
<1>14. CASE \E h \in Hilos : Pausar(h)
  <2>1. PICK h \in Hilos : Pausar(h)
    BY <1>14
  <2>2. Igual /\ Quietos
    BY <2>1, <1>1, SonHilos DEF Pausar, Detenerse, Dormirse, Ir, colas, dispositivos
  <2> QED BY <2>2, <1>2
<1>15. CASE UNCHANGED vars
  BY <1>15, <1>2 DEF vars, colas, dispositivos
<1> QED BY <1>3, <1>4, <1>5, <1>6, <1>7, <1>8, <1>9, <1>10, <1>11, <1>12, <1>13, <1>14, <1>15
        DEF Next, AtenderIO

(***************************************************************************)
(* The theorems.                                                           *)
(***************************************************************************)
\* The inductive invariant holds in the initial states.
LEMMA InicioCumple == Init => IInv /\ SiBusca
<1> SUFFICES ASSUME Init PROVE IInv /\ SiBusca
  OBVIOUS
<1>1. /\ \A h \in Hilos : pc[h] = "inicio" /\ ~EnTransicion(h)
      /\ cola = [c \in Colas |-> <<>>] /\ pcb_en_ejecucion = Nulo /\ cpu.fase = "libre"
      /\ \A c \in Colas : list_size(c) = 0
      /\ SinAvisar = {}
  BY SonHilos DEF SinAvisar, Init, EnTransicion, EnPausa, list_size, CpuLibre
<1>2. /\ sem \in [Semaforos -> Nat]
      /\ sem["cpu_libre"] = 1 /\ sem["sem_reloj_destruido"] = 1
      /\ sem["grado_de_multiprogramacion"] = GradoMax
      /\ \A s \in Semaforos \ {"cpu_libre", "sem_reloj_destruido", "grado_de_multiprogramacion"} :
           sem[s] = 0
  BY GradoAssumption DEF Init, Semaforos
<1>3. \A h \in Hilos : "inicio" \in PuntosDe(h)
  BY HilosDistintos DEF Hilos, HilosKernel
<1>4. /\ transicion \in [Hilos -> Transiciones \cup {Nulo}]
      /\ \A h \in Hilos : transicion[h] # "blocked_a_readyPlus"
  BY NuloAssumption DEF Init, Transiciones
<1>5. TypeOK
  <2>1. TipoProcesos
    BY DEF Init, TipoProcesos, Estados
  <2>2. TipoSemaforos
    <3>1. ordenes \in 0..MaxOrdenes
      BY CotasAssumption DEF Init
    <3> QED BY <1>2, <3>1 DEF Init, TipoSemaforos
  <2>3. TipoHilos
    BY <1>3, <1>4 DEF Init, TipoHilos, Puntos
  <2>4. TipoCpu
    <3>1. cpu \in [fase : {"libre", "calcula", "bloqueante", "devuelto"},
                   pid : Pids \cup {Nulo}, motivo : Motivos \cup {Nulo}]
      BY DEF Init, CpuLibre
    <3>2. interrupciones \in Seq(Pids)
      BY DEF Init
    <3>3. falla \in BOOLEAN
      BY DEF Init
    <3> QED BY <3>1, <3>2, <3>3, Zenon DEF TipoCpu
  <2>5. TipoInterfaces
    BY DEF Init, TipoInterfaces
  <2> QED BY <2>1, <2>2, <2>3, <2>4, <2>5 DEF TypeOK
<1>6. SoloVRR
  BY <1>1, <1>4 DEF SoloVRR, Colas
<1>7. SemaforosFieles /\ CpuExclusiva /\ GradoSiBusca /\ UnSoloQuantum
  <2>1. Cardinality(SinAvisar) = 0
    BY <1>1, FS_EmptySet
  <2> QED BY <1>1, <1>2, <2>1, SonHilos, GradoAssumption
          DEF SemaforosFieles, CpuExclusiva, GradoSiBusca, GradoConservado, UnSoloQuantum, Uno,
              Colas, Semaforos
<1>8. SiBusca
  BY <1>1, SonHilos DEF SiBusca, BusquedaVigente
<1> QED BY <1>5, <1>6, <1>7, <1>8 DEF IInv

\* Every step keeps the inductive invariant.
LEMMA PasoCumple == IInv /\ SiBusca /\ [Next]_vars => IInv' /\ SiBusca'
<1> SUFFICES ASSUME IInv, SiBusca, [Next]_vars PROVE IInv'
  BY BusquedaSeMantiene
<1>1. CASE Consola
  BY <1>1, PasoIniciarProceso, PasoDetener, PasoIniciarPlanificacion DEF Consola
<1>2. CASE PlanificadorLargo
  BY <1>2, PasoLargoEsperaNew, PasoLargoEsperaGrado, PasoNewAReady, PasoNewAReadyAnota
     DEF PlanificadorLargo
<1>3. CASE PlanificadorCorto
  BY <1>3, PasoCortoEsperaCpu, PasoCortoEsperaReady, PasoReadyAExec, PasoCortoEsperaReloj,
     PasoEnviarCdeACpu DEF PlanificadorCorto
<1>4. CASE Reloj
  BY <1>4, PasoRelojInicia, PasoRelojVence, PasoRelojTermina, PasoMuere DEF Reloj, RelojNulo
<1>5. CASE Cpu
  BY <1>5, PasoCpu
<1>6. CASE AtenderCpu
  BY <1>6, PasoCdeRecibe, PasoCdeIO, PasoCdeEncola, PasoCdeDespacha, PasoCdeEsperaExec, PasoDejaExec,
     PasoExecABlock, PasoExecABlockAnota DEF AtenderCpu
<1>7. CASE TerminarProceso
  BY <1>7, PasoTerminarProceso
<1>8. ASSUME NEW i \in Interfaces, DispositivoTermina(i) \/ AtenderIO(i)
      PROVE  IInv'
  BY <1>8, PasoDispositivo, PasoIoRecibeLibre, PasoIoEsperaBlocked, PasoBlockAReadyBusca, PasoBlockAReady, PasoMuere,
     PasoBlockAReadyAnota,
     PasoIoLibera, PasoIoSiguiente DEF AtenderIO, BlockAReadyNulo
<1>9. CASE \E h \in Hilos : Pausar(h)
  BY <1>9, PasoPausar
<1>10. CASE UNCHANGED vars
  <2>1. /\ TypeOK' /\ SoloVRR'
        /\ UNCHANGED <<sem, cola, pcb_en_ejecucion, cpu, pc>>
    BY <1>10 DEF vars, colas, pausas, dispositivos, IInv, TypeOK, TipoProcesos, TipoSemaforos,
                 TipoHilos, locales, TipoCpu, TipoInterfaces, SoloVRR
  <2> QED BY <2>1, Marco DEF EnTransicion, SinAvisar
<1> QED BY <1>1, <1>2, <1>3, <1>4, <1>5, <1>6, <1>7, <1>8, <1>9, <1>10 DEF Next

\* The inductive invariant holds in every state of every behaviour.
THEOREM Invariante == Spec => [](IInv /\ SiBusca)
BY InicioCumple, PasoCumple, PTL DEF Spec

\* Every variable keeps its type; so no semaphore of the Kernel is ever
\* negative and no thread leaves its own code.
THEOREM TiposCorrectos == Spec => []TypeOK
<1>1. IInv => TypeOK
  BY DEF IInv
<1> QED BY <1>1, Invariante, PTL

\* The semaphores of the queues count them: no thread ever takes a PCB out of
\* an empty queue, and no PCB waits in a queue that nobody was woken for.
THEOREM SemaforosCuentan == Spec => []SemaforosFieles
<1>1. IInv => SemaforosFieles
  BY DEF IInv
<1> QED BY <1>1, Invariante, PTL

\* The processor has one owner at a time, and what travels between the
\* Kernel and the CPU is always the context of pcb_en_ejecucion.
THEOREM CpuDeUno == Spec => []CpuExclusiva
<1>1. IInv => CpuExclusiva
  BY DEF IInv
<1> QED BY <1>1, Invariante, PTL

\* The processes in READY, EXEC and BLOCKED never exceed the degree of
\* multiprogramming, and no place of it is ever lost; with one interface, or
\* with several while no removal comes between a search and its removal.
THEOREM GradoSeConserva == BusquedaSola => (Spec => []GradoConservado)
<1> SUFFICES ASSUME BusquedaSola PROVE Spec => []GradoConservado
  OBVIOUS
<1>1. IInv => GradoConservado
  BY DEF IInv, GradoSiBusca
<1> QED BY <1>1, Invariante, PTL

\* The quantum cycle of a process begins after the previous one ended.
THEOREM QuantumDeUno == Spec => []UnSoloQuantum
<1>1. IInv => UnSoloQuantum
  BY DEF IInv
<1> QED BY <1>1, Invariante, PTL

=============================================================================
