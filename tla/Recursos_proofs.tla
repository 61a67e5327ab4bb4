--------------------------- MODULE Recursos_proofs ---------------------------
(***************************************************************************)
(* Theorems about Recursos, for any programs, resources and commands, when *)
(* a command of the console is served whole before anything else happens   *)
(* (~CarreraConsola) but for a console that hangs: the types, what the     *)
(* semaphores of the queues and the degree of multiprogramming count, no   *)
(* NULL PCB is used, nobody sleeps for nothing or is woken twice, and the  *)
(* resources are counting semaphores with a queue.  Each access of a       *)
(* command to what the threads share is still a step of its own, and the   *)
(* invariant says what holds between two of them.                          *)
(***************************************************************************)
EXTENDS Recursos, Secuencias_lemas

(***************************************************************************)
(* The invariant.                                                          *)
(***************************************************************************)
\* Where each thread may be, and what it has in its hands there.
Hilada ==
  /\ pc["largo"] \in {"inicio", "grado"}
  /\ pc["corto"] \in {"inicio", "ready", "exec"}
  /\ pc["cde"] \in {"inicio", "despierta", "responde"}
  /\ pc["consola"] \in {"inicio", "libera", "despierta", "retira", "espera", "quita", "finaliza",
                        "avisa", "escribe", "suma"}
  /\ \A h \in {"cde", "consola"} : pc[h] = "despierta" => despertado[h] \in Pids
  /\ pc["consola"] \in {"inicio", "escribe", "suma"} <=> pcb_a_liberar = Nulo
  /\ pc["consola"] \in {"libera", "despierta"} => indice > 0
  /\ pc["cde"] # "inicio" => cpu.fase = "pide"
  /\ cpu.fase = "libre" <=> pcb_en_ejecucion = Nulo

Uno(b) == IF b THEN 1 ELSE 0

\* The token of the CPU is free, taken by the short-term scheduler, or its
\* process is in the CPU.
CpuDeUno == sem["cpu_libre"] + Uno(pc["corto"] \in {"ready", "exec"}) + Uno(cpu.fase # "libre") = 1

\* The processes the console may still give orders about; the one it took out
\* of its queue is not one of them, though its estado says it is there.
Retirado == IF pc["consola"] \in {"finaliza", "avisa"} THEN {pcb_a_liberar} ELSE {}
Conocidos == (procesos_globales \cup ({pcb_a_liberar} \ {Nulo})) \ Retirado

\* Where the console has nothing half done with a queue or the degree.
Corrientes == {"inicio", "libera", "despierta", "retira", "espera", "escribe"}
MitadesIguales ==
  /\ \A e \in {"NEW", "READY", "BLOCKED"} : Tomada(e)' = Tomada(e)
  /\ PorAvisar' = PorAvisar /\ PorLiberar' = PorLiberar
  /\ pc'["consola"] = "suma" <=> pc["consola"] = "suma"

\* The queue c has the processes in state e, once each: all of them but those
\* that the console ended, whose state nobody changes.
EnCola(c, e) ==
  /\ IsInjective(cola[c])
  /\ \A p \in ToSet(cola[c]) : estado[p] = e
  /\ \A p \in Conocidos : estado[p] = e => p \in ToSet(cola[c])

Lugar ==
  /\ EnCola("New", "NEW") /\ EnCola("Ready", "READY") /\ EnCola("Bloqueados", "BLOCKED")
  /\ pcb_en_ejecucion # Nulo => estado[pcb_en_ejecucion] = "EXEC"

Cuentas ==
  /\ CpuDeUno /\ SemaforosFieles /\ Lugar
  /\ BajaDelGrado \/ GradoConservado

\* A Kernel with falla takes no more steps, and its last one may have broken
\* a count.
RInv == TypeOK /\ Hilada /\ (falla \/ Cuentas)

\* What holds because a command is served whole. Nobody is half way through a
\* request while the console works or its INTERRUPT is to be read;
Trabaja ==
  /\ pc["consola"] \in {"libera", "despierta", "retira", "espera", "quita", "finaliza", "avisa"}
  /\ ~Colgada
Quieto ==
  Trabaja \/ interrupciones # {} =>
    pc["cde"] = "inicio" /\ pc["corto"] # "exec" /\ cpu.fase \in {"libre", "corre"}

\* the process does not move under a console that is not hung, and only the
\* token of NEW can be missing;
Retirando ==
  /\ pc["consola"] \in {"espera", "quita", "finaliza", "avisa"} => caso \in {"NEW", "READY", "BLOCKED"}
  /\ pc["consola"] = "espera" /\ Colgada => caso = "NEW"
  /\ \/ pc["consola"] = "espera" /\ ~Colgada
     \/ pc["consola"] \in {"quita", "finaliza", "avisa"}
     => estado[pcb_a_liberar] = caso

\* and nobody waits or posts between the read of the degree and its sem_post.
Escribiendo ==
  /\ pc["consola"] = "escribe" =>
       leido = grado_a_asignar - grado_max + sem["grado_de_multiprogramacion"] - 1
  /\ pc["consola"] \in {"escribe", "suma"} =>
       grado_a_asignar \in GradosPedidos /\ (BajaDelGrado \/ leido >= -1)
  /\ pc["consola"] = "suma" =>
       /\ sem["grado_de_multiprogramacion"] = leido % ModSem
       /\ BajaDelGrado \/ leido + 1 + EnMemoria = grado_a_asignar

Servida == Quieto /\ Retirando /\ Escribiendo

(***************************************************************************)
(* Semaphores.                                                             *)
(***************************************************************************)
\* sem_wait takes a token of a semaphore that had one.
LEMMA SemEspera ==
  ASSUME TypeOK, NEW s \in Semaforos, Espera(s)
  PROVE  /\ sem' \in [Semaforos -> Nat] /\ sem[s] > 0
         /\ \A x \in Semaforos : sem[x] \in Nat /\ sem'[x] = IF x = s THEN sem[x] - 1 ELSE sem[x]
BY DEF Espera, TypeOK, TipoPlanif

\* sem_post gives a token to each of them.
LEMMA SemPost ==
  ASSUME TypeOK, NEW S, Post(S)
  PROVE  /\ sem' \in [Semaforos -> Nat]
         /\ \A x \in Semaforos : sem[x] \in Nat /\ sem'[x] = IF x \in S THEN sem[x] + 1 ELSE sem[x]
BY DEF Post, TypeOK, TipoPlanif

\* A wait and the posts that follow it.
LEMMA SemEsperaYPost ==
  ASSUME TypeOK, NEW s \in Semaforos, NEW S, EsperaYPost(s, S)
  PROVE  /\ sem' \in [Semaforos -> Nat] /\ sem[s] > 0
         /\ \A x \in Semaforos :
              /\ sem[x] \in Nat
              /\ sem'[x] = sem[x] - (IF x = s THEN 1 ELSE 0) + (IF x \in S THEN 1 ELSE 0)
<1>1. \A x \in Semaforos : sem[x] \in Nat
  BY DEF TypeOK, TipoPlanif
<1>2. /\ sem[s] > 0
      /\ sem' = [x \in Semaforos |-> sem[x] - (IF x = s THEN 1 ELSE 0) + (IF x \in S THEN 1 ELSE 0)]
  BY DEF EsperaYPost
<1>3. \A x \in Semaforos :
        /\ sem'[x] = sem[x] - (IF x = s THEN 1 ELSE 0) + (IF x \in S THEN 1 ELSE 0)
        /\ sem'[x] \in Nat
  BY <1>1, <1>2
<1>4. sem' \in [Semaforos -> Nat]
  BY <1>2, <1>3
<1> QED BY <1>1, <1>2, <1>3, <1>4

\* The names of the semaphores, and those that do not change when a step says
\* nothing of them.
LEMMA SonSemaforos ==
  /\ "cpu_libre" \in Semaforos /\ "procesos_en_new" \in Semaforos
  /\ "procesos_en_ready" \in Semaforos /\ "procesos_en_blocked" \in Semaforos
  /\ "procesos_en_exit" \in Semaforos /\ "cpu_debe_retornar" \in Semaforos
  /\ "grado_de_multiprogramacion" \in Semaforos
BY DEF Semaforos

(***************************************************************************)
(* Queues.                                                                 *)
(***************************************************************************)
\* The queues, their lengths, and the tokens are numbers.
LEMMA Numeros ==
  ASSUME TypeOK
  PROVE  /\ \A c \in Colas : cola[c] \in Seq(Pids) /\ Len(cola[c]) \in Nat
         /\ Len(cola["New"]) \in Nat /\ Len(cola["Ready"]) \in Nat
         /\ Len(cola["Bloqueados"]) \in Nat /\ Len(cola["Finalizados"]) \in Nat
         /\ EnMemoria \in Nat
         /\ {"New", "Ready", "Bloqueados", "Finalizados"} = Colas
         /\ \A s \in Semaforos : sem[s] \in Nat
         /\ grado_max \in Nat
<1>1. \A c \in Colas : cola[c] \in Seq(Pids) /\ Len(cola[c]) \in Nat
  BY DEF TypeOK, TipoPlanif
<1>2. /\ Len(cola["New"]) \in Nat /\ Len(cola["Ready"]) \in Nat
      /\ Len(cola["Bloqueados"]) \in Nat /\ Len(cola["Finalizados"]) \in Nat
  BY <1>1 DEF Colas
<1>3. EnMemoria \in Nat
  <2>1. \A a, b \in Nat : a + b + (IF pcb_en_ejecucion = Nulo THEN 0 ELSE 1) \in Nat
    OBVIOUS
  <2> QED BY <1>2, <2>1, Zenon DEF EnMemoria
<1>4. {"New", "Ready", "Bloqueados", "Finalizados"} = Colas
  BY DEF Colas
<1>5. (\A s \in Semaforos : sem[s] \in Nat) /\ grado_max \in Nat
  BY DEF TypeOK, TipoPlanif
<1> QED BY <1>1, <1>2, <1>3, <1>4, <1>5

\* The same of the next state.
LEMMA NumerosDespues ==
  ASSUME TypeOK'
  PROVE  EnMemoria' \in Nat
<1>1. /\ Len(cola'["Ready"]) \in Nat /\ Len(cola'["Bloqueados"]) \in Nat
  BY DEF TypeOK, TipoPlanif, Colas
<1>2. \A a, b \in Nat : a + b + (IF pcb_en_ejecucion' = Nulo THEN 0 ELSE 1) \in Nat
  OBVIOUS
<1> QED BY <1>1, <1>2, Zenon DEF EnMemoria

\* A queue the step leaves alone, if nobody comes to its state or leaves it.
LEMMA ColaAjena ==
  ASSUME NEW c, NEW e, EnCola(c, e), cola'[c] = cola[c],
         \A p \in ToSet(cola[c]) : estado'[p] = e,
         \A p \in Conocidos' : estado'[p] = e => p \in Conocidos /\ estado[p] = e
  PROVE  EnCola(c, e)'
BY DEF EnCola

\* A process that comes, with its new state.
LEMMA ColaEntra ==
  ASSUME NEW c, NEW e, EnCola(c, e), cola[c] \in Seq(Pids), NEW p \in Pids,
         cola'[c] = Append(cola[c], p), estado[p] # e, estado'[p] = e,
         \A q \in Pids \ {p} : estado'[q] = estado[q],
         Conocidos' \subseteq Pids, Conocidos' \subseteq Conocidos \cup {p}
  PROVE  EnCola(c, e)'
<1>1. p \notin ToSet(cola[c])
  BY DEF EnCola
<1>2. /\ ToSet(Append(cola[c], p)) = ToSet(cola[c]) \cup {p}
      /\ IsInjective(Append(cola[c], p))
  BY <1>1, ElementosAgrega DEF EnCola
<1>3. ToSet(cola[c]) \subseteq Pids
  BY Elementos
<1>4. \A q \in ToSet(cola'[c]) : estado'[q] = e
  BY <1>1, <1>2, <1>3 DEF EnCola
<1>5. \A q \in Conocidos' : estado'[q] = e => q \in ToSet(cola'[c])
  <2> SUFFICES ASSUME NEW q \in Conocidos', estado'[q] = e, q # p PROVE q \in ToSet(cola'[c])
    BY <1>2
  <2>1. q \in Pids /\ q \in Conocidos /\ estado[q] = e
    OBVIOUS
  <2> QED BY <1>2, <2>1 DEF EnCola
<1> QED BY <1>2, <1>4, <1>5 DEF EnCola

\* A process that goes: to another state, or to be forgotten.
LEMMA ColaSale ==
  ASSUME NEW c, NEW e, EnCola(c, e), NEW p \in Pids,
         IsInjective(cola'[c]), ToSet(cola'[c]) = ToSet(cola[c]) \ {p},
         estado'[p] # e \/ p \notin Conocidos',
         \A q \in ToSet(cola[c]) \ {p} : estado'[q] = e,
         \A q \in Conocidos' \ {p} : estado'[q] = e => q \in Conocidos /\ estado[q] = e
  PROVE  EnCola(c, e)'
BY DEF EnCola

(***************************************************************************)
(* Threads and CPU.                                                        *)
(***************************************************************************)
\* What the console has half done changes only in its own steps, and in few.
LEMMA Mitades ==
  ASSUME \/ pc'["consola"] = pc["consola"] /\ caso' = caso
         \/ pc["consola"] \in Corrientes /\ pc'["consola"] \in Corrientes
  PROVE  MitadesIguales
<1>1. CASE pc'["consola"] = pc["consola"] /\ caso' = caso
  BY <1>1 DEF MitadesIguales, Tomada, PorAvisar, PorLiberar
<1>2. CASE pc["consola"] \in Corrientes /\ pc'["consola"] \in Corrientes
  BY <1>2 DEF MitadesIguales, Corrientes, Tomada, PorAvisar, PorLiberar
<1> QED BY <1>1, <1>2

LEMMA ConsolaQuieta ==
  ASSUME pc'["consola"] = pc["consola"], UNCHANGED mandos
  PROVE  MitadesIguales /\ Retirado' = Retirado
BY Mitades DEF Retirado, mandos

LEMMA TomadasIguales ==
  ASSUME MitadesIguales
  PROVE  /\ Tomada("NEW")' = Tomada("NEW") /\ Tomada("READY")' = Tomada("READY")
         /\ Tomada("BLOCKED")' = Tomada("BLOCKED") /\ PorAvisar' = PorAvisar
BY DEF MitadesIguales

LEMMA MitadesNumeros ==
  /\ Tomada("NEW") \in Nat /\ Tomada("READY") \in Nat /\ Tomada("BLOCKED") \in Nat
  /\ PorAvisar \in Nat /\ PorLiberar \in Nat
BY DEF Tomada, PorAvisar, PorLiberar

\* A thread moves to a point, and the others stay where they are.
LEMMA PcMueve ==
  ASSUME TypeOK, NEW h \in Hilos, NEW v \in Puntos, pc' = [pc EXCEPT ![h] = v]
  PROVE  /\ pc' \in [Hilos -> Puntos] /\ pc'[h] = v
         /\ \A g \in Hilos \ {h} : pc'[g] = pc[g]
BY DEF TypeOK, TipoHilos

LEMMA SonHilos ==
  /\ "largo" \in Hilos /\ "corto" \in Hilos /\ "cde" \in Hilos /\ "consola" \in Hilos
  /\ \A v \in {"inicio", "grado", "ready", "exec", "despierta", "responde", "libera", "retira",
              "espera", "quita", "finaliza", "avisa", "escribe", "suma"} :
       v \in Puntos
BY DEF Hilos, Puntos

\* What an assignment to a field does to the others.
LEMMA CpuPasa ==
  ASSUME NEW c \in EstadosCpu, NEW f \in {"libre", "corre", "pide", "sale", "devuelto"},
         NEW d, d = [c EXCEPT !.fase = f]
  PROVE  d \in EstadosCpu /\ d.fase = f /\ d.motivo = c.motivo
BY DEF EstadosCpu

LEMMA CpuGasta ==
  ASSUME NEW c \in EstadosCpu, NEW d, d = [c EXCEPT !.vence = TRUE]
  PROVE  d \in EstadosCpu /\ d.fase = c.fase /\ d.motivo = c.motivo
BY DEF EstadosCpu

LEMMA CpuPide ==
  ASSUME NEW c \in EstadosCpu, NEW d, d = [c EXCEPT !.fase = "pide", !.vence = FALSE]
  PROVE  d \in EstadosCpu /\ d.fase = "pide" /\ d.motivo = c.motivo
BY DEF EstadosCpu

LEMMA CpuSinNadie ==
  /\ CpuLibre \in EstadosCpu /\ CpuLibre.fase = "libre" /\ CpuLibre.motivo = Nulo
  /\ [CpuLibre EXCEPT !.fase = "corre"] \in EstadosCpu
  /\ [CpuLibre EXCEPT !.fase = "corre"].fase = "corre"
  /\ [CpuLibre EXCEPT !.fase = "corre"].motivo = Nulo
BY DEF CpuLibre, EstadosCpu

\* The answer to a request sends the CPU on, or makes the process leave.
LEMMA CpuRespuesta ==
  ASSUME TypeOK, NEW m \in {Nulo, "RECURSO_INVALIDO", "RECURSO_NO_DISPONIBLE"}, Respuesta(m)
  PROVE  /\ cpu' \in EstadosCpu
         /\ cpu'.fase = IF m = Nulo THEN "corre" ELSE "sale"
         /\ cpu'.motivo = IF m = Nulo THEN cpu.motivo ELSE m
<1>1. cpu \in EstadosCpu /\ m \in Motivos \cup {Nulo}
  BY DEF TypeOK, TipoMaquina, Motivos
<1>2. CASE m = Nulo
  <2>1. cpu' = [cpu EXCEPT !.fase = "corre"]
    BY <1>2 DEF Respuesta
  <2>2. cpu' \in EstadosCpu /\ cpu'.fase = "corre" /\ cpu'.motivo = cpu.motivo
    BY <1>1, <2>1, CpuPasa
  <2> QED BY <1>2, <2>2
<1>3. CASE m # Nulo
  <2>1. cpu' = [cpu EXCEPT !.fase = "sale", !.motivo = m]
    BY <1>3 DEF Respuesta
  <2>2. cpu' \in EstadosCpu /\ cpu'.fase = "sale" /\ cpu'.motivo = m
    BY <1>1, <2>1 DEF EstadosCpu
  <2> QED BY <1>3, <2>2
<1> QED BY <1>2, <1>3

\* A step that moves no process, no token that is counted, and neither of the
\* schedulers.
LEMMA Marco ==
  ASSUME RInv, ~falla, TypeOK', Hilada',
         cola' = cola, estado' = estado, pcb_en_ejecucion' = pcb_en_ejecucion,
         grado_max' = grado_max,
         \A s \in Semaforos \ {"cpu_debe_retornar"} : sem'[s] = sem[s],
         pc'["largo"] = pc["largo"], pc'["corto"] = pc["corto"],
         cpu'.fase = "libre" <=> cpu.fase = "libre",
         Conocidos' \subseteq Conocidos, MitadesIguales
  PROVE  RInv'
<1>1. Cuentas
  BY DEF RInv
<1>2. CpuDeUno'
  BY <1>1, SonSemaforos DEF Cuentas, CpuDeUno, Uno
<1>3. SemaforosFieles'
  BY <1>1, SonSemaforos DEF Cuentas, SemaforosFieles, MitadesIguales
<1>4. GradoConservado <=> GradoConservado'
  BY SonSemaforos DEF GradoConservado, EnMemoria, MitadesIguales
<1>5. Lugar'
  BY <1>1 DEF Cuentas, Lugar, EnCola
<1> QED BY <1>1, <1>2, <1>3, <1>4, <1>5 DEF RInv, Cuentas

\* What comes to a queue or leaves it is matched by its semaphore and by the
\* token a scheduler holds.
LEMMA MueveCuentas ==
  ASSUME TypeOK, TypeOK', SemaforosFieles, MitadesIguales,
         NEW n \in Int, NEW r \in Int, NEW b \in Int, NEW x \in Int,
         Len(cola'["New"]) = Len(cola["New"]) + n,
         Len(cola'["Ready"]) = Len(cola["Ready"]) + r,
         Len(cola'["Bloqueados"]) = Len(cola["Bloqueados"]) + b,
         Len(cola'["Finalizados"]) = Len(cola["Finalizados"]) + x,
         sem'["procesos_en_new"] + Uno(pc'["largo"] = "grado")
           = sem["procesos_en_new"] + Uno(pc["largo"] = "grado") + n,
         sem'["procesos_en_ready"] + Uno(pc'["corto"] = "exec")
           = sem["procesos_en_ready"] + Uno(pc["corto"] = "exec") + r,
         sem'["procesos_en_blocked"] = sem["procesos_en_blocked"] + b,
         sem'["procesos_en_exit"] = sem["procesos_en_exit"] + x
  PROVE  SemaforosFieles'
<1>1. /\ Tomada("NEW")' = Tomada("NEW") /\ Tomada("READY")' = Tomada("READY")
      /\ Tomada("BLOCKED")' = Tomada("BLOCKED") /\ PorAvisar' = PorAvisar
  BY TomadasIguales
<1>2. /\ Len(cola["New"]) = sem["procesos_en_new"] + Uno(pc["largo"] = "grado") + Tomada("NEW")
      /\ Len(cola["Ready"]) = sem["procesos_en_ready"] + Uno(pc["corto"] = "exec") + Tomada("READY")
      /\ Len(cola["Bloqueados"]) = sem["procesos_en_blocked"] + Tomada("BLOCKED")
      /\ Len(cola["Finalizados"]) = sem["procesos_en_exit"] + PorAvisar
  BY Zenon DEF SemaforosFieles, Uno
<1>3. /\ sem["procesos_en_new"] \in Nat /\ sem["procesos_en_ready"] \in Nat
      /\ sem["procesos_en_blocked"] \in Nat /\ sem["procesos_en_exit"] \in Nat
      /\ sem'["procesos_en_new"] \in Nat /\ sem'["procesos_en_ready"] \in Nat
  BY SonSemaforos DEF TypeOK, TipoPlanif
<1>4. PICK u \in Nat, v \in Nat, w \in Nat, z \in Nat :
        /\ u = Uno(pc["largo"] = "grado") /\ v = Uno(pc["corto"] = "exec")
        /\ w = Uno(pc'["largo"] = "grado") /\ z = Uno(pc'["corto"] = "exec")
  BY DEF Uno
<1>5. PICK k \in Nat, l \in Nat, h \in Nat, j \in Nat :
        k = Tomada("NEW") /\ l = Tomada("READY") /\ h = Tomada("BLOCKED") /\ j = PorAvisar
  BY MitadesNumeros
<1>6. PICK s1 \in Nat, s2 \in Nat, s3 \in Nat, s4 \in Nat, t1 \in Nat, t2 \in Nat :
        /\ s1 = sem["procesos_en_new"] /\ s2 = sem["procesos_en_ready"]
        /\ s3 = sem["procesos_en_blocked"] /\ s4 = sem["procesos_en_exit"]
        /\ t1 = sem'["procesos_en_new"] /\ t2 = sem'["procesos_en_ready"]
  BY <1>3, Zenon
<1>7. /\ Len(cola'["New"]) = (s1 + u + k) + n /\ t1 + w = s1 + u + n
      /\ Len(cola'["Ready"]) = (s2 + v + l) + r /\ t2 + z = s2 + v + r
      /\ Len(cola'["Bloqueados"]) = (s3 + h) + b
      /\ Len(cola'["Finalizados"]) = (s4 + j) + x
  BY <1>2, <1>4, <1>5, <1>6, Zenon
<1>8. /\ (s1 + u + k) + n = (s1 + u + n) + k /\ (s2 + v + l) + r = (s2 + v + r) + l
      /\ (s3 + h) + b = (s3 + b) + h /\ (s4 + j) + x = (s4 + x) + j
  OBVIOUS
<1>9. /\ Len(cola'["New"]) = t1 + w + k /\ Len(cola'["Ready"]) = t2 + z + l
      /\ Len(cola'["Bloqueados"]) = (s3 + b) + h /\ Len(cola'["Finalizados"]) = (s4 + x) + j
  BY <1>7, <1>8, Zenon
<1>10. /\ Len(cola'["New"]) = sem'["procesos_en_new"] + Uno(pc'["largo"] = "grado") + Tomada("NEW")'
       /\ Len(cola'["Ready"]) = sem'["procesos_en_ready"] + Uno(pc'["corto"] = "exec") + Tomada("READY")'
  BY <1>1, <1>4, <1>5, <1>6, <1>9, Zenon
<1>11. /\ Len(cola'["Bloqueados"]) = sem'["procesos_en_blocked"] + Tomada("BLOCKED")'
       /\ Len(cola'["Finalizados"]) = sem'["procesos_en_exit"] + PorAvisar'
  BY <1>1, <1>5, <1>6, <1>9, Zenon
<1> QED BY <1>10, <1>11, Zenon DEF SemaforosFieles, Uno

\* Who comes to the memory takes a place of the degree.
LEMMA MueveGrado ==
  ASSUME TypeOK, TypeOK', MitadesIguales, NEW m \in Int, EnMemoria' = EnMemoria + m,
         sem["grado_de_multiprogramacion"] = sem'["grado_de_multiprogramacion"] + m,
         grado_max' = grado_max
  PROVE  GradoConservado => GradoConservado'
<1>1. /\ sem["grado_de_multiprogramacion"] \in Nat /\ sem'["grado_de_multiprogramacion"] \in Nat
      /\ EnMemoria \in Nat /\ PorLiberar \in Nat
  BY Numeros, MitadesNumeros, SonSemaforos DEF TypeOK, TipoPlanif
<1>2. \A a, e, k \in Nat : (a + m) + e + k = a + (e + m) + k
  OBVIOUS
<1>3. sem["grado_de_multiprogramacion"] + EnMemoria + PorLiberar
        = sem'["grado_de_multiprogramacion"] + EnMemoria' + PorLiberar
  BY <1>1, <1>2
<1>4. PorLiberar' = PorLiberar /\ (pc'["consola"] = "suma" <=> pc["consola"] = "suma")
  BY DEF MitadesIguales
<1> QED BY <1>3, <1>4, Zenon DEF GradoConservado

(***************************************************************************)
(* One lemma per action.                                                   *)
(***************************************************************************)
LEMMA PasoFinalizarProceso == ASSUME RInv, ~falla, FinalizarProceso PROVE RInv'
<1>1. PICK p \in procesos_globales :
        /\ ordenes < MaxOrdenes /\ pc["consola"] = "inicio"
        /\ pc' = [pc EXCEPT !["consola"] = "libera"]
        /\ pcb_a_liberar' = p /\ indice' = 1 /\ ordenes' = ordenes + 1
        /\ UNCHANGED <<procesos, planif, recursos, despertado, caso, grado_a_asignar, leido, maquina,
                       falla>>
  BY DEF FinalizarProceso, Ir
<1>2. p \in Pids /\ p # Nulo
  BY NuloAssumption DEF RInv, TypeOK, TipoProcesos
<1>3. /\ pc' \in [Hilos -> Puntos] /\ pc'["consola"] = "libera"
      /\ \A g \in Hilos \ {"consola"} : pc'[g] = pc[g]
  BY <1>1, SonHilos, PcMueve DEF RInv
<1>4. TypeOK'
  <2>1. ordenes' \in 0..MaxOrdenes
    BY <1>1, CotasAssumption DEF RInv, TypeOK, TipoHilos
  <2>2. TipoHilos'
    BY <1>1, <1>2, <1>3, <2>1 DEF RInv, TypeOK, TipoHilos
  <2> QED BY <1>1, <2>2
          DEF RInv, TypeOK, TipoProcesos, TipoPlanif, TipoRecursos, TipoMaquina,
              procesos, planif, recursos, maquina
<1>5. Hilada'
  BY <1>1, <1>2, <1>3, SonHilos DEF RInv, Hilada, procesos, planif, maquina
<1>6. Conocidos' \subseteq Conocidos
  BY <1>1, <1>3 DEF Conocidos, Retirado, procesos
<1>7. MitadesIguales
  BY <1>1, <1>3, Mitades DEF Corrientes
<1> QED BY <1>1, <1>3, <1>4, <1>5, <1>6, <1>7, Marco, SonHilos DEF procesos, planif, maquina

\* The resource that is given back is one the process has, and who waits for
\* it a process.
LEMMA PasoLiberaRecurso == ASSUME RInv, ~falla, LiberaRecurso PROVE RInv'
<1> DEFINE p == pcb_a_liberar
           r == recursos_asignados[p][indice]
           q == Siguiente(r)
<1>1. /\ pc["consola"] = "libera" /\ indice <= Len(recursos_asignados[p])
      /\ indice' = indice + 1
      /\ UNCHANGED <<procesos, planif, recursos_solicitados, pcb_a_liberar, caso, grado_a_asignar,
                     leido, ordenes, maquina, falla>>
      /\ \/ /\ instancias' = [instancias EXCEPT ![r] = @ + 1]
            /\ UNCHANGED <<procesos_bloqueados, recursos_asignados, despertado, pc>>
         \/ /\ AlguienEspera(r)
            /\ procesos_bloqueados' = [procesos_bloqueados EXCEPT ![r] = Quitar(@, q)]
            /\ recursos_asignados' = [recursos_asignados EXCEPT ![q] = Append(@, r)]
            /\ despertado' = [despertado EXCEPT !["consola"] = q]
            /\ pc' = [pc EXCEPT !["consola"] = "despierta"]
            /\ instancias' = instancias
  BY DEF LiberaRecurso, Cedida
<1>2. p \in Pids /\ indice \in Nat \ {0} /\ indice + 1 \in Nat \ {0}
  BY <1>1, NuloAssumption DEF RInv, TypeOK, TipoHilos, Hilada
<1>3. r \in Recursos
  <2>1. recursos_asignados[p] \in Seq(Recursos)
    BY <1>2 DEF RInv, TypeOK, TipoRecursos
  <2>2. indice \in 1..Len(recursos_asignados[p])
    BY <1>1, <1>2, <2>1
  <2> QED BY <2>1, <2>2
<1>4. ASSUME AlguienEspera(r)
      PROVE  q \in Pids /\ Quitar(procesos_bloqueados[r], q) \in Seq(Pids)
  <2>1. procesos_bloqueados[r] \in Seq(Pids) /\ procesos_bloqueados[r] # <<>>
    BY <1>3, <1>4 DEF RInv, TypeOK, TipoRecursos, AlguienEspera
  <2> QED BY <2>1, HeadTailProperties, ElementosSinPrimero DEF Siguiente, Quitar
<1> HIDE DEF r, q
<1>5. TipoRecursos'
  <2>1. CASE instancias' = [instancias EXCEPT ![r] = @ + 1] /\ UNCHANGED <<procesos_bloqueados, recursos_asignados>>
    BY <1>1, <1>3, <2>1 DEF RInv, TypeOK, TipoRecursos
  <2>2. CASE /\ AlguienEspera(r)
             /\ procesos_bloqueados' = [procesos_bloqueados EXCEPT ![r] = Quitar(@, q)]
             /\ recursos_asignados' = [recursos_asignados EXCEPT ![q] = Append(@, r)]
             /\ instancias' = instancias
    BY <1>1, <1>3, <1>4, <2>2 DEF RInv, TypeOK, TipoRecursos
  <2> QED BY <1>1, <2>1, <2>2
<1>6. \/ UNCHANGED <<despertado, pc>>
      \/ /\ q \in Pids
         /\ despertado' \in [{"cde", "consola"} -> Pids \cup {Nulo}] /\ despertado'["consola"] = q
         /\ despertado'["cde"] = despertado["cde"]
         /\ pc' \in [Hilos -> Puntos] /\ pc'["consola"] = "despierta"
         /\ \A g \in Hilos \ {"consola"} : pc'[g] = pc[g]
  <2>1. CASE /\ AlguienEspera(r) /\ despertado' = [despertado EXCEPT !["consola"] = q]
             /\ pc' = [pc EXCEPT !["consola"] = "despierta"]
    <3>1. /\ pc' \in [Hilos -> Puntos] /\ pc'["consola"] = "despierta"
          /\ \A g \in Hilos \ {"consola"} : pc'[g] = pc[g]
      BY <2>1, SonHilos, PcMueve DEF RInv
    <3> QED BY <1>4, <2>1, <3>1 DEF RInv, TypeOK, TipoHilos
  <2> QED BY <1>1, <2>1
<1>7. TypeOK'
  BY <1>1, <1>2, <1>5, <1>6
  DEF RInv, TypeOK, TipoProcesos, TipoPlanif, TipoHilos, TipoMaquina, procesos, planif, maquina
<1>8. Hilada'
  <2>1. CASE UNCHANGED <<despertado, pc>>
    BY <1>1, <1>2, <2>1 DEF RInv, Hilada, procesos, maquina
  <2>2. CASE /\ q \in Pids /\ despertado'["consola"] = q
             /\ despertado'["cde"] = despertado["cde"] /\ pc'["consola"] = "despierta"
             /\ \A g \in Hilos \ {"consola"} : pc'[g] = pc[g]
    BY <1>1, <1>2, <2>2, SonHilos, NuloAssumption DEF RInv, Hilada, procesos, maquina
  <2> QED BY <1>6, <2>1, <2>2
<1>9. Conocidos' \subseteq Conocidos
  BY <1>1, <1>6 DEF Conocidos, Retirado, procesos
<1>10. MitadesIguales
  BY <1>1, <1>6, Mitades DEF Corrientes
<1> QED BY <1>1, <1>6, <1>7, <1>8, <1>9, <1>10, Marco, SonHilos DEF procesos, planif, maquina

LEMMA PasoVaciaListas == ASSUME RInv, ~falla, VaciaListas PROVE RInv'
<1> DEFINE p == pcb_a_liberar
<1>1. /\ pc["consola"] = "libera" /\ pc' = [pc EXCEPT !["consola"] = "retira"]
      /\ recursos_asignados' = [recursos_asignados EXCEPT ![p] = <<>>]
      /\ recursos_solicitados' = [recursos_solicitados EXCEPT ![p] = <<>>]
      /\ procesos_bloqueados' = DejarSolicitados(p)
      /\ UNCHANGED <<procesos, planif, instancias, despertado, mandos, maquina, falla>>
  BY DEF VaciaListas, Ir
<1>2. /\ pc' \in [Hilos -> Puntos] /\ pc'["consola"] = "retira"
      /\ \A g \in Hilos \ {"consola"} : pc'[g] = pc[g]
  BY <1>1, SonHilos, PcMueve DEF RInv
<1>3. TipoRecursos'
  <2>1. procesos_bloqueados' \in [Recursos -> Seq(Pids)]
    <3>1. \A r \in Recursos : /\ procesos_bloqueados[r] \in Seq(Pids)
                              /\ Quitar(procesos_bloqueados[r], p) \in Seq(Pids)
      BY ElementosSinPrimero DEF RInv, TypeOK, TipoRecursos, Quitar
    <3> QED BY <1>1, <3>1 DEF DejarSolicitados
  <2>2. /\ recursos_asignados' \in [Pids -> Seq(Recursos)]
        /\ recursos_solicitados' \in [Pids -> Seq(Recursos)]
    <3>1. <<>> \in Seq(Recursos)
      OBVIOUS
    <3> HIDE DEF p
    <3> QED BY <1>1, <3>1 DEF RInv, TypeOK, TipoRecursos
  <2> QED BY <1>1, <2>1, <2>2 DEF RInv, TypeOK, TipoRecursos
<1>4. TypeOK'
  BY <1>1, <1>2, <1>3
  DEF RInv, TypeOK, TipoProcesos, TipoPlanif, TipoHilos, TipoMaquina, procesos, planif, mandos, maquina
<1>5. Hilada'
  BY <1>1, <1>2, SonHilos DEF RInv, Hilada, procesos, mandos, maquina
<1>6. Conocidos' \subseteq Conocidos
  BY <1>1, <1>2 DEF Conocidos, Retirado, procesos, mandos
<1>7. MitadesIguales
  BY <1>1, <1>2, Mitades DEF Corrientes
<1> QED BY <1>1, <1>2, <1>4, <1>5, <1>6, <1>7, Marco, SonHilos DEF procesos, planif, maquina

\* FINALIZAR_PROCESO forgets the process.
LEMMA Olvidado ==
  ASSUME RInv, NEW p, pcb_a_liberar = p, NEW desde \in {"retira", "avisa"}, Olvida(p, desde)
  PROVE  /\ pc' \in [Hilos -> Puntos] /\ pc["consola"] = desde /\ pc'["consola"] = "inicio"
         /\ \A g \in Hilos \ {"consola"} : pc'[g] = pc[g]
         /\ p \in Pids /\ Conocidos' \subseteq Conocidos
         /\ TipoProcesos' /\ TipoRecursos' /\ TipoHilos'
<1>1. /\ pc["consola"] = desde /\ pc' = [pc EXCEPT !["consola"] = "inicio"]
      /\ procesos_globales' = procesos_globales \ {p} /\ pcb_a_liberar' = Nulo /\ caso' = Nulo
      /\ UNCHANGED <<estado, contador, memoria, pcb_en_ejecucion, recursos, despertado,
                     indice, grado_a_asignar, leido, ordenes>>
  BY DEF Olvida, Ir
<1>2. /\ pc' \in [Hilos -> Puntos] /\ pc'["consola"] = "inicio"
      /\ \A g \in Hilos \ {"consola"} : pc'[g] = pc[g]
  BY <1>1, SonHilos, PcMueve DEF RInv
<1>3. p \in Pids /\ p # Nulo
  BY <1>1, NuloAssumption DEF RInv, Hilada, TypeOK, TipoHilos
<1>4. TipoProcesos' /\ TipoRecursos' /\ TipoHilos'
  BY <1>1, <1>2 DEF RInv, TypeOK, TipoProcesos, TipoRecursos, TipoHilos, recursos
<1>5. Conocidos' \subseteq Conocidos
  BY <1>1, <1>2 DEF Conocidos, Retirado
<1> QED BY <1>1, <1>2, <1>3, <1>4, <1>5

LEMMA PasoRetiraExec == ASSUME RInv, ~falla, RetiraExec PROVE RInv'
<1> DEFINE p == pcb_a_liberar
<1>1. /\ interrupciones' = IF estado[p] = "EXEC" THEN interrupciones \cup {p} ELSE interrupciones
      /\ Olvida(p, "retira")
      /\ UNCHANGED sem
  BY DEF RetiraExec
<1>2. /\ pc' \in [Hilos -> Puntos] /\ pc["consola"] = "retira" /\ pc'["consola"] = "inicio"
      /\ \A g \in Hilos \ {"consola"} : pc'[g] = pc[g]
      /\ p \in Pids /\ Conocidos' \subseteq Conocidos
      /\ TipoProcesos' /\ TipoRecursos' /\ TipoHilos'
  BY <1>1, Olvidado
<1>3. UNCHANGED <<estado, pcb_en_ejecucion, cola, grado_max, despertado, indice, cpu, interrupcion, falla>>
      /\ pcb_a_liberar' = Nulo
  BY <1>1 DEF Olvida
<1>4. TypeOK'
  BY <1>1, <1>2, <1>3 DEF RInv, TypeOK, TipoPlanif, TipoMaquina
<1>5. Hilada'
  BY <1>1, <1>2, <1>3, SonHilos DEF RInv, Hilada
<1>6. MitadesIguales
  BY <1>2, Mitades DEF Corrientes
<1> QED BY <1>1, <1>2, <1>3, <1>4, <1>5, <1>6, Marco, SonHilos

LEMMA PasoRetiraLee == ASSUME RInv, ~falla, RetiraLee PROVE RInv'
<1>1. /\ pc["consola"] = "retira" /\ pc' = [pc EXCEPT !["consola"] = "espera"]
      /\ caso' = estado[pcb_a_liberar] /\ caso' \in DOMAIN ColaDe
      /\ UNCHANGED <<procesos, planif, recursos, despertado, pcb_a_liberar, indice, grado_a_asignar,
                     leido, ordenes, maquina, falla>>
  BY DEF RetiraLee, Ir
<1>2. /\ pc' \in [Hilos -> Puntos] /\ pc'["consola"] = "espera"
      /\ \A g \in Hilos \ {"consola"} : pc'[g] = pc[g]
  BY <1>1, SonHilos, PcMueve DEF RInv
<1>3. TypeOK'
  BY <1>1, <1>2
  DEF RInv, TypeOK, TipoProcesos, TipoPlanif, TipoRecursos, TipoHilos, TipoMaquina, procesos, planif,
      recursos, maquina
<1>4. Hilada'
  BY <1>1, <1>2, SonHilos DEF RInv, Hilada, procesos, maquina
<1>5. Conocidos' \subseteq Conocidos
  BY <1>1, <1>2 DEF Conocidos, Retirado, procesos
<1>6. MitadesIguales
  BY <1>1, <1>2, Mitades DEF Corrientes
<1> QED BY <1>1, <1>2, <1>3, <1>4, <1>5, <1>6, Marco, SonHilos DEF procesos, planif, maquina

\* A CPU that works has a process.
LEMMA EnCpu ==
  ASSUME RInv, cpu.fase # "libre"
  PROVE  pcb_en_ejecucion \in Pids
BY DEF RInv, Hilada, TypeOK, TipoProcesos

\* The steps of the CPU between the dispatch and the return.
LEMMA PasoCpu == ASSUME RInv, ~falla, Cpu \/ CpuInterrupt PROVE RInv'
<1>1. /\ UNCHANGED <<estado, procesos_globales, memoria, pcb_en_ejecucion, planif, recursos, pc,
                     despertado, mandos, falla>>
      /\ contador' \in [Pids -> Nat]
      /\ cpu' \in EstadosCpu
      /\ cpu'.fase = "libre" <=> cpu.fase = "libre"
      /\ cpu'.fase = cpu.fase \/ cpu.fase # "pide"
      /\ interrupciones' \subseteq Pids /\ interrupcion' \in BOOLEAN
  <2>1. /\ cpu \in EstadosCpu /\ interrupciones \subseteq Pids /\ interrupcion \in BOOLEAN
        /\ contador \in [Pids -> Nat]
    BY DEF RInv, TypeOK, TipoMaquina, TipoProcesos
  <2>2. ASSUME CpuFetch
        PROVE  /\ contador' \in [Pids -> Nat] /\ cpu' \in EstadosCpu
               /\ cpu.fase = "corre" /\ cpu'.fase \in {"corre", "sale", "pide"}
    <3>1. /\ cpu.fase = "corre"
          /\ contador' = [contador EXCEPT ![pcb_en_ejecucion] = @ + 1]
          /\ \/ cpu' = [cpu EXCEPT !.vence = TRUE]
             \/ cpu' = [cpu EXCEPT !.fase = "sale", !.motivo = "FINALIZACION_EXIT"]
             \/ cpu' = [cpu EXCEPT !.fase = "pide", !.vence = FALSE]
      BY <2>2 DEF CpuFetch
    <3>2. pcb_en_ejecucion \in Pids
      BY <3>1, EnCpu
    <3>3. contador' \in [Pids -> Nat]
      BY <2>1, <3>1, <3>2
    <3>4. "FINALIZACION_EXIT" \in Motivos \cup {Nulo}
      BY DEF Motivos
    <3>5. CASE cpu' = [cpu EXCEPT !.fase = "sale", !.motivo = "FINALIZACION_EXIT"]
      <4>1. cpu' \in EstadosCpu /\ cpu'.fase = "sale"
        BY <2>1, <3>4, <3>5 DEF EstadosCpu
      <4> QED BY <3>1, <3>3, <4>1
    <3>6. CASE cpu' = [cpu EXCEPT !.vence = TRUE]
      <4>1. cpu' \in EstadosCpu /\ cpu'.fase = cpu.fase
        BY <2>1, <3>6, CpuGasta
      <4> QED BY <3>1, <3>3, <4>1
    <3>7. CASE cpu' = [cpu EXCEPT !.fase = "pide", !.vence = FALSE]
      <4>1. cpu' \in EstadosCpu /\ cpu'.fase = "pide"
        BY <2>1, <3>7, CpuPide
      <4> QED BY <3>1, <3>3, <4>1
    <3> QED BY <3>1, <3>5, <3>6, <3>7
  <2>3. ASSUME CpuVence
        PROVE  cpu' \in EstadosCpu /\ cpu.fase = "corre" /\ cpu'.fase = "sale"
    <3>1. /\ cpu.fase = "corre"
          /\ cpu' = [cpu EXCEPT !.fase = "sale", !.motivo = "FIN_DE_QUANTUM"]
      BY <2>3 DEF CpuVence
    <3>2. "FIN_DE_QUANTUM" \in Motivos \cup {Nulo}
      BY DEF Motivos
    <3>3. cpu' \in EstadosCpu /\ cpu'.fase = "sale"
      BY <2>1, <3>1, <3>2 DEF EstadosCpu
    <3> QED BY <3>1, <3>3
  <2>4. ASSUME CpuDevuelve
        PROVE  cpu' \in EstadosCpu /\ cpu.fase \in {"corre", "sale"} /\ cpu'.fase = "devuelto"
    <3>1. PICK m \in Motivos \cup {Nulo} :
            cpu.fase \in {"corre", "sale"} /\ cpu' = [cpu EXCEPT !.fase = "devuelto", !.motivo = m]
      <4>1. "INTERRUPCION" \in Motivos \cup {Nulo} /\ cpu.motivo \in Motivos \cup {Nulo}
        BY <2>1 DEF EstadosCpu, Motivos
      <4> QED BY <2>4, <4>1 DEF CpuDevuelve
    <3>2. cpu' \in EstadosCpu /\ cpu'.fase = "devuelto"
      BY <2>1, <3>1 DEF EstadosCpu
    <3> QED BY <3>1, <3>2
  <2>5. CASE CpuInterrupt
    BY <2>1, <2>5 DEF CpuInterrupt, maquina, procesos
  <2>6. CASE CpuFetch
    BY <2>1, <2>2, <2>6 DEF CpuFetch
  <2>7. CASE CpuVence
    BY <2>1, <2>3, <2>7 DEF CpuVence, procesos
  <2>8. CASE CpuDevuelve
    BY <2>1, <2>4, <2>8 DEF CpuDevuelve, procesos
  <2> QED BY <2>5, <2>6, <2>7, <2>8 DEF Cpu
<1>2. TypeOK'
  BY <1>1 DEF RInv, TypeOK, TipoProcesos, TipoPlanif, TipoRecursos, TipoHilos, TipoMaquina,
              planif, recursos, mandos
<1>3. Hilada'
  BY <1>1 DEF RInv, Hilada, mandos
<1>4. MitadesIguales /\ Retirado' = Retirado
  BY <1>1, ConsolaQuieta
<1>5. Conocidos' \subseteq Conocidos
  BY <1>1, <1>4 DEF Conocidos, mandos
<1> QED BY <1>1, <1>2, <1>3, <1>4, <1>5, Marco DEF planif

\* A request of the CPU that is answered at once.
LEMMA Respondida ==
  ASSUME RInv, ~falla, TipoRecursos', pc["cde"] = "inicio", cpu.fase = "pide",
         NEW m \in {Nulo, "RECURSO_INVALIDO", "RECURSO_NO_DISPONIBLE"}, Respuesta(m),
         EsperaYPost("cpu_debe_retornar", {"cpu_debe_retornar"}),
         UNCHANGED <<procesos, cola, grado_max, pc, despertado, mandos, interrupciones,
                     interrupcion, falla>>
  PROVE  RInv'
<1>1. cpu' \in EstadosCpu /\ cpu'.fase \in {"corre", "sale"}
  BY CpuRespuesta DEF RInv
<1>2. sem' \in [Semaforos -> Nat] /\ \A s \in Semaforos \ {"cpu_debe_retornar"} : sem'[s] = sem[s]
  BY SonSemaforos, SemEsperaYPost DEF RInv
<1>3. TypeOK'
  BY <1>1, <1>2
  DEF RInv, TypeOK, TipoProcesos, TipoPlanif, TipoHilos, TipoMaquina, procesos, mandos
<1>4. Hilada'
  BY <1>1 DEF RInv, Hilada, procesos, mandos
<1>5. MitadesIguales /\ Retirado' = Retirado
  BY ConsolaQuieta
<1>6. Conocidos' \subseteq Conocidos
  BY <1>5 DEF Conocidos, procesos, mandos
<1> QED BY <1>1, <1>2, <1>3, <1>4, <1>5, <1>6, Marco DEF procesos

LEMMA PasoEvaluarWait == ASSUME RInv, ~falla, EvaluarWait PROVE RInv'
<1> DEFINE p == pcb_en_ejecucion
           r == UltimaInstruccion(p).recurso
<1>1. pc["cde"] = "inicio" /\ cpu.fase = "pide" /\ r \in Recursos
  BY DEF EvaluarWait, Solicitud
<1>2. p \in Pids
  BY <1>1, EnCpu
<1> HIDE DEF p, r
<1>3. /\ EsperaYPost("cpu_debe_retornar", {"cpu_debe_retornar"})
      /\ UNCHANGED <<procesos, cola, grado_max, pc, despertado, mandos, interrupciones,
                     interrupcion, falla>>
      /\ \/ /\ instancias[r] > 0
            /\ instancias' = [instancias EXCEPT ![r] = @ - 1]
            /\ recursos_asignados' = [recursos_asignados EXCEPT ![p] = Append(@, r)]
            /\ Respuesta(Nulo)
            /\ UNCHANGED <<procesos_bloqueados, recursos_solicitados>>
         \/ /\ instancias' = [instancias EXCEPT ![r] = TrasNegar(r)]
            /\ procesos_bloqueados' = [procesos_bloqueados EXCEPT ![r] = Append(@, p)]
            /\ recursos_solicitados' = [recursos_solicitados EXCEPT ![p] = Append(@, r)]
            /\ Respuesta("RECURSO_NO_DISPONIBLE")
            /\ UNCHANGED recursos_asignados
  BY DEF EvaluarWait, p, r
<1>4. TipoRecursos
  BY DEF RInv, TypeOK
<1>5. CASE /\ instancias[r] > 0
           /\ instancias' = [instancias EXCEPT ![r] = @ - 1]
           /\ recursos_asignados' = [recursos_asignados EXCEPT ![p] = Append(@, r)]
           /\ Respuesta(Nulo)
           /\ UNCHANGED <<procesos_bloqueados, recursos_solicitados>>
  <2>1. TipoRecursos'
    BY <1>1, <1>2, <1>4, <1>5 DEF TipoRecursos
  <2> QED BY <1>1, <1>3, <1>5, <2>1, Respondida
<1>6. CASE /\ instancias' = [instancias EXCEPT ![r] = TrasNegar(r)]
           /\ procesos_bloqueados' = [procesos_bloqueados EXCEPT ![r] = Append(@, p)]
           /\ recursos_solicitados' = [recursos_solicitados EXCEPT ![p] = Append(@, r)]
           /\ Respuesta("RECURSO_NO_DISPONIBLE")
           /\ UNCHANGED recursos_asignados
  <2>1. TipoRecursos'
    BY <1>1, <1>2, <1>4, <1>6 DEF TipoRecursos, TrasNegar
  <2> QED BY <1>1, <1>3, <1>6, <2>1, Respondida
<1> QED BY <1>3, <1>5, <1>6

LEMMA PasoRecursoInexistente == ASSUME RInv, ~falla, RecursoInexistente PROVE RInv'
<1>1. /\ pc["cde"] = "inicio" /\ cpu.fase = "pide"
      /\ EsperaYPost("cpu_debe_retornar", {"cpu_debe_retornar"})
      /\ Respuesta("RECURSO_INVALIDO")
      /\ UNCHANGED <<procesos, cola, grado_max, recursos, pc, despertado, mandos, interrupciones,
                     interrupcion, falla>>
  BY DEF RecursoInexistente, Solicitud
<1>2. TipoRecursos'
  BY <1>1 DEF RInv, TypeOK, TipoRecursos, recursos
<1> QED BY <1>1, <1>2, Respondida

\* Giving back an instance, or handing it to who waits first.
LEMMA PasoEvaluarSignal == ASSUME RInv, ~falla, EvaluarSignal PROVE RInv'
<1> DEFINE p == pcb_en_ejecucion
           r == UltimaInstruccion(p).recurso
           q == Siguiente(r)
           suelta == Quitar(recursos_asignados[p], r)
<1>1. pc["cde"] = "inicio" /\ cpu.fase = "pide" /\ r \in Recursos
  BY DEF EvaluarSignal, Solicitud
<1>2. p \in Pids
  BY <1>1, EnCpu
<1>3. TipoRecursos
  BY DEF RInv, TypeOK
<1>4. suelta \in Seq(Recursos)
  <2>1. recursos_asignados[p] \in Seq(Recursos)
    BY <1>2, <1>3 DEF TipoRecursos
  <2> QED BY <2>1, ElementosSinPrimero DEF Quitar
<1>5. ASSUME AlguienEspera(r)
      PROVE  q \in Pids /\ Quitar(procesos_bloqueados[r], q) \in Seq(Pids)
  <2>1. procesos_bloqueados[r] \in Seq(Pids) /\ procesos_bloqueados[r] # <<>>
    BY <1>1, <1>3, <1>5 DEF TipoRecursos, AlguienEspera
  <2> QED BY <2>1, HeadTailProperties, ElementosSinPrimero DEF Siguiente, Quitar
<1>6. ASSUME NEW x \in Pids
      PROVE  Quitar(recursos_solicitados[x], r) \in Seq(Recursos)
  <2>1. recursos_solicitados[x] \in Seq(Recursos)
    BY <1>3 DEF TipoRecursos
  <2> QED BY <2>1, ElementosSinPrimero DEF Quitar
<1>7. /\ UNCHANGED <<procesos, cola, grado_max, mandos, interrupciones, interrupcion, falla>>
      /\ \/ /\ EsperaYPost("cpu_debe_retornar", {"cpu_debe_retornar"})
            /\ instancias' = [instancias EXCEPT ![r] = @ + 1]
            /\ recursos_asignados' = [recursos_asignados EXCEPT ![p] = suelta]
            /\ Respuesta(Nulo)
            /\ UNCHANGED <<procesos_bloqueados, recursos_solicitados, despertado, pc>>
         \/ /\ AlguienEspera(r)
            /\ Espera("cpu_debe_retornar")
            /\ procesos_bloqueados' = [procesos_bloqueados EXCEPT ![r] = Quitar(@, q)]
            /\ recursos_solicitados' = [recursos_solicitados EXCEPT ![q] = Quitar(@, r)]
            /\ recursos_asignados' =
                 [x \in Pids |-> LET l == IF x = p THEN suelta ELSE recursos_asignados[x]
                                 IN IF x = q THEN Append(l, r) ELSE l]
            /\ despertado' = [despertado EXCEPT !["cde"] = q]
            /\ pc' = [pc EXCEPT !["cde"] = "despierta"]
            /\ instancias' = instancias
            /\ UNCHANGED cpu
  BY DEF EvaluarSignal, Cedida
<1> HIDE DEF p, r, q, suelta
<1>8. CASE /\ EsperaYPost("cpu_debe_retornar", {"cpu_debe_retornar"})
           /\ instancias' = [instancias EXCEPT ![r] = @ + 1]
           /\ recursos_asignados' = [recursos_asignados EXCEPT ![p] = suelta]
           /\ Respuesta(Nulo)
           /\ UNCHANGED <<procesos_bloqueados, recursos_solicitados, despertado, pc>>
  <2>1. TipoRecursos'
    BY <1>1, <1>2, <1>3, <1>4, <1>8 DEF TipoRecursos
  <2> QED BY <1>1, <1>7, <1>8, <2>1, Respondida
<1>9. CASE /\ AlguienEspera(r)
           /\ Espera("cpu_debe_retornar")
           /\ procesos_bloqueados' = [procesos_bloqueados EXCEPT ![r] = Quitar(@, q)]
           /\ recursos_solicitados' = [recursos_solicitados EXCEPT ![q] = Quitar(@, r)]
           /\ recursos_asignados' =
                [x \in Pids |-> LET l == IF x = p THEN suelta ELSE recursos_asignados[x]
                                IN IF x = q THEN Append(l, r) ELSE l]
           /\ despertado' = [despertado EXCEPT !["cde"] = q]
           /\ pc' = [pc EXCEPT !["cde"] = "despierta"]
           /\ instancias' = instancias
           /\ UNCHANGED cpu
  <2>1. q \in Pids /\ Quitar(procesos_bloqueados[r], q) \in Seq(Pids)
    BY <1>5, <1>9
  <2>2. TipoRecursos'
    <3>1. procesos_bloqueados' \in [Recursos -> Seq(Pids)] /\ instancias' \in [Recursos -> Nat]
      BY <1>1, <1>3, <1>9, <2>1 DEF TipoRecursos
    <3>2. recursos_solicitados' \in [Pids -> Seq(Recursos)]
      BY <1>3, <1>6, <1>9, <2>1 DEF TipoRecursos
    <3>3. \A x \in Pids : recursos_asignados[x] \in Seq(Recursos) /\ Append(suelta, r) \in Seq(Recursos)
                          /\ Append(recursos_asignados[x], r) \in Seq(Recursos)
      BY <1>1, <1>3, <1>4 DEF TipoRecursos
    <3>4. recursos_asignados' \in [Pids -> Seq(Recursos)]
      BY <1>4, <1>9, <3>3
    <3> QED BY <3>1, <3>2, <3>4 DEF TipoRecursos
  <2>3. /\ pc' \in [Hilos -> Puntos] /\ pc'["cde"] = "despierta"
        /\ \A g \in Hilos \ {"cde"} : pc'[g] = pc[g]
    BY <1>9, SonHilos, PcMueve DEF RInv
  <2>4. sem' \in [Semaforos -> Nat] /\ \A s \in Semaforos \ {"cpu_debe_retornar"} : sem'[s] = sem[s]
    BY <1>9, SonSemaforos, SemEspera DEF RInv
  <2>5. /\ despertado' \in [{"cde", "consola"} -> Pids \cup {Nulo}]
        /\ despertado'["cde"] = q /\ despertado'["consola"] = despertado["consola"]
    BY <1>9, <2>1 DEF RInv, TypeOK, TipoHilos
  <2>6. TypeOK'
    BY <1>7, <1>9, <2>2, <2>3, <2>4, <2>5
    DEF RInv, TypeOK, TipoProcesos, TipoPlanif, TipoHilos, TipoMaquina, procesos, mandos
  <2>7. Hilada'
    BY <1>1, <1>7, <1>9, <2>1, <2>3, <2>5, SonHilos DEF RInv, Hilada, procesos, mandos
  <2>8. MitadesIguales /\ Retirado' = Retirado
    BY <1>7, <2>3, SonHilos, ConsolaQuieta
  <2>9. Conocidos' \subseteq Conocidos
    BY <1>7, <2>8 DEF Conocidos, procesos, mandos
  <2> QED BY <1>7, <1>9, <2>3, <2>4, <2>6, <2>7, <2>8, <2>9, Marco, SonHilos DEF procesos
<1> QED BY <1>7, <1>8, <1>9

LEMMA PasoCdeResponde == ASSUME RInv, ~falla, CdeResponde PROVE RInv'
<1>1. /\ pc["cde"] = "responde" /\ pc' = [pc EXCEPT !["cde"] = "inicio"]
      /\ Respuesta(Nulo) /\ Post({"cpu_debe_retornar"})
      /\ UNCHANGED <<procesos, cola, grado_max, recursos, despertado, mandos, interrupciones,
                     interrupcion, falla>>
  BY DEF CdeResponde, Ir
<1>2. cpu.fase = "pide" /\ cpu' \in EstadosCpu /\ cpu'.fase = "corre"
  BY <1>1, CpuRespuesta DEF RInv, Hilada
<1>3. sem' \in [Semaforos -> Nat] /\ \A s \in Semaforos \ {"cpu_debe_retornar"} : sem'[s] = sem[s]
  BY <1>1, SonSemaforos, SemPost DEF RInv
<1>4. /\ pc' \in [Hilos -> Puntos] /\ pc'["cde"] = "inicio"
      /\ \A g \in Hilos \ {"cde"} : pc'[g] = pc[g]
  BY <1>1, SonHilos, PcMueve DEF RInv
<1>5. TypeOK'
  BY <1>1, <1>2, <1>3, <1>4
  DEF RInv, TypeOK, TipoProcesos, TipoPlanif, TipoRecursos, TipoHilos, TipoMaquina, procesos,
      recursos, mandos
<1>6. Hilada'
  BY <1>1, <1>2, <1>4, SonHilos DEF RInv, Hilada, procesos, mandos
<1>7. MitadesIguales /\ Retirado' = Retirado
  BY <1>1, <1>4, SonHilos, ConsolaQuieta
<1>8. Conocidos' \subseteq Conocidos
  BY <1>1, <1>7 DEF Conocidos, procesos, mandos
<1> QED BY <1>1, <1>2, <1>3, <1>4, <1>5, <1>6, <1>7, <1>8, Marco, SonHilos DEF procesos

(***************************************************************************)
(* The steps that move processes and counted tokens.                       *)
(***************************************************************************)
LEMMA PasoIniciarProceso == ASSUME RInv, ~falla, IniciarProceso PROVE RInv'
<1>1. PICK p \in Pids :
        /\ pc["consola"] = "inicio" /\ estado[p] = "NO_CREADO"
        /\ estado' = [estado EXCEPT ![p] = "NEW"]
        /\ cola' = [cola EXCEPT !["New"] = Append(@, p)]
        /\ procesos_globales' = procesos_globales \cup {p}
        /\ memoria' = memoria \cup {p}
        /\ Post({"procesos_en_new"})
        /\ UNCHANGED <<contador, pcb_en_ejecucion, grado_max, recursos, pc, despertado, mandos,
                       maquina, falla>>
  BY DEF IniciarProceso
<1>2. Cuentas /\ TypeOK /\ Hilada
  BY DEF RInv
<1>3. /\ sem' \in [Semaforos -> Nat]
      /\ \A x \in Semaforos : sem[x] \in Nat /\ sem'[x] = IF x = "procesos_en_new" THEN sem[x] + 1 ELSE sem[x]
  BY <1>1, <1>2, SemPost
<1>4. /\ cola["New"] \in Seq(Pids) /\ Append(cola["New"], p) \in Seq(Pids)
      /\ cola'["New"] = Append(cola["New"], p) /\ Len(cola'["New"]) = Len(cola["New"]) + 1
      /\ cola' \in [Colas -> Seq(Pids)]
      /\ \A c \in {"Ready", "Bloqueados", "Finalizados"} : cola'[c] = cola[c]
  BY <1>1, <1>2, Enviado DEF TypeOK, TipoPlanif, Colas
<1>5. /\ \A q \in Pids : estado'[q] = IF q = p THEN "NEW" ELSE estado[q]
      /\ estado[p] = "NO_CREADO"
  BY <1>1, <1>2 DEF TypeOK, TipoProcesos
<1>6. TypeOK'
  BY <1>1, <1>2, <1>3, <1>4
  DEF TypeOK, TipoProcesos, TipoPlanif, TipoRecursos, TipoHilos, TipoMaquina, recursos, mandos, maquina
<1>7. Hilada'
  BY <1>1, <1>2 DEF Hilada, mandos, maquina
<1>8. Conocidos' = Conocidos \cup {p} /\ Conocidos' \subseteq Pids
  BY <1>1, <1>2, <1>6, NuloAssumption
  DEF Conocidos, Retirado, mandos, TypeOK, TipoProcesos, TipoHilos
<1>9. EnCola("New", "NEW")'
  BY <1>2, <1>4, <1>5, <1>8, ColaEntra DEF Cuentas, Lugar
<1>10. /\ ToSet(cola["Ready"]) \subseteq Pids /\ ToSet(cola["Bloqueados"]) \subseteq Pids
  BY <1>2, Numeros, Elementos
<1>11. EnCola("Ready", "READY")' /\ EnCola("Bloqueados", "BLOCKED")'
  BY <1>2, <1>4, <1>5, <1>8, <1>10 DEF Cuentas, Lugar, EnCola
<1>12. pcb_en_ejecucion' # Nulo => estado'[pcb_en_ejecucion'] = "EXEC"
  BY <1>1, <1>2, <1>5 DEF Cuentas, Lugar, TypeOK, TipoProcesos
<1>13. SemaforosFieles'
  <2>1. /\ sem'["procesos_en_new"] = sem["procesos_en_new"] + 1
        /\ sem'["procesos_en_ready"] = sem["procesos_en_ready"]
        /\ sem'["procesos_en_blocked"] = sem["procesos_en_blocked"]
        /\ sem'["procesos_en_exit"] = sem["procesos_en_exit"]
        /\ sem["procesos_en_new"] \in Nat /\ Len(cola["New"]) \in Nat
    BY <1>2, <1>3, Numeros, SonSemaforos
  <2>2. /\ Tomada("NEW")' = Tomada("NEW") /\ Tomada("READY")' = Tomada("READY")
        /\ Tomada("BLOCKED")' = Tomada("BLOCKED") /\ PorAvisar' = PorAvisar
    BY <1>1, ConsolaQuieta, TomadasIguales
  <2>3. UNCHANGED pc /\ SemaforosFieles /\ \A a, b \in Nat : (a + b) + 1 = (a + 1) + b
    BY <1>1, <1>2 DEF Cuentas
  <2>4. PICK k \in Nat : k = IF pc["largo"] = "grado" THEN 1 ELSE 0
    OBVIOUS
  <2>5. Len(cola'["New"]) = sem'["procesos_en_new"] + (IF pc'["largo"] = "grado" THEN 1 ELSE 0) + Tomada("NEW")'
    <3>1. Len(cola["New"]) = sem["procesos_en_new"] + k + Tomada("NEW")
      BY <2>3, <2>4, Zenon DEF SemaforosFieles
    <3>2. Len(cola'["New"]) = sem'["procesos_en_new"] + k + Tomada("NEW")'
      BY <1>4, <2>1, <2>2, <3>1, MitadesNumeros
    <3> QED BY <2>3, <2>4, <3>2, Zenon
  <2> QED BY <1>4, <2>1, <2>2, <2>3, <2>5, Zenon DEF SemaforosFieles
<1>14. CpuDeUno'
  BY <1>1, <1>2, <1>3, SonSemaforos DEF Cuentas, CpuDeUno, Uno, maquina
<1>15. GradoConservado => GradoConservado'
  <2>1. MitadesIguales
    BY <1>1, ConsolaQuieta
  <2> QED BY <1>1, <1>3, <1>4, <2>1, SonSemaforos DEF GradoConservado, EnMemoria, MitadesIguales
<1> QED BY <1>2, <1>6, <1>7, <1>9, <1>11, <1>12, <1>13, <1>14, <1>15 DEF RInv, Cuentas, Lugar

\* The degree asked for, less what is in use, is written over what is free.
LEMMA PasoCambiarGrado == ASSUME RInv, ~falla, CambiarGrado PROVE RInv'
<1>1. PICK n \in GradosPedidos :
        /\ pc["consola"] = "inicio" /\ pc' = [pc EXCEPT !["consola"] = "escribe"]
        /\ ordenes < MaxOrdenes
        /\ grado_a_asignar' = n /\ leido' = Diferencia(n) - 1 /\ ordenes' = ordenes + 1
        /\ UNCHANGED <<procesos, planif, recursos, despertado, pcb_a_liberar, indice, caso, maquina,
                       falla>>
  BY DEF CambiarGrado, Ir
<1>2. /\ pc' \in [Hilos -> Puntos] /\ pc'["consola"] = "escribe"
      /\ \A g \in Hilos \ {"consola"} : pc'[g] = pc[g]
  BY <1>1, SonHilos, PcMueve DEF RInv
<1>3. n \in Nat /\ Diferencia(n) - 1 \in Int /\ ordenes' \in 0..MaxOrdenes
  <2>1. n \in 0..ModSem - 1 /\ ModSem \in Nat /\ MaxOrdenes \in Nat /\ ordenes \in 0..MaxOrdenes
    BY GradoAssumption, CotasAssumption DEF RInv, TypeOK, TipoHilos
  <2>2. grado_max \in Nat /\ sem["grado_de_multiprogramacion"] \in Nat
    BY SonSemaforos DEF RInv, TypeOK, TipoPlanif
  <2> QED BY <1>1, <2>1, <2>2 DEF Diferencia
<1>4. TipoHilos'
  BY <1>1, <1>2, <1>3 DEF RInv, TypeOK, TipoHilos
<1>5. TypeOK'
  BY <1>1, <1>4 DEF RInv, TypeOK, TipoProcesos, TipoPlanif, TipoRecursos, TipoMaquina, procesos,
                    planif, recursos, maquina
<1>6. Hilada'
  BY <1>1, <1>2, SonHilos DEF RInv, Hilada, procesos, maquina
<1>7. Conocidos' \subseteq Conocidos
  BY <1>1, <1>2 DEF Conocidos, Retirado, procesos
<1>8. MitadesIguales
  BY <1>1, <1>2, Mitades DEF Corrientes
<1> QED BY <1>1, <1>2, <1>5, <1>6, <1>7, <1>8, Marco, SonHilos DEF procesos, planif, maquina

\* While the semaphore is half written the degree counts nothing.
LEMMA PasoGradoEscribe == ASSUME RInv, ~falla, GradoEscribe PROVE RInv'
<1>1. /\ pc["consola"] = "escribe" /\ pc' = [pc EXCEPT !["consola"] = "suma"]
      /\ sem' = [sem EXCEPT !["grado_de_multiprogramacion"] = leido % ModSem]
      /\ UNCHANGED <<procesos, cola, grado_max, recursos, despertado, mandos, maquina, falla>>
  BY DEF GradoEscribe, Ir
<1>2. /\ pc' \in [Hilos -> Puntos] /\ pc'["consola"] = "suma"
      /\ \A g \in Hilos \ {"consola"} : pc'[g] = pc[g]
  BY <1>1, SonHilos, PcMueve DEF RInv
<1>3. leido % ModSem \in Nat
  BY GradoAssumption DEF RInv, TypeOK, TipoHilos
<1>4. /\ sem' \in [Semaforos -> Nat]
      /\ \A x \in Semaforos \ {"grado_de_multiprogramacion"} : sem'[x] = sem[x]
  BY <1>1, <1>3, SonSemaforos DEF RInv, TypeOK, TipoPlanif
<1>5. TypeOK'
  BY <1>1, <1>2, <1>4
  DEF RInv, TypeOK, TipoProcesos, TipoPlanif, TipoRecursos, TipoHilos, TipoMaquina, procesos,
      recursos, mandos, maquina
<1>6. Hilada'
  BY <1>1, <1>2, SonHilos DEF RInv, Hilada, procesos, mandos, maquina
<1>7. Lugar' /\ CpuDeUno' /\ SemaforosFieles' /\ GradoConservado'
  <2>1. Conocidos' = Conocidos
    BY <1>1, <1>2 DEF Conocidos, Retirado, procesos, mandos
  <2>2. Lugar'
    BY <1>1, <2>1 DEF RInv, Cuentas, Lugar, EnCola, procesos
  <2>3. CpuDeUno'
    BY <1>1, <1>2, <1>4, SonHilos, SonSemaforos DEF RInv, Cuentas, CpuDeUno, Uno, maquina
  <2>4. SemaforosFieles'
    <3>1. /\ Tomada("NEW")' = Tomada("NEW") /\ Tomada("READY")' = Tomada("READY")
          /\ Tomada("BLOCKED")' = Tomada("BLOCKED") /\ PorAvisar' = PorAvisar
      BY <1>1, <1>2 DEF Tomada, PorAvisar
    <3> QED BY <1>1, <1>2, <1>4, <3>1, SonHilos, SonSemaforos DEF RInv, Cuentas, SemaforosFieles
  <2>5. GradoConservado'
    BY <1>2 DEF GradoConservado
  <2> QED BY <2>2, <2>3, <2>4, <2>5
<1> QED BY <1>5, <1>6, <1>7 DEF RInv, Cuentas

\* The sum of what was written and one, modulo what a semaphore counts.
LEMMA SumaUno ==
  ASSUME NEW m \in Nat \ {0}, NEW l \in Int, l >= -1, l + 1 < m
  PROVE  ((l % m) + 1) % m = l + 1
<1>1. CASE l = -1
  <2>1. l % m = m - 1
    BY <1>1
  <2>2. m % m = 0
    OBVIOUS
  <2> QED BY <1>1, <2>1, <2>2
<1>2. CASE l # -1
  <2>1. l \in 0..m - 1 /\ l + 1 \in 0..m - 1
    BY <1>2
  <2> QED BY <2>1
<1> QED BY <1>1, <1>2

\* What it counts at the end is the degree asked for less what is in use.
LEMMA PasoGradoSuma == ASSUME RInv, ~falla, Escribiendo, GradoSuma PROVE RInv'
<1> DEFINE g == "grado_de_multiprogramacion"
<1>1. /\ pc["consola"] = "suma" /\ pc' = [pc EXCEPT !["consola"] = "inicio"]
      /\ sem' = [sem EXCEPT ![g] = (sem[g] + 1) % ModSem]
      /\ grado_max' = grado_a_asignar /\ grado_a_asignar' = 0 /\ leido' = 0
      /\ UNCHANGED <<procesos, cola, recursos, despertado, pcb_a_liberar, indice, caso, ordenes,
                     maquina, falla>>
  BY DEF GradoSuma, Ir
<1>2. /\ pc' \in [Hilos -> Puntos] /\ pc'["consola"] = "inicio"
      /\ \A h \in Hilos \ {"consola"} : pc'[h] = pc[h]
  BY <1>1, SonHilos, PcMueve DEF RInv
<1>3. /\ sem[g] \in Nat /\ (sem[g] + 1) % ModSem \in Nat /\ leido \in Int
      /\ grado_a_asignar \in 0..ModSem - 1 /\ grado_a_asignar \in Nat /\ ModSem \in Nat \ {0}
  BY <1>1, SonSemaforos, GradoAssumption
  DEF RInv, TypeOK, TipoPlanif, TipoHilos, Escribiendo
<1>4. /\ sem' \in [Semaforos -> Nat] /\ sem'[g] = (sem[g] + 1) % ModSem
      /\ \A x \in Semaforos \ {g} : sem'[x] = sem[x]
  <2>1. PICK v \in Nat : v = (sem[g] + 1) % ModSem
    BY <1>3
  <2>2. sem' = [sem EXCEPT ![g] = v]
    BY <1>1, <2>1
  <2>3. /\ sem' \in [Semaforos -> Nat] /\ sem'[g] = v
        /\ \A x \in Semaforos \ {g} : sem'[x] = sem[x]
    BY <2>2, SonSemaforos DEF RInv, TypeOK, TipoPlanif
  <2> QED BY <2>1, <2>3
<1>5. TypeOK'
  <2>1. TipoPlanif'
    <3>1. sem' \in [Semaforos -> Nat] /\ UNCHANGED cola /\ grado_max' \in Nat
      BY <1>1, <1>3, <1>4
    <3> QED BY <3>1 DEF RInv, TypeOK, TipoPlanif
  <2>2. TipoHilos'
    <3>1. /\ UNCHANGED <<despertado, pcb_a_liberar, indice, caso, ordenes>>
          /\ grado_a_asignar' = 0 /\ leido' = 0
      BY <1>1
    <3> QED BY <1>2, <3>1 DEF RInv, TypeOK, TipoHilos
  <2>3. UNCHANGED <<procesos, recursos, maquina, falla>>
    BY <1>1
  <2> QED BY <2>1, <2>2, <2>3
          DEF RInv, TypeOK, TipoProcesos, TipoRecursos, TipoMaquina, procesos, recursos, maquina
<1>6. Hilada'
  BY <1>1, <1>2, SonHilos DEF RInv, Hilada, procesos, maquina
<1>7. Lugar'
  <2>1. Conocidos' = Conocidos
    BY <1>1, <1>2 DEF Conocidos, Retirado, procesos
  <2> QED BY <1>1, <2>1 DEF RInv, Cuentas, Lugar, EnCola, procesos
<1>8. CpuDeUno'
  BY <1>1, <1>2, <1>4, SonHilos, SonSemaforos DEF RInv, Cuentas, CpuDeUno, Uno, maquina
<1>9. SemaforosFieles'
  <2>1. /\ Tomada("NEW")' = Tomada("NEW") /\ Tomada("READY")' = Tomada("READY")
        /\ Tomada("BLOCKED")' = Tomada("BLOCKED") /\ PorAvisar' = PorAvisar
    BY <1>1, <1>2 DEF Tomada, PorAvisar
  <2> QED BY <1>1, <1>2, <1>4, <2>1, SonHilos, SonSemaforos DEF RInv, Cuentas, SemaforosFieles
<1>10. ASSUME ~BajaDelGrado PROVE GradoConservado'
  <2>1. /\ sem[g] = leido % ModSem /\ leido >= -1
        /\ leido + 1 + EnMemoria = grado_a_asignar
    BY <1>1, <1>10 DEF Escribiendo
  <2>2. EnMemoria' = EnMemoria /\ EnMemoria \in Nat
    BY <1>1, Numeros DEF RInv, EnMemoria, procesos
  <2>3. leido + 1 < ModSem
    BY <1>3, <2>1, <2>2
  <2>4. sem'[g] = leido + 1
    BY <1>3, <1>4, <2>1, <2>3, SumaUno
  <2>5. PorLiberar' = 0
    BY <1>2 DEF PorLiberar
  <2>6. sem'[g] + EnMemoria' + PorLiberar' = grado_max'
    <3>1. \A l \in Int : \A e \in Nat : (l + 1) + e + 0 = l + 1 + e
      OBVIOUS
    <3> HIDE DEF g
    <3> QED BY <1>1, <1>3, <2>1, <2>2, <2>4, <2>5, <3>1
  <2> QED BY <2>6 DEF GradoConservado
<1> QED BY <1>5, <1>6, <1>7, <1>8, <1>9, <1>10 DEF RInv, Cuentas

\* A process leaves a queue, which becomes u, and comes to the end of another.
LEMMA DosColas ==
  ASSUME TypeOK, NEW c \in Colas, NEW d \in Colas, c # d, NEW p \in Pids, NEW u \in Seq(Pids),
         cola' = [cola EXCEPT ![c] = u, ![d] = Append(@, p)]
  PROVE  /\ cola' \in [Colas -> Seq(Pids)]
         /\ cola'[c] = u /\ cola'[d] = Append(cola[d], p)
         /\ \A x \in Colas : x # c /\ x # d => cola'[x] = cola[x]
         /\ Len(cola[d]) \in Nat /\ Len(cola'[d]) = Len(cola[d]) + 1
<1>1. cola \in [Colas -> Seq(Pids)]
  BY DEF TypeOK, TipoPlanif
<1>2. /\ Append(cola[d], p) \in Seq(Pids)
      /\ Len(cola[d]) \in Nat /\ Len(Append(cola[d], p)) = Len(cola[d]) + 1
  BY <1>1, Enviado
<1>3. /\ cola'[c] = u /\ cola'[d] = Append(cola[d], p)
      /\ \A x \in Colas : x # c /\ x # d => cola'[x] = cola[x]
      /\ DOMAIN cola' = Colas /\ cola' = [x \in Colas |-> cola'[x]]
  BY <1>1
<1>4. cola' \in [Colas -> Seq(Pids)]
  BY <1>1, <1>2, <1>3
<1> QED BY <1>2, <1>3, <1>4

LEMMA SonColas ==
  "New" \in Colas /\ "Ready" \in Colas /\ "Bloqueados" \in Colas /\ "Finalizados" \in Colas
BY DEF Colas

\* enviar_pcb_de_block_a_ready, whoever calls it.
LEMMA PasoBlockAReady ==
  ASSUME RInv, ~falla, NEW h, NEW hasta, BlockAReady(h, hasta),
         h \in {"cde", "consola"}, hasta = IF h = "consola" THEN "libera" ELSE "responde",
         UNCHANGED <<contador, procesos_globales, memoria, pcb_en_ejecucion, grado_max, recursos,
                     mandos, maquina>>
  PROVE  RInv'
<1> DEFINE p == despertado[h]
<1>1. /\ EsperaYPost("procesos_en_blocked", {"procesos_en_ready"})
      /\ pc[h] = "despierta" /\ pc' = [pc EXCEPT ![h] = hasta]
      /\ despertado' = [despertado EXCEPT ![h] = Nulo]
      /\ falla' = ~Contains(cola["Bloqueados"], p)
      /\ cola' = [cola EXCEPT !["Bloqueados"] = RemoveFirst(cola["Bloqueados"], p),
                              !["Ready"] = Append(@, p)]
      /\ estado' = [estado EXCEPT ![p] = "READY"]
  BY DEF BlockAReady, Ir, Quitar
<1>2. Cuentas /\ TypeOK /\ Hilada
  BY DEF RInv
<1>3. p \in Pids /\ h \in {"cde", "consola"} /\ h \in Hilos /\ hasta \in Puntos
  BY <1>1, <1>2, SonHilos DEF Hilada
<1> HIDE DEF p
<1>4. /\ sem' \in [Semaforos -> Nat] /\ sem["procesos_en_blocked"] > 0
      /\ sem'["procesos_en_blocked"] = sem["procesos_en_blocked"] - 1
      /\ sem'["procesos_en_ready"] = sem["procesos_en_ready"] + 1
      /\ sem'["procesos_en_new"] = sem["procesos_en_new"]
      /\ sem'["procesos_en_exit"] = sem["procesos_en_exit"]
      /\ sem'["cpu_libre"] = sem["cpu_libre"]
      /\ sem'["grado_de_multiprogramacion"] = sem["grado_de_multiprogramacion"]
      /\ \A x \in Semaforos : sem[x] \in Nat
  <2>1. /\ sem' \in [Semaforos -> Nat] /\ sem["procesos_en_blocked"] > 0
        /\ \A x \in Semaforos :
             /\ sem[x] \in Nat
             /\ sem'[x] = sem[x] - (IF x = "procesos_en_blocked" THEN 1 ELSE 0)
                                 + (IF x \in {"procesos_en_ready"} THEN 1 ELSE 0)
    BY <1>1, <1>2, SonSemaforos, SemEsperaYPost
  <2> QED BY <2>1, SonSemaforos
<1>5. /\ cola["Bloqueados"] \in Seq(Pids) /\ cola["Ready"] \in Seq(Pids)
      /\ RemoveFirst(cola["Bloqueados"], p) \in Seq(Pids)
  BY <1>2, Numeros, SonColas, ElementosSinPrimero
<1>6. /\ cola' \in [Colas -> Seq(Pids)]
      /\ cola'["Bloqueados"] = RemoveFirst(cola["Bloqueados"], p)
      /\ cola'["Ready"] = Append(cola["Ready"], p)
      /\ cola'["New"] = cola["New"] /\ cola'["Finalizados"] = cola["Finalizados"]
      /\ Len(cola["Ready"]) \in Nat /\ Len(cola'["Ready"]) = Len(cola["Ready"]) + 1
  <2>1. /\ cola' \in [Colas -> Seq(Pids)]
        /\ cola'["Bloqueados"] = RemoveFirst(cola["Bloqueados"], p)
        /\ cola'["Ready"] = Append(cola["Ready"], p)
        /\ \A x \in Colas : x # "Bloqueados" /\ x # "Ready" => cola'[x] = cola[x]
        /\ Len(cola["Ready"]) \in Nat /\ Len(cola'["Ready"]) = Len(cola["Ready"]) + 1
    BY <1>1, <1>2, <1>3, <1>5, SonColas, DosColas
  <2> QED BY <2>1, SonColas
<1>7. /\ pc' \in [Hilos -> Puntos] /\ pc'[h] = hasta
      /\ \A g \in Hilos \ {h} : pc'[g] = pc[g]
  BY <1>1, <1>2, <1>3, PcMueve
<1>8. /\ despertado' \in [{"cde", "consola"} -> Pids \cup {Nulo}]
      /\ \A g \in {"cde", "consola"} \ {h} : despertado'[g] = despertado[g]
  BY <1>1, <1>2, <1>3 DEF TypeOK, TipoHilos
<1>9. /\ estado' \in [Pids -> {"NO_CREADO", "NEW", "READY", "EXEC", "BLOCKED", "EXIT"}]
      /\ estado'[p] = "READY" /\ \A q \in Pids \ {p} : estado'[q] = estado[q]
  BY <1>1, <1>2, <1>3 DEF TypeOK, TipoProcesos
<1>10. TypeOK'
  <2>1. TipoProcesos' /\ TipoPlanif'
    BY <1>1, <1>2, <1>4, <1>6, <1>9 DEF TypeOK, TipoProcesos, TipoPlanif
  <2>2. TipoHilos'
    BY <1>2, <1>7, <1>8 DEF TypeOK, TipoHilos, mandos
  <2>3. TipoRecursos' /\ TipoMaquina'
    BY <1>1, <1>2 DEF TypeOK, TipoRecursos, TipoMaquina, recursos, maquina
  <2> QED BY <2>1, <2>2, <2>3 DEF TypeOK
<1>11. Hilada'
  BY <1>1, <1>2, <1>3, <1>7, <1>8, SonHilos DEF Hilada, mandos, maquina
<1>12. CASE ~Contains(cola["Bloqueados"], p)
  BY <1>1, <1>10, <1>11, <1>12 DEF RInv
<1>13. CASE Contains(cola["Bloqueados"], p)
  <2>1. /\ EnCola("New", "NEW") /\ EnCola("Ready", "READY") /\ EnCola("Bloqueados", "BLOCKED")
        /\ p \in ToSet(cola["Bloqueados"]) /\ estado[p] = "BLOCKED"
    BY <1>2, <1>5, <1>13, Elementos DEF Cuentas, Lugar, EnCola
  <2>2. /\ ToSet(cola'["Bloqueados"]) = ToSet(cola["Bloqueados"]) \ {p}
        /\ IsInjective(cola'["Bloqueados"])
        /\ Len(cola["Bloqueados"]) \in Nat
        /\ Len(cola'["Bloqueados"]) = Len(cola["Bloqueados"]) - 1
    <3>1. IsInjective(cola["Bloqueados"])
      BY <2>1 DEF EnCola
    <3> DEFINE u == RemoveFirst(cola["Bloqueados"], p)
    <3>2. /\ ToSet(u) = ToSet(cola["Bloqueados"]) \ {p} /\ IsInjective(u)
          /\ Len(cola["Bloqueados"]) \in Nat /\ Len(u) = Len(cola["Bloqueados"]) - 1
      BY <1>5, <2>1, <3>1, ElementosSinPrimero
    <3> QED BY <1>6, <3>2
  <2>0. MitadesIguales /\ Retirado' = Retirado
    <3>1. CASE h = "consola"
      <4>1. pc["consola"] = "despierta" /\ pc'["consola"] = "libera"
        BY <1>1, <1>7, <3>1
      <4> QED BY <4>1, Mitades DEF Corrientes, Retirado
    <3>2. CASE h = "cde"
      BY <1>7, <3>2, SonHilos, ConsolaQuieta
    <3> QED BY <3>1, <3>2
  <2>3. Conocidos' = Conocidos /\ Conocidos \subseteq Pids
    BY <1>2, <2>0 DEF Conocidos, mandos, TypeOK, TipoProcesos, TipoHilos
  <2>4. ToSet(cola["New"]) \subseteq Pids /\ ToSet(cola["Bloqueados"]) \subseteq Pids
    BY <1>2, Numeros, SonColas, Elementos
  <2>5. EnCola("New", "NEW")'
    BY <1>6, <1>9, <2>1, <2>3, <2>4, SMTT(30) DEF EnCola
  <2>6. EnCola("Ready", "READY")'
    BY <1>3, <1>5, <1>6, <1>9, <2>1, <2>3, ColaEntra
  <2>7. EnCola("Bloqueados", "BLOCKED")'
    <3>1. \A q \in ToSet(cola["Bloqueados"]) \ {p} : estado'[q] = "BLOCKED"
      BY <1>9, <2>1, <2>4 DEF EnCola
    <3>2. \A q \in Conocidos' \ {p} : estado'[q] = "BLOCKED" => q \in Conocidos /\ estado[q] = "BLOCKED"
      BY <1>9, <2>3
    <3> QED BY <1>3, <1>9, <2>1, <2>2, <3>1, <3>2, ColaSale
  <2>8. pcb_en_ejecucion' # Nulo => estado'[pcb_en_ejecucion'] = "EXEC"
    BY <1>2, <1>9, <2>1 DEF Cuentas, Lugar, TypeOK, TipoProcesos
  <2>9. SemaforosFieles' /\ CpuDeUno'
    <3>1. pc'["largo"] = pc["largo"] /\ pc'["corto"] = pc["corto"]
      BY <1>3, <1>7, SonHilos
    <3>2. \A s \in Semaforos : sem[s] \in Nat
      BY <1>4
    <3>3. SemaforosFieles'
      <4>1. /\ Len(cola'["Ready"]) = Len(cola["Ready"]) + 1 /\ Len(cola["Ready"]) \in Nat
            /\ Len(cola'["Bloqueados"]) = Len(cola["Bloqueados"]) - 1
            /\ Len(cola["Bloqueados"]) \in Nat
            /\ Len(cola'["New"]) = Len(cola["New"])
            /\ Len(cola'["Finalizados"]) = Len(cola["Finalizados"])
        BY <1>6, <2>2
      <4>2. /\ sem["procesos_en_ready"] \in Nat /\ sem["procesos_en_blocked"] \in Nat
            /\ SemaforosFieles
        BY <1>2, <1>4, SonSemaforos DEF Cuentas
      <4>3. /\ Tomada("NEW")' = Tomada("NEW") /\ Tomada("READY")' = Tomada("READY")
            /\ Tomada("BLOCKED")' = Tomada("BLOCKED") /\ PorAvisar' = PorAvisar
        BY <2>0, TomadasIguales
      <4>4. PICK k \in Nat : k = IF pc["corto"] = "exec" THEN 1 ELSE 0
        OBVIOUS
      <4>5. Len(cola'["Ready"]) = sem'["procesos_en_ready"] + (IF pc'["corto"] = "exec" THEN 1 ELSE 0) + Tomada("READY")'
        <5>1. Len(cola["Ready"]) = sem["procesos_en_ready"] + k + Tomada("READY")
          BY <4>2, <4>4, Zenon DEF SemaforosFieles
        <5>2. Len(cola'["Ready"]) = sem'["procesos_en_ready"] + k + Tomada("READY")'
          BY <1>4, <4>1, <4>2, <4>3, <5>1, MitadesNumeros
        <5> QED BY <3>1, <4>4, <5>2, Zenon
      <4>6. Len(cola'["Bloqueados"]) = sem'["procesos_en_blocked"] + Tomada("BLOCKED")'
        BY <1>4, <4>1, <4>2, <4>3, MitadesNumeros DEF SemaforosFieles
      <4> QED BY <1>4, <1>6, <3>1, <4>2, <4>3, <4>5, <4>6, Zenon DEF SemaforosFieles
    <3>4. CpuDeUno'
      BY <1>1, <1>2, <1>4, <3>1 DEF Cuentas, CpuDeUno, Uno, maquina
    <3> QED BY <3>3, <3>4
  <2>10. GradoConservado => GradoConservado'
    <3>1. UNCHANGED <<pcb_en_ejecucion, grado_max>>
      OBVIOUS
    <3>2. PICK k \in Nat : k = IF pcb_en_ejecucion = Nulo THEN 0 ELSE 1
      OBVIOUS
    <3>3. EnMemoria = Len(cola["Ready"]) + Len(cola["Bloqueados"]) + k
      BY <3>2 DEF EnMemoria
    <3>4. EnMemoria' = Len(cola'["Ready"]) + Len(cola'["Bloqueados"]) + k
      BY <3>1, <3>2 DEF EnMemoria
    <3>5. EnMemoria' = EnMemoria
      <4>1. /\ Len(cola'["Ready"]) = Len(cola["Ready"]) + 1 /\ Len(cola["Ready"]) \in Nat
            /\ Len(cola'["Bloqueados"]) = Len(cola["Bloqueados"]) - 1
            /\ Len(cola["Bloqueados"]) \in Nat
        BY <1>6, <2>2
      <4>2. \A a, b \in Nat : (a + 1) + (b - 1) + k = a + b + k
        OBVIOUS
      <4> QED BY <3>3, <3>4, <4>1, <4>2
    <3> QED BY <1>4, <2>0, <3>1, <3>5 DEF GradoConservado, MitadesIguales
  <2> QED BY <1>2, <1>10, <1>11, <2>5, <2>6, <2>7, <2>8, <2>9, <2>10 DEF RInv, Cuentas, Lugar
<1> QED BY <1>12, <1>13

LEMMA PasoConsolaDespierta == ASSUME RInv, ~falla, ConsolaDespierta PROVE RInv'
<1>1. /\ BlockAReady("consola", "libera")
      /\ UNCHANGED <<contador, procesos_globales, memoria, pcb_en_ejecucion, grado_max, recursos,
                     mandos, maquina>>
  BY DEF ConsolaDespierta
<1> QED BY <1>1, PasoBlockAReady

LEMMA PasoCdeDespierta == ASSUME RInv, ~falla, CdeDespierta PROVE RInv'
<1>1. /\ BlockAReady("cde", "responde")
      /\ UNCHANGED <<contador, procesos_globales, memoria, pcb_en_ejecucion, grado_max, recursos,
                     mandos, maquina>>
  BY DEF CdeDespierta
<1> QED BY <1>1, PasoBlockAReady, Zenon

\* The steps of retirar_pcb_de_su_respectivo_estado and finalizar_pcb.
LEMMA SonCasos ==
  /\ ColaDe["NEW"] = "New" /\ ColaDe["READY"] = "Ready" /\ ColaDe["BLOCKED"] = "Bloqueados"
  /\ TokenDe["NEW"] = "procesos_en_new" /\ TokenDe["READY"] = "procesos_en_ready"
  /\ TokenDe["BLOCKED"] = "procesos_en_blocked"
BY DEF ColaDe, TokenDe

\* The token of the queue, taken.
LEMMA PasoRetiraEspera == ASSUME RInv, ~falla, Retirando, RetiraEspera PROVE RInv'
<1>1. /\ pc["consola"] = "espera" /\ pc' = [pc EXCEPT !["consola"] = "quita"]
      /\ Espera(TokenDe[caso])
      /\ UNCHANGED <<procesos, cola, grado_max, recursos, despertado, mandos, maquina, falla>>
  BY DEF RetiraEspera, Retirar, Ir
<1>2. /\ pc' \in [Hilos -> Puntos] /\ pc'["consola"] = "quita"
      /\ \A g \in Hilos \ {"consola"} : pc'[g] = pc[g]
  BY <1>1, SonHilos, PcMueve DEF RInv
<1>3. caso \in {"NEW", "READY", "BLOCKED"} /\ caso' = caso
  BY <1>1 DEF Retirando, mandos
<1>4. TokenDe[caso] \in {"procesos_en_new", "procesos_en_ready", "procesos_en_blocked"}
  BY <1>3, SonCasos
<1>5. /\ sem' \in [Semaforos -> Nat] /\ sem[TokenDe[caso]] > 0
      /\ \A x \in Semaforos : sem[x] \in Nat /\ sem'[x] = IF x = TokenDe[caso] THEN sem[x] - 1 ELSE sem[x]
  BY <1>1, <1>4, SonSemaforos, SemEspera DEF RInv
<1>6. TypeOK'
  BY <1>1, <1>2, <1>5
  DEF RInv, TypeOK, TipoProcesos, TipoPlanif, TipoRecursos, TipoHilos, TipoMaquina, procesos,
      recursos, mandos, maquina
<1>7. Hilada'
  BY <1>1, <1>2, SonHilos DEF RInv, Hilada, procesos, mandos, maquina
<1>8. Lugar'
  <2>1. Conocidos' = Conocidos
    BY <1>1, <1>2 DEF Conocidos, Retirado, procesos, mandos
  <2> QED BY <1>1, <2>1 DEF RInv, Cuentas, Lugar, EnCola, procesos
<1>9. CpuDeUno' /\ (GradoConservado => GradoConservado')
  <2>1. /\ sem'["cpu_libre"] = sem["cpu_libre"]
        /\ sem'["grado_de_multiprogramacion"] = sem["grado_de_multiprogramacion"]
    BY <1>4, <1>5, SonSemaforos
  <2>2. CpuDeUno'
    BY <1>1, <1>2, <2>1, SonHilos DEF RInv, Cuentas, CpuDeUno, Uno, maquina
  <2>3. PorLiberar' = PorLiberar /\ EnMemoria' = EnMemoria
    BY <1>1, <1>2 DEF PorLiberar, EnMemoria, procesos
  <2> QED BY <1>1, <1>2, <2>1, <2>2, <2>3 DEF GradoConservado
<1>10. SemaforosFieles'
  <2>1. /\ Tomada("NEW") = 0 /\ Tomada("READY") = 0 /\ Tomada("BLOCKED") = 0
        /\ PorAvisar' = PorAvisar
        /\ \A e \in {"NEW", "READY", "BLOCKED"} : Tomada(e)' = IF e = caso THEN 1 ELSE 0
    BY <1>1, <1>2, <1>3 DEF Tomada, PorAvisar
  <2>2. /\ Tomada("NEW")' = Uno(caso = "NEW") /\ Tomada("READY")' = Uno(caso = "READY")
        /\ Tomada("BLOCKED")' = Uno(caso = "BLOCKED")
    BY <2>1 DEF Uno
  <2>3. /\ sem'["procesos_en_new"] = sem["procesos_en_new"] - Uno(caso = "NEW")
        /\ sem'["procesos_en_ready"] = sem["procesos_en_ready"] - Uno(caso = "READY")
        /\ sem'["procesos_en_blocked"] = sem["procesos_en_blocked"] - Uno(caso = "BLOCKED")
        /\ sem'["procesos_en_exit"] = sem["procesos_en_exit"]
    BY <1>3, <1>5, SonCasos, SonSemaforos DEF Uno
  <2>4. SemaforosFieles /\ UNCHANGED cola /\ pc'["largo"] = pc["largo"] /\ pc'["corto"] = pc["corto"]
    BY <1>1, <1>2, SonHilos DEF RInv, Cuentas
  <2>5. \A a, u, v \in Nat : (a - u) + v + u = a + v + 0 /\ (a - u) + u = a + 0
    OBVIOUS
  <2>6. /\ Uno(caso = "NEW") \in Nat /\ Uno(caso = "READY") \in Nat /\ Uno(caso = "BLOCKED") \in Nat
        /\ sem["procesos_en_new"] \in Nat /\ sem["procesos_en_ready"] \in Nat
        /\ sem["procesos_en_blocked"] \in Nat
    BY <1>5, SonSemaforos DEF Uno
  <2>7. /\ (IF pc["largo"] = "grado" THEN 1 ELSE 0) \in Nat
        /\ (IF pc["corto"] = "exec" THEN 1 ELSE 0) \in Nat
    OBVIOUS
  <2> QED BY <2>1, <2>2, <2>3, <2>4, <2>5, <2>6, <2>7 DEF SemaforosFieles
<1> QED BY <1>6, <1>7, <1>8, <1>9, <1>10 DEF RInv, Cuentas

\* The process leaves the queue its token was taken of.
LEMMA PasoRetiraQuita == ASSUME RInv, ~falla, Retirando, RetiraQuita PROVE RInv'
<1> DEFINE p == pcb_a_liberar
           c == ColaDe[caso]
           u == RemoveFirst(cola[c], p)
<1>1. /\ pc["consola"] = "quita" /\ pc' = [pc EXCEPT !["consola"] = "finaliza"]
      /\ cola' = [cola EXCEPT ![c] = u]
      /\ UNCHANGED <<procesos, sem, grado_max, recursos, despertado, mandos, maquina, falla>>
  BY DEF RetiraQuita, Quitar, Ir
<1>2. Cuentas /\ TypeOK /\ Hilada
  BY DEF RInv
<1>3. /\ pc' \in [Hilos -> Puntos] /\ pc'["consola"] = "finaliza"
      /\ \A g \in Hilos \ {"consola"} : pc'[g] = pc[g]
  BY <1>1, <1>2, SonHilos, PcMueve
<1>4. /\ estado[p] = caso /\ caso' = caso /\ p' = p
      /\ \/ caso = "NEW" /\ c = "New"
         \/ caso = "READY" /\ c = "Ready"
         \/ caso = "BLOCKED" /\ c = "Bloqueados"
  BY <1>1, SonCasos DEF Retirando, mandos
<1>5. p \in Pids /\ p # Nulo
  BY <1>1, <1>2, NuloAssumption DEF Hilada, TypeOK, TipoHilos
<1>6. /\ c \in Colas /\ EnCola("New", "NEW") /\ EnCola("Ready", "READY")
      /\ EnCola("Bloqueados", "BLOCKED") /\ EnCola(c, caso)
  BY <1>2, <1>4, SonColas DEF Cuentas, Lugar
<1>7. /\ p \in Conocidos /\ Conocidos' = Conocidos \ {p}
  BY <1>1, <1>3, <1>5 DEF Conocidos, Retirado, procesos, mandos
<1>8. cola[c] \in Seq(Pids) /\ p \in ToSet(cola[c]) /\ IsInjective(cola[c])
  BY <1>2, <1>4, <1>6, <1>7, Numeros DEF EnCola
<1>9. /\ u \in Seq(Pids) /\ Len(cola[c]) \in Nat /\ Len(u) = Len(cola[c]) - 1
      /\ ToSet(u) = ToSet(cola[c]) \ {p} /\ IsInjective(u)
  BY <1>8, ElementosSinPrimero
<1> HIDE DEF p, c, u
<1>10. /\ cola' \in [Colas -> Seq(Pids)] /\ cola'[c] = u
       /\ \A x \in Colas \ {c} : cola'[x] = cola[x]
  BY <1>1, <1>2, <1>6, <1>9 DEF TypeOK, TipoPlanif
<1>11. TypeOK'
  BY <1>1, <1>2, <1>3, <1>10
  DEF TypeOK, TipoProcesos, TipoPlanif, TipoRecursos, TipoHilos, TipoMaquina, procesos,
      recursos, mandos, maquina
<1>12. Hilada'
  BY <1>1, <1>2, <1>3, SonHilos DEF Hilada, procesos, mandos, maquina
<1>13. Lugar'
  <2>1. EnCola(c, caso)'
    <3>1. IsInjective(cola'[c]) /\ ToSet(cola'[c]) = ToSet(cola[c]) \ {p}
      BY <1>9, <1>10
    <3>2. \A q \in ToSet(cola[c]) \ {p} : estado'[q] = caso
      BY <1>1, <1>6 DEF EnCola, procesos
    <3>3. \A q \in Conocidos' \ {p} : estado'[q] = caso => q \in Conocidos /\ estado[q] = caso
      BY <1>1, <1>7 DEF procesos
    <3>4. p \notin Conocidos' /\ c' = c /\ caso' = caso
      BY <1>4, <1>7 DEF c
    <3>5. IsInjective(cola'[c]) /\ (\A q \in ToSet(cola'[c]) : estado'[q] = caso)
      BY <3>1, <3>2
    <3>6. \A q \in Conocidos' : estado'[q] = caso => q \in ToSet(cola'[c])
      BY <1>6, <3>1, <3>3, <3>4 DEF EnCola
    <3> QED BY <3>4, <3>5, <3>6 DEF EnCola
  <2>2. ASSUME NEW d \in {"New", "Ready", "Bloqueados"}, d # c, NEW f, EnCola(d, f)
        PROVE  EnCola(d, f)'
    <3>1. cola'[d] = cola[d]
      BY <1>10, <2>2, SonColas
    <3> QED BY <1>1, <1>7, <2>2, <3>1 DEF EnCola, procesos
  <2>3. pcb_en_ejecucion' # Nulo => estado'[pcb_en_ejecucion'] = "EXEC"
    BY <1>1, <1>2 DEF Cuentas, Lugar, procesos
  <2>4. CASE c = "New" /\ caso = "NEW"
    BY <1>4, <1>6, <2>1, <2>2, <2>3, <2>4 DEF Lugar, EnCola, c, ColaDe
  <2>5. CASE c = "Ready" /\ caso = "READY"
    BY <1>4, <1>6, <2>1, <2>2, <2>3, <2>5 DEF Lugar, EnCola, c, ColaDe
  <2>6. CASE c = "Bloqueados" /\ caso = "BLOCKED"
    BY <1>4, <1>6, <2>1, <2>2, <2>3, <2>6 DEF Lugar, EnCola, c, ColaDe
  <2> QED BY <1>4, <2>4, <2>5, <2>6
<1>14. CpuDeUno'
  BY <1>1, <1>2, <1>3, SonHilos DEF Cuentas, CpuDeUno, Uno, maquina
<1>15. /\ Tomada("NEW") = Uno(caso = "NEW") /\ Tomada("READY") = Uno(caso = "READY")
       /\ Tomada("BLOCKED") = Uno(caso = "BLOCKED")
       /\ Tomada("NEW")' = 0 /\ Tomada("READY")' = 0 /\ Tomada("BLOCKED")' = 0
       /\ PorAvisar' = PorAvisar /\ PorLiberar = 0 /\ PorLiberar' = Uno(caso # "NEW")
  BY <1>1, <1>3, <1>4 DEF Tomada, PorAvisar, PorLiberar, Uno
<1>16. /\ Len(cola'["New"]) = Len(cola["New"]) - Uno(caso = "NEW")
       /\ Len(cola'["Ready"]) = Len(cola["Ready"]) - Uno(caso = "READY")
       /\ Len(cola'["Bloqueados"]) = Len(cola["Bloqueados"]) - Uno(caso = "BLOCKED")
       /\ cola'["Finalizados"] = cola["Finalizados"]
  <2>1. /\ Len(cola["New"]) \in Nat /\ Len(cola["Ready"]) \in Nat /\ Len(cola["Bloqueados"]) \in Nat
    BY <1>2, Numeros
  <2>2. \A k \in Nat : k - 0 = k
    OBVIOUS
  <2>3. CASE caso = "NEW" /\ c = "New"
    BY <1>9, <1>10, <2>1, <2>2, <2>3, SonColas DEF Uno
  <2>4. CASE caso = "READY" /\ c = "Ready"
    BY <1>9, <1>10, <2>1, <2>2, <2>4, SonColas DEF Uno
  <2>5. CASE caso = "BLOCKED" /\ c = "Bloqueados"
    BY <1>9, <1>10, <2>1, <2>2, <2>5, SonColas DEF Uno
  <2> QED BY <1>4, <2>3, <2>4, <2>5
<1>17. /\ Uno(caso = "NEW") \in Nat /\ Uno(caso = "READY") \in Nat /\ Uno(caso = "BLOCKED") \in Nat
       /\ Uno(caso # "NEW") \in Nat
       /\ Uno(caso # "NEW") = Uno(caso = "READY") + Uno(caso = "BLOCKED")
  BY <1>4 DEF Uno
<1>18. SemaforosFieles'
  <2>1. SemaforosFieles /\ UNCHANGED sem /\ pc'["largo"] = pc["largo"] /\ pc'["corto"] = pc["corto"]
    BY <1>1, <1>2, <1>3, SonHilos DEF Cuentas
  <2>2. /\ sem["procesos_en_new"] \in Nat /\ sem["procesos_en_ready"] \in Nat
        /\ sem["procesos_en_blocked"] \in Nat
    BY <1>2, Numeros, SonSemaforos
  <2>3. PICK x \in Nat, y \in Nat : /\ x = IF pc["largo"] = "grado" THEN 1 ELSE 0
                                    /\ y = IF pc["corto"] = "exec" THEN 1 ELSE 0
    OBVIOUS
  <2>4. /\ Len(cola["New"]) = sem["procesos_en_new"] + x + Uno(caso = "NEW")
        /\ Len(cola["Ready"]) = sem["procesos_en_ready"] + y + Uno(caso = "READY")
        /\ Len(cola["Bloqueados"]) = sem["procesos_en_blocked"] + Uno(caso = "BLOCKED")
        /\ Len(cola["Finalizados"]) = sem["procesos_en_exit"] + PorAvisar
    BY <1>15, <2>1, <2>3, Zenon DEF SemaforosFieles
  <2>5. /\ Len(cola'["New"]) = sem["procesos_en_new"] + x + 0
        /\ Len(cola'["Ready"]) = sem["procesos_en_ready"] + y + 0
        /\ Len(cola'["Bloqueados"]) = sem["procesos_en_blocked"] + 0
    <3>1. \A a, b, k \in Nat : ((a + b + k) - k = a + b + 0) /\ ((a + k) - k = a + 0)
      OBVIOUS
    <3>2. /\ Len(cola'["New"]) = (sem["procesos_en_new"] + x + Uno(caso = "NEW")) - Uno(caso = "NEW")
          /\ Len(cola'["Ready"]) = (sem["procesos_en_ready"] + y + Uno(caso = "READY")) - Uno(caso = "READY")
          /\ Len(cola'["Bloqueados"]) =
               (sem["procesos_en_blocked"] + Uno(caso = "BLOCKED")) - Uno(caso = "BLOCKED")
      BY <1>16, <2>4, Zenon
    <3>3. /\ (sem["procesos_en_new"] + x + Uno(caso = "NEW")) - Uno(caso = "NEW") = sem["procesos_en_new"] + x + 0
          /\ (sem["procesos_en_ready"] + y + Uno(caso = "READY")) - Uno(caso = "READY")
               = sem["procesos_en_ready"] + y + 0
          /\ (sem["procesos_en_blocked"] + Uno(caso = "BLOCKED")) - Uno(caso = "BLOCKED")
               = sem["procesos_en_blocked"] + 0
      <4>1. PICK k \in Nat, l \in Nat, h \in Nat :
              k = Uno(caso = "NEW") /\ l = Uno(caso = "READY") /\ h = Uno(caso = "BLOCKED")
        BY <1>17
      <4>2. /\ (sem["procesos_en_new"] + x + k) - k = sem["procesos_en_new"] + x + 0
            /\ (sem["procesos_en_ready"] + y + l) - l = sem["procesos_en_ready"] + y + 0
            /\ (sem["procesos_en_blocked"] + h) - h = sem["procesos_en_blocked"] + 0
        BY <2>2
      <4> QED BY <4>1, <4>2, Zenon
    <3> QED BY <3>2, <3>3, Zenon
  <2> QED BY <1>15, <1>16, <2>1, <2>3, <2>4, <2>5, Zenon DEF SemaforosFieles
<1>19. GradoConservado => GradoConservado'
  <2>1. PICK k \in Nat : k = IF pcb_en_ejecucion = Nulo THEN 0 ELSE 1
    OBVIOUS
  <2>2. /\ EnMemoria = Len(cola["Ready"]) + Len(cola["Bloqueados"]) + k
        /\ EnMemoria' = Len(cola'["Ready"]) + Len(cola'["Bloqueados"]) + k
    BY <1>1, <2>1 DEF EnMemoria, procesos
  <2>3. Len(cola["Ready"]) \in Nat /\ Len(cola["Bloqueados"]) \in Nat
    BY <1>2, Numeros
  <2>4. PICK x \in Nat, y \in Nat : x = Uno(caso = "READY") /\ y = Uno(caso = "BLOCKED")
    BY <1>17
  <2>5. EnMemoria' + PorLiberar' = EnMemoria + PorLiberar
    <3>1. /\ Len(cola'["Ready"]) = Len(cola["Ready"]) - x /\ PorLiberar = 0
          /\ Len(cola'["Bloqueados"]) = Len(cola["Bloqueados"]) - y /\ PorLiberar' = x + y
      BY <1>15, <1>16, <1>17, <2>4
    <3>2. \A a, b \in Nat : ((a - x) + (b - y) + k) + (x + y) = (a + b + k) + 0
      OBVIOUS
    <3>3. /\ EnMemoria' + PorLiberar' = ((Len(cola["Ready"]) - x) + (Len(cola["Bloqueados"]) - y) + k) + (x + y)
          /\ EnMemoria + PorLiberar = (Len(cola["Ready"]) + Len(cola["Bloqueados"]) + k) + 0
      BY <2>2, <3>1, Zenon
    <3> QED BY <2>3, <3>2, <3>3
  <2>6. /\ EnMemoria \in Nat /\ EnMemoria' \in Nat /\ PorLiberar \in Nat /\ PorLiberar' \in Nat
        /\ sem["grado_de_multiprogramacion"] \in Nat
    BY <1>2, <1>11, <1>15, <1>17, Numeros, NumerosDespues, SonSemaforos
  <2>7. /\ sem'["grado_de_multiprogramacion"] = sem["grado_de_multiprogramacion"]
        /\ grado_max' = grado_max /\ pc["consola"] # "suma"
    BY <1>1
  <2>8. sem["grado_de_multiprogramacion"] + EnMemoria + PorLiberar
          = sem'["grado_de_multiprogramacion"] + EnMemoria' + PorLiberar'
    <3>1. sem["grado_de_multiprogramacion"] + EnMemoria + PorLiberar
            = sem["grado_de_multiprogramacion"] + EnMemoria' + PorLiberar'
      <4>1. PICK g \in Nat, d \in Nat, e \in Nat, h \in Nat, j \in Nat :
              /\ g = sem["grado_de_multiprogramacion"] /\ d = EnMemoria /\ e = EnMemoria'
              /\ h = PorLiberar /\ j = PorLiberar'
        BY <2>6
      <4>2. e + j = d + h
        BY <2>5, <4>1
      <4>3. g + d + h = g + e + j
        BY <4>2
      <4> QED BY <4>1, <4>3, Zenon
    <3> QED BY <2>7, <3>1, Zenon
  <2> QED BY <2>7, <2>8 DEF GradoConservado
<1> QED BY <1>2, <1>11, <1>12, <1>13, <1>14, <1>18, <1>19 DEF RInv, Cuentas

LEMMA PasoFinalizaPcb == ASSUME RInv, ~falla, FinalizaPcb PROVE RInv'
<1> DEFINE p == pcb_a_liberar
<1>1. /\ pc["consola"] = "finaliza" /\ pc' = [pc EXCEPT !["consola"] = "avisa"]
      /\ cola' = [cola EXCEPT !["Finalizados"] = Append(cola["Finalizados"], p)]
      /\ UNCHANGED <<procesos, sem, grado_max, recursos, despertado, mandos, maquina, falla>>
  BY DEF FinalizaPcb, Ir
<1>2. Cuentas /\ TypeOK /\ Hilada
  BY DEF RInv
<1>3. /\ pc' \in [Hilos -> Puntos] /\ pc'["consola"] = "avisa"
      /\ \A g \in Hilos \ {"consola"} : pc'[g] = pc[g]
  BY <1>1, <1>2, SonHilos, PcMueve
<1>4. p \in Pids
  BY <1>1, <1>2 DEF Hilada, TypeOK, TipoHilos
<1>5. /\ cola' \in [Colas -> Seq(Pids)]
      /\ Len(cola["Finalizados"]) \in Nat
      /\ Len(cola'["Finalizados"]) = Len(cola["Finalizados"]) + 1
      /\ cola'["New"] = cola["New"] /\ cola'["Ready"] = cola["Ready"]
      /\ cola'["Bloqueados"] = cola["Bloqueados"]
  <2>1. /\ Append(cola["Finalizados"], p) \in Seq(Pids) /\ Len(cola["Finalizados"]) \in Nat
        /\ Len(Append(cola["Finalizados"], p)) = Len(cola["Finalizados"]) + 1
    BY <1>2, <1>4, SonColas, Enviado DEF TypeOK, TipoPlanif
  <2> HIDE DEF p
  <2> QED BY <1>1, <1>2, <2>1, SonColas DEF TypeOK, TipoPlanif
<1>6. TypeOK'
  BY <1>1, <1>2, <1>3, <1>5
  DEF TypeOK, TipoProcesos, TipoPlanif, TipoRecursos, TipoHilos, TipoMaquina, procesos,
      recursos, mandos, maquina
<1>7. Hilada'
  BY <1>1, <1>2, <1>3, SonHilos DEF Hilada, procesos, mandos, maquina
<1>8. Lugar'
  <2>1. Conocidos' = Conocidos
    BY <1>1, <1>3 DEF Conocidos, Retirado, procesos, mandos
  <2> QED BY <1>1, <1>2, <1>5, <2>1 DEF Cuentas, Lugar, EnCola, procesos
<1>9. CpuDeUno'
  BY <1>1, <1>2, <1>3, SonHilos DEF Cuentas, CpuDeUno, Uno, maquina
<1>10. SemaforosFieles'
  <2>1. /\ Tomada("NEW")' = Tomada("NEW") /\ Tomada("READY")' = Tomada("READY")
        /\ Tomada("BLOCKED")' = Tomada("BLOCKED") /\ PorAvisar = 0 /\ PorAvisar' = 1
    BY <1>1, <1>3 DEF Tomada, PorAvisar
  <2>2. SemaforosFieles /\ UNCHANGED sem /\ pc'["largo"] = pc["largo"] /\ pc'["corto"] = pc["corto"]
    BY <1>1, <1>2, <1>3, SonHilos DEF Cuentas
  <2>3. Len(cola'["Finalizados"]) = sem'["procesos_en_exit"] + PorAvisar'
    <3>1. sem["procesos_en_exit"] \in Nat
      BY <1>2, Numeros, SonSemaforos
    <3> QED BY <1>5, <2>1, <2>2, <3>1 DEF SemaforosFieles
  <2> QED BY <1>5, <2>1, <2>2, <2>3, Zenon DEF SemaforosFieles
<1>11. GradoConservado => GradoConservado'
  <2>1. PorLiberar' = PorLiberar /\ EnMemoria' = EnMemoria
    BY <1>1, <1>3, <1>5 DEF PorLiberar, EnMemoria, procesos, mandos
  <2> QED BY <1>1, <1>3, <2>1 DEF GradoConservado
<1> QED BY <1>2, <1>6, <1>7, <1>8, <1>9, <1>10, <1>11 DEF RInv, Cuentas

\* The end of the process is said, and its place given back.
LEMMA PasoFinalizaAvisa == ASSUME RInv, ~falla, Retirando, FinalizaAvisa PROVE RInv'
<1> DEFINE p == pcb_a_liberar
           S == AlFinalizar(estado[p])
<1>1. Post(S) /\ Olvida(p, "avisa") /\ interrupciones' = interrupciones
  BY DEF FinalizaAvisa
<1>2. Cuentas /\ TypeOK /\ Hilada
  BY DEF RInv
<1>3. /\ pc' \in [Hilos -> Puntos] /\ pc["consola"] = "avisa" /\ pc'["consola"] = "inicio"
      /\ \A g \in Hilos \ {"consola"} : pc'[g] = pc[g]
      /\ p \in Pids /\ Conocidos' \subseteq Conocidos
      /\ TipoProcesos' /\ TipoRecursos' /\ TipoHilos'
  BY <1>1, Olvidado
<1>4. UNCHANGED <<estado, pcb_en_ejecucion, cola, grado_max, despertado, indice, cpu, interrupcion, falla>>
      /\ pcb_a_liberar' = Nulo
  BY <1>1 DEF Olvida
<1>5. caso \in {"NEW", "READY", "BLOCKED"} /\ estado[p] = caso
  BY <1>3 DEF Retirando
<1>6. S = {"procesos_en_exit"} \cup (IF caso = "NEW" THEN {} ELSE {"grado_de_multiprogramacion"})
  BY <1>5 DEF AlFinalizar
<1> HIDE DEF p, S
<1>7. /\ sem' \in [Semaforos -> Nat]
      /\ \A x \in Semaforos : sem[x] \in Nat /\ sem'[x] = IF x \in S THEN sem[x] + 1 ELSE sem[x]
  BY <1>1, <1>2, SemPost
<1>8. TypeOK'
  BY <1>1, <1>2, <1>3, <1>4, <1>7 DEF TypeOK, TipoPlanif, TipoMaquina
<1>9. Hilada'
  BY <1>1, <1>2, <1>3, <1>4, SonHilos DEF Hilada
<1>10. Lugar'
  BY <1>2, <1>3, <1>4 DEF Cuentas, Lugar, EnCola
<1>11. /\ sem'["procesos_en_new"] = sem["procesos_en_new"]
       /\ sem'["procesos_en_ready"] = sem["procesos_en_ready"]
       /\ sem'["procesos_en_blocked"] = sem["procesos_en_blocked"]
       /\ sem'["cpu_libre"] = sem["cpu_libre"]
       /\ sem'["procesos_en_exit"] = sem["procesos_en_exit"] + 1
       /\ sem'["grado_de_multiprogramacion"] = sem["grado_de_multiprogramacion"] + Uno(caso # "NEW")
       /\ sem["procesos_en_exit"] \in Nat /\ sem["grado_de_multiprogramacion"] \in Nat
  BY <1>6, <1>7, SonSemaforos DEF Uno
<1>12. CpuDeUno'
  BY <1>2, <1>3, <1>4, <1>11, SonHilos DEF Cuentas, CpuDeUno, Uno
<1>13. /\ Tomada("NEW")' = Tomada("NEW") /\ Tomada("READY")' = Tomada("READY")
       /\ Tomada("BLOCKED")' = Tomada("BLOCKED") /\ PorAvisar = 1 /\ PorAvisar' = 0
       /\ PorLiberar = Uno(caso # "NEW") /\ PorLiberar' = 0
  BY <1>3 DEF Tomada, PorAvisar, PorLiberar, Uno
<1>14. SemaforosFieles'
  <2>1. SemaforosFieles /\ pc'["largo"] = pc["largo"] /\ pc'["corto"] = pc["corto"]
    BY <1>2, <1>3, SonHilos DEF Cuentas
  <2>2. Len(cola'["Finalizados"]) = sem'["procesos_en_exit"] + PorAvisar'
    BY <1>4, <1>11, <1>13, <2>1 DEF SemaforosFieles
  <2> QED BY <1>4, <1>11, <1>13, <2>1, <2>2, Zenon DEF SemaforosFieles
<1>15. GradoConservado => GradoConservado'
  <2>1. EnMemoria' = EnMemoria /\ EnMemoria \in Nat
    BY <1>2, <1>4, Numeros DEF EnMemoria
  <2>2. Uno(caso # "NEW") \in Nat
    BY DEF Uno
  <2>3. \A a, u, m \in Nat : (a + u) + m + 0 = a + m + u
    OBVIOUS
  <2> QED BY <1>3, <1>4, <1>11, <1>13, <2>1, <2>2, <2>3 DEF GradoConservado
<1> QED BY <1>2, <1>8, <1>9, <1>10, <1>12, <1>14, <1>15 DEF RInv, Cuentas

\* A step that only takes a token: the queues stay as they are.
LEMMA SoloToken ==
  ASSUME RInv, ~falla,
         UNCHANGED <<procesos, cola, grado_max, recursos, despertado, mandos, maquina, falla>>,
         sem' \in [Semaforos -> Nat],
         sem'["grado_de_multiprogramacion"] = sem["grado_de_multiprogramacion"],
         pc' \in [Hilos -> Puntos], pc'["cde"] = pc["cde"], pc'["consola"] = pc["consola"],
         pc'["largo"] \in {"inicio", "grado"}, pc'["corto"] \in {"inicio", "ready", "exec"},
         CpuDeUno', SemaforosFieles'
  PROVE  RInv'
<1>1. TypeOK'
  BY DEF RInv, TypeOK, TipoProcesos, TipoPlanif, TipoRecursos, TipoHilos, TipoMaquina,
         procesos, recursos, mandos, maquina
<1>2. Hilada'
  BY DEF RInv, Hilada, procesos, mandos, maquina
<1>3. MitadesIguales /\ Retirado' = Retirado
  BY ConsolaQuieta
<1>4. Lugar'
  BY <1>3 DEF RInv, Cuentas, Lugar, EnCola, Conocidos, procesos, mandos
<1>5. GradoConservado => GradoConservado'
  BY <1>3 DEF GradoConservado, EnMemoria, MitadesIguales, procesos
<1> QED BY <1>1, <1>2, <1>4, <1>5 DEF RInv, Cuentas

LEMMA PasoEsperas ==
  ASSUME RInv, ~falla, LargoEsperaNew \/ CortoEsperaCpu \/ CortoEsperaReady
  PROVE  RInv'
<1>1. CpuDeUno /\ SemaforosFieles /\ TypeOK /\ Hilada
  BY DEF RInv, Cuentas
<1>2. \A s \in Semaforos : sem[s] \in Nat
  BY <1>1 DEF TypeOK, TipoPlanif
<1>3. CASE LargoEsperaNew
  <2>1. /\ pc["largo"] = "inicio" /\ pc' \in [Hilos -> Puntos] /\ pc'["largo"] = "grado"
        /\ pc'["corto"] = pc["corto"] /\ pc'["cde"] = pc["cde"] /\ pc'["consola"] = pc["consola"]
    BY <1>1, <1>3, PcMueve, SonHilos DEF LargoEsperaNew, Ir
  <2>2. /\ sem' \in [Semaforos -> Nat]
        /\ sem'["procesos_en_new"] = sem["procesos_en_new"] - 1
        /\ \A s \in Semaforos \ {"procesos_en_new"} : sem'[s] = sem[s]
    BY <1>1, <1>3, SemEspera, SonSemaforos DEF LargoEsperaNew
  <2>3. /\ UNCHANGED <<procesos, cola, grado_max, recursos, despertado, mandos, maquina, falla>>
        /\ cpu' = cpu
    BY <1>3 DEF LargoEsperaNew, maquina
  <2>4. CpuDeUno' /\ SemaforosFieles'
    <3>1. /\ sem'["procesos_en_new"] = sem["procesos_en_new"] - 1
          /\ sem'["procesos_en_ready"] = sem["procesos_en_ready"]
          /\ sem'["procesos_en_blocked"] = sem["procesos_en_blocked"]
          /\ sem'["procesos_en_exit"] = sem["procesos_en_exit"]
          /\ sem'["cpu_libre"] = sem["cpu_libre"]
      BY <2>2, SonSemaforos
    <3>2. sem["cpu_libre"] \in Nat /\ sem["procesos_en_new"] \in Nat /\ sem["procesos_en_ready"] \in Nat
      BY <1>2, SonSemaforos
    <3>3. CpuDeUno'
      BY <1>1, <2>1, <2>3, <3>1, <3>2 DEF CpuDeUno, Uno
    <3>4. SemaforosFieles'
      <4>1. TypeOK'
        BY <1>1, <2>1, <2>2, <2>3
        DEF TypeOK, TipoProcesos, TipoPlanif, TipoRecursos, TipoHilos, TipoMaquina, procesos,
            recursos, mandos, maquina
      <4>2. MitadesIguales
        BY <2>1, <2>3, ConsolaQuieta
      <4>3. /\ Len(cola["New"]) \in Nat /\ Len(cola["Ready"]) \in Nat
            /\ Len(cola["Bloqueados"]) \in Nat /\ Len(cola["Finalizados"]) \in Nat
            /\ UNCHANGED cola
        BY <1>1, <2>3, Numeros
      <4>4. /\ Len(cola'["New"]) = Len(cola["New"]) + 0 /\ Len(cola'["Ready"]) = Len(cola["Ready"]) + 0
            /\ Len(cola'["Bloqueados"]) = Len(cola["Bloqueados"]) + 0
            /\ Len(cola'["Finalizados"]) = Len(cola["Finalizados"]) + 0
        BY <4>3
      <4>5. /\ sem["procesos_en_new"] \in Nat /\ sem["procesos_en_ready"] \in Nat
            /\ sem["procesos_en_blocked"] \in Nat /\ sem["procesos_en_exit"] \in Nat
        BY <1>2, SonSemaforos
      <4>6. /\ sem'["procesos_en_new"] + Uno(pc'["largo"] = "grado")
                 = sem["procesos_en_new"] + Uno(pc["largo"] = "grado") + 0
            /\ sem'["procesos_en_ready"] + Uno(pc'["corto"] = "exec")
                 = sem["procesos_en_ready"] + Uno(pc["corto"] = "exec") + 0
            /\ sem'["procesos_en_blocked"] = sem["procesos_en_blocked"] + 0
            /\ sem'["procesos_en_exit"] = sem["procesos_en_exit"] + 0
        BY <2>1, <3>1, <4>5 DEF Uno
      <4> QED BY <1>1, <4>1, <4>2, <4>4, <4>6, MueveCuentas
    <3> QED BY <3>3, <3>4
  <2> QED BY <1>1, <2>1, <2>2, <2>3, <2>4, SoloToken, SonSemaforos DEF Hilada
<1>4. CASE CortoEsperaCpu
  <2>1. /\ pc["corto"] = "inicio" /\ pc' \in [Hilos -> Puntos] /\ pc'["corto"] = "ready"
        /\ pc'["largo"] = pc["largo"] /\ pc'["cde"] = pc["cde"] /\ pc'["consola"] = pc["consola"]
    BY <1>1, <1>4, PcMueve, SonHilos DEF CortoEsperaCpu, Ir
  <2>2. /\ sem' \in [Semaforos -> Nat]
        /\ sem'["cpu_libre"] = sem["cpu_libre"] - 1
        /\ \A s \in Semaforos \ {"cpu_libre"} : sem'[s] = sem[s]
    BY <1>1, <1>4, SemEspera, SonSemaforos DEF CortoEsperaCpu
  <2>3. /\ UNCHANGED <<procesos, cola, grado_max, recursos, despertado, mandos, maquina, falla>>
        /\ cpu' = cpu
    BY <1>4 DEF CortoEsperaCpu, maquina
  <2>4. CpuDeUno' /\ SemaforosFieles'
    <3>1. /\ sem'["procesos_en_new"] = sem["procesos_en_new"]
          /\ sem'["procesos_en_ready"] = sem["procesos_en_ready"]
          /\ sem'["procesos_en_blocked"] = sem["procesos_en_blocked"]
          /\ sem'["procesos_en_exit"] = sem["procesos_en_exit"]
          /\ sem'["cpu_libre"] = sem["cpu_libre"] - 1
      BY <2>2, SonSemaforos
    <3>2. sem["cpu_libre"] \in Nat /\ sem["procesos_en_new"] \in Nat /\ sem["procesos_en_ready"] \in Nat
      BY <1>2, SonSemaforos
    <3>3. CpuDeUno'
      BY <1>1, <2>1, <2>3, <3>1, <3>2 DEF CpuDeUno, Uno
    <3>4. SemaforosFieles'
      <4>1. TypeOK'
        BY <1>1, <2>1, <2>2, <2>3
        DEF TypeOK, TipoProcesos, TipoPlanif, TipoRecursos, TipoHilos, TipoMaquina, procesos,
            recursos, mandos, maquina
      <4>2. MitadesIguales
        BY <2>1, <2>3, ConsolaQuieta
      <4>3. /\ Len(cola["New"]) \in Nat /\ Len(cola["Ready"]) \in Nat
            /\ Len(cola["Bloqueados"]) \in Nat /\ Len(cola["Finalizados"]) \in Nat
            /\ UNCHANGED cola
        BY <1>1, <2>3, Numeros
      <4>4. /\ Len(cola'["New"]) = Len(cola["New"]) + 0 /\ Len(cola'["Ready"]) = Len(cola["Ready"]) + 0
            /\ Len(cola'["Bloqueados"]) = Len(cola["Bloqueados"]) + 0
            /\ Len(cola'["Finalizados"]) = Len(cola["Finalizados"]) + 0
        BY <4>3
      <4>5. /\ sem["procesos_en_new"] \in Nat /\ sem["procesos_en_ready"] \in Nat
            /\ sem["procesos_en_blocked"] \in Nat /\ sem["procesos_en_exit"] \in Nat
        BY <1>2, SonSemaforos
      <4>6. /\ sem'["procesos_en_new"] + Uno(pc'["largo"] = "grado")
                 = sem["procesos_en_new"] + Uno(pc["largo"] = "grado") + 0
            /\ sem'["procesos_en_ready"] + Uno(pc'["corto"] = "exec")
                 = sem["procesos_en_ready"] + Uno(pc["corto"] = "exec") + 0
            /\ sem'["procesos_en_blocked"] = sem["procesos_en_blocked"] + 0
            /\ sem'["procesos_en_exit"] = sem["procesos_en_exit"] + 0
        BY <2>1, <3>1, <4>5 DEF Uno
      <4> QED BY <1>1, <4>1, <4>2, <4>4, <4>6, MueveCuentas
    <3> QED BY <3>3, <3>4
  <2> QED BY <1>1, <2>1, <2>2, <2>3, <2>4, SoloToken, SonSemaforos DEF Hilada
<1>5. CASE CortoEsperaReady
  <2>1. /\ pc["corto"] = "ready" /\ pc' \in [Hilos -> Puntos] /\ pc'["corto"] = "exec"
        /\ pc'["largo"] = pc["largo"] /\ pc'["cde"] = pc["cde"] /\ pc'["consola"] = pc["consola"]
    BY <1>1, <1>5, PcMueve, SonHilos DEF CortoEsperaReady, Ir
  <2>2. /\ sem' \in [Semaforos -> Nat]
        /\ sem'["procesos_en_ready"] = sem["procesos_en_ready"] - 1
        /\ \A s \in Semaforos \ {"procesos_en_ready"} : sem'[s] = sem[s]
    BY <1>1, <1>5, SemEspera, SonSemaforos DEF CortoEsperaReady
  <2>3. /\ UNCHANGED <<procesos, cola, grado_max, recursos, despertado, mandos, maquina, falla>>
        /\ cpu' = cpu
    BY <1>5 DEF CortoEsperaReady, maquina
  <2>4. CpuDeUno' /\ SemaforosFieles'
    <3>1. /\ sem'["procesos_en_new"] = sem["procesos_en_new"]
          /\ sem'["procesos_en_ready"] = sem["procesos_en_ready"] - 1
          /\ sem'["procesos_en_blocked"] = sem["procesos_en_blocked"]
          /\ sem'["procesos_en_exit"] = sem["procesos_en_exit"]
          /\ sem'["cpu_libre"] = sem["cpu_libre"]
      BY <2>2, SonSemaforos
    <3>2. sem["cpu_libre"] \in Nat /\ sem["procesos_en_new"] \in Nat /\ sem["procesos_en_ready"] \in Nat
      BY <1>2, SonSemaforos
    <3>3. CpuDeUno'
      BY <1>1, <2>1, <2>3, <3>1, <3>2 DEF CpuDeUno, Uno
    <3>4. SemaforosFieles'
      <4>1. TypeOK'
        BY <1>1, <2>1, <2>2, <2>3
        DEF TypeOK, TipoProcesos, TipoPlanif, TipoRecursos, TipoHilos, TipoMaquina, procesos,
            recursos, mandos, maquina
      <4>2. MitadesIguales
        BY <2>1, <2>3, ConsolaQuieta
      <4>3. /\ Len(cola["New"]) \in Nat /\ Len(cola["Ready"]) \in Nat
            /\ Len(cola["Bloqueados"]) \in Nat /\ Len(cola["Finalizados"]) \in Nat
            /\ UNCHANGED cola
        BY <1>1, <2>3, Numeros
      <4>4. /\ Len(cola'["New"]) = Len(cola["New"]) + 0 /\ Len(cola'["Ready"]) = Len(cola["Ready"]) + 0
            /\ Len(cola'["Bloqueados"]) = Len(cola["Bloqueados"]) + 0
            /\ Len(cola'["Finalizados"]) = Len(cola["Finalizados"]) + 0
        BY <4>3
      <4>5. /\ sem["procesos_en_new"] \in Nat /\ sem["procesos_en_ready"] \in Nat
            /\ sem["procesos_en_blocked"] \in Nat /\ sem["procesos_en_exit"] \in Nat
        BY <1>2, SonSemaforos
      <4>6. /\ sem'["procesos_en_new"] + Uno(pc'["largo"] = "grado")
                 = sem["procesos_en_new"] + Uno(pc["largo"] = "grado") + 0
            /\ sem'["procesos_en_ready"] + Uno(pc'["corto"] = "exec")
                 = sem["procesos_en_ready"] + Uno(pc["corto"] = "exec") + 0
            /\ sem'["procesos_en_blocked"] = sem["procesos_en_blocked"] + 0
            /\ sem'["procesos_en_exit"] = sem["procesos_en_exit"] + 0
        BY <2>1, <3>1, <4>5 DEF Uno
      <4> QED BY <1>1, <4>1, <4>2, <4>4, <4>6, MueveCuentas
    <3> QED BY <3>3, <3>4
  <2> QED BY <1>1, <2>1, <2>2, <2>3, <2>4, SoloToken, SonSemaforos DEF Hilada
<1> QED BY <1>3, <1>4, <1>5

LEMMA PasoTerminarProceso == ASSUME RInv, ~falla, TerminarProceso PROVE RInv'
<1> DEFINE p == Head(cola["Finalizados"])
           t == Tail(cola["Finalizados"])
<1>1. /\ Espera("procesos_en_exit")
      /\ cola' = [cola EXCEPT !["Finalizados"] = t]
      /\ procesos_globales' = procesos_globales \ {p}
      /\ memoria' = memoria \ {p}
      /\ UNCHANGED <<estado, contador, pcb_en_ejecucion, grado_max, recursos, pc, despertado,
                     mandos, maquina, falla>>
  BY DEF TerminarProceso
<1>2. Cuentas /\ TypeOK /\ Hilada
  BY DEF RInv
<1>3. /\ sem' \in [Semaforos -> Nat] /\ sem["procesos_en_exit"] > 0
      /\ sem["procesos_en_exit"] \in Nat
      /\ sem'["procesos_en_exit"] = sem["procesos_en_exit"] - 1
      /\ \A s \in Semaforos \ {"procesos_en_exit"} : sem'[s] = sem[s]
  BY <1>1, <1>2, SemEspera, SonSemaforos
<1>4. cola["Finalizados"] \in Seq(Pids) /\ cola["Finalizados"] # <<>>
  <2>1. Len(cola["Finalizados"]) > 0
    BY <1>2, <1>3, MitadesNumeros DEF Cuentas, SemaforosFieles
  <2> QED BY <1>2, <2>1, Numeros, SonColas
<1>5. p \in Pids /\ t \in Seq(Pids) /\ Len(t) = Len(cola["Finalizados"]) - 1
  BY <1>4, MensajeRecibido
<1> HIDE DEF p, t
<1>6. /\ cola' \in [Colas -> Seq(Pids)]
      /\ Len(cola'["Finalizados"]) = Len(cola["Finalizados"]) - 1
      /\ cola'["New"] = cola["New"] /\ cola'["Ready"] = cola["Ready"]
      /\ cola'["Bloqueados"] = cola["Bloqueados"]
  BY <1>1, <1>2, <1>5, SonColas DEF TypeOK, TipoPlanif
<1>7. TypeOK'
  BY <1>1, <1>2, <1>3, <1>6
  DEF TypeOK, TipoProcesos, TipoPlanif, TipoRecursos, TipoHilos, TipoMaquina, recursos, mandos, maquina
<1>8. Hilada'
  BY <1>1, <1>2 DEF Hilada, mandos, maquina
<1>9. Lugar'
  <2>1. Conocidos' \subseteq Conocidos
    BY <1>1, ConsolaQuieta DEF Conocidos, mandos
  <2> QED BY <1>1, <1>2, <1>6, <2>1 DEF Cuentas, Lugar, EnCola
<1>10. SemaforosFieles'
  <2>1. /\ sem'["procesos_en_new"] = sem["procesos_en_new"]
        /\ sem'["procesos_en_ready"] = sem["procesos_en_ready"]
        /\ sem'["procesos_en_blocked"] = sem["procesos_en_blocked"]
    BY <1>3, SonSemaforos
  <2>2. SemaforosFieles
    BY <1>2 DEF Cuentas
  <2>3. MitadesIguales
    BY <1>1, ConsolaQuieta
  <2>4. /\ Len(cola["New"]) \in Nat /\ Len(cola["Ready"]) \in Nat
        /\ Len(cola["Bloqueados"]) \in Nat /\ Len(cola["Finalizados"]) \in Nat
    BY <1>2, Numeros
  <2>5. /\ Len(cola'["New"]) = Len(cola["New"]) + 0 /\ Len(cola'["Ready"]) = Len(cola["Ready"]) + 0
        /\ Len(cola'["Bloqueados"]) = Len(cola["Bloqueados"]) + 0
        /\ Len(cola'["Finalizados"]) = Len(cola["Finalizados"]) + (-1)
    BY <1>6, <2>4
  <2>6. /\ sem["procesos_en_new"] \in Nat /\ sem["procesos_en_ready"] \in Nat
        /\ sem["procesos_en_blocked"] \in Nat /\ UNCHANGED pc
    BY <1>1, <1>2, SonSemaforos DEF TypeOK, TipoPlanif
  <2>7. /\ sem'["procesos_en_new"] + Uno(pc'["largo"] = "grado")
             = sem["procesos_en_new"] + Uno(pc["largo"] = "grado") + 0
        /\ sem'["procesos_en_ready"] + Uno(pc'["corto"] = "exec")
             = sem["procesos_en_ready"] + Uno(pc["corto"] = "exec") + 0
        /\ sem'["procesos_en_blocked"] = sem["procesos_en_blocked"] + 0
        /\ sem'["procesos_en_exit"] = sem["procesos_en_exit"] + (-1)
    BY <1>3, <2>1, <2>6 DEF Uno
  <2> QED BY <1>2, <1>7, <2>2, <2>3, <2>5, <2>7, MueveCuentas
<1>11. CpuDeUno'
  BY <1>1, <1>2, <1>3, SonSemaforos DEF Cuentas, CpuDeUno, maquina
<1>12. GradoConservado => GradoConservado'
  <2>1. EnMemoria' = EnMemoria /\ MitadesIguales
    BY <1>1, <1>6, ConsolaQuieta DEF EnMemoria
  <2> QED BY <1>1, <1>3, <2>1, SonSemaforos DEF GradoConservado, MitadesIguales
<1> QED BY <1>2, <1>7, <1>8, <1>9, <1>10, <1>11, <1>12 DEF RInv, Cuentas

\* The queue has the process whose token was taken.
LEMMA PasoNewAReady == ASSUME RInv, ~falla, NewAReady PROVE RInv'
<1> DEFINE p == Head(cola["New"])
           u == Tail(cola["New"])
<1>1. Cuentas /\ TypeOK /\ Hilada
  BY DEF RInv
<1>2. pc["largo"] = "grado" /\ pc' = [pc EXCEPT !["largo"] = "inicio"]
  BY DEF NewAReady, Ir
<1>3. cola["New"] \in Seq(Pids) /\ cola["New"] # <<>>
  <2>1. sem["procesos_en_new"] \in Nat
    BY <1>1, SonSemaforos DEF TypeOK, TipoPlanif
  <2>2. Len(cola["New"]) > 0
    BY <1>1, <1>2, <2>1, MitadesNumeros DEF Cuentas, SemaforosFieles
  <2> QED BY <1>1, <2>2, Numeros, SonColas
<1>4. /\ EsperaYPost("grado_de_multiprogramacion", {"procesos_en_ready"})
      /\ cola' = [cola EXCEPT !["New"] = u, !["Ready"] = Append(@, p)]
      /\ estado' = [estado EXCEPT ![p] = "READY"]
      /\ UNCHANGED <<contador, procesos_globales, memoria, pcb_en_ejecucion, grado_max, recursos,
                     despertado, mandos, maquina, falla>>
  BY <1>3 DEF NewAReady
<1>5. /\ p \in Pids /\ u \in Seq(Pids) /\ Len(cola["New"]) \in Nat
      /\ Len(u) = Len(cola["New"]) - 1
  BY <1>3, MensajeRecibido
<1>6. /\ EnCola("New", "NEW") /\ EnCola("Ready", "READY") /\ EnCola("Bloqueados", "BLOCKED")
      /\ IsInjective(cola["New"])
  BY <1>1 DEF Cuentas, Lugar, EnCola
<1>7. p \in ToSet(cola["New"]) /\ ToSet(u) = ToSet(cola["New"]) \ {p} /\ IsInjective(u)
  BY <1>3, <1>6, ElementosSaca
<1> HIDE DEF p, u
<1>8. /\ cola' \in [Colas -> Seq(Pids)]
      /\ cola'["New"] = u /\ cola'["Ready"] = Append(cola["Ready"], p)
      /\ cola'["Bloqueados"] = cola["Bloqueados"] /\ cola'["Finalizados"] = cola["Finalizados"]
      /\ Len(cola["Ready"]) \in Nat /\ Len(cola'["Ready"]) = Len(cola["Ready"]) + 1
      /\ Len(cola'["New"]) = Len(cola["New"]) - 1
      /\ cola["Ready"] \in Seq(Pids) /\ Len(cola["Bloqueados"]) \in Nat
  <2>1. /\ cola' \in [Colas -> Seq(Pids)]
        /\ cola'["New"] = u /\ cola'["Ready"] = Append(cola["Ready"], p)
        /\ \A x \in Colas : x # "New" /\ x # "Ready" => cola'[x] = cola[x]
        /\ Len(cola["Ready"]) \in Nat /\ Len(cola'["Ready"]) = Len(cola["Ready"]) + 1
    BY <1>1, <1>4, <1>5, SonColas, DosColas
  <2>2. cola["Ready"] \in Seq(Pids) /\ Len(cola["Bloqueados"]) \in Nat
    BY <1>1, Numeros, SonColas
  <2> QED BY <1>5, <2>1, <2>2, SonColas
<1>9. /\ estado' \in [Pids -> {"NO_CREADO", "NEW", "READY", "EXEC", "BLOCKED", "EXIT"}]
      /\ estado[p] = "NEW" /\ estado'[p] = "READY" /\ \A q \in Pids \ {p} : estado'[q] = estado[q]
  BY <1>1, <1>4, <1>5, <1>6, <1>7 DEF TypeOK, TipoProcesos, EnCola
<1>10. /\ sem' \in [Semaforos -> Nat]
       /\ sem'["grado_de_multiprogramacion"] = sem["grado_de_multiprogramacion"] - 1
       /\ sem'["procesos_en_ready"] = sem["procesos_en_ready"] + 1
       /\ sem'["procesos_en_new"] = sem["procesos_en_new"]
       /\ sem'["procesos_en_blocked"] = sem["procesos_en_blocked"]
       /\ sem'["procesos_en_exit"] = sem["procesos_en_exit"]
       /\ sem'["cpu_libre"] = sem["cpu_libre"]
       /\ sem["procesos_en_new"] \in Nat /\ sem["procesos_en_ready"] \in Nat
       /\ sem["grado_de_multiprogramacion"] \in Nat
  <2>1. /\ sem' \in [Semaforos -> Nat]
        /\ \A x \in Semaforos :
             /\ sem[x] \in Nat
             /\ sem'[x] = sem[x] - (IF x = "grado_de_multiprogramacion" THEN 1 ELSE 0)
                                 + (IF x \in {"procesos_en_ready"} THEN 1 ELSE 0)
    BY <1>1, <1>4, SonSemaforos, SemEsperaYPost
  <2> QED BY <2>1, SonSemaforos
<1>11. /\ pc' \in [Hilos -> Puntos] /\ pc'["largo"] = "inicio"
       /\ pc'["corto"] = pc["corto"] /\ pc'["cde"] = pc["cde"] /\ pc'["consola"] = pc["consola"]
  BY <1>1, <1>2, PcMueve, SonHilos
<1>12. TypeOK'
  <2>1. TipoProcesos' /\ TipoPlanif'
    BY <1>1, <1>4, <1>8, <1>9, <1>10 DEF TypeOK, TipoProcesos, TipoPlanif
  <2> QED BY <1>1, <1>4, <1>11, <2>1
          DEF TypeOK, TipoRecursos, TipoHilos, TipoMaquina, recursos, mandos, maquina
<1>13. Hilada'
  BY <1>1, <1>4, <1>11 DEF Hilada, mandos, maquina
<1>14. Lugar'
  <2>0. Retirado' = Retirado
    BY <1>4, <1>11, ConsolaQuieta
  <2>1. Conocidos' = Conocidos /\ Conocidos \subseteq Pids
    BY <1>1, <1>4, <2>0 DEF Conocidos, mandos, TypeOK, TipoProcesos, TipoHilos
  <2>2. EnCola("New", "NEW")'
    <3>1. \A q \in ToSet(cola["New"]) \ {p} : estado'[q] = "NEW"
      BY <1>3, <1>6, <1>9, Elementos DEF EnCola
    <3>2. \A q \in Conocidos' \ {p} : estado'[q] = "NEW" => q \in Conocidos /\ estado[q] = "NEW"
      BY <1>9, <2>1
    <3> QED BY <1>5, <1>6, <1>7, <1>8, <1>9, <3>1, <3>2, ColaSale
  <2>3. EnCola("Ready", "READY")'
    BY <1>5, <1>6, <1>8, <1>9, <2>1, ColaEntra
  <2>4. EnCola("Bloqueados", "BLOCKED")'
    <3>1. ToSet(cola["Bloqueados"]) \subseteq Pids
      BY <1>1, Numeros, SonColas, Elementos
    <3> QED BY <1>6, <1>8, <1>9, <2>1, <3>1 DEF EnCola
  <2>5. pcb_en_ejecucion' # Nulo => estado'[pcb_en_ejecucion'] = "EXEC"
    BY <1>1, <1>4, <1>9 DEF Cuentas, Lugar, TypeOK, TipoProcesos
  <2> QED BY <2>2, <2>3, <2>4, <2>5 DEF Lugar
<1>15. SemaforosFieles' /\ CpuDeUno'
  <2>1. SemaforosFieles /\ CpuDeUno /\ cpu' = cpu
    BY <1>1, <1>4 DEF Cuentas, maquina
  <2>2. SemaforosFieles'
    <3>1. /\ Len(cola'["New"]) = Len(cola["New"]) - 1 /\ Len(cola["New"]) \in Nat
          /\ Len(cola'["Ready"]) = Len(cola["Ready"]) + 1 /\ Len(cola["Ready"]) \in Nat
          /\ Len(cola'["Bloqueados"]) = Len(cola["Bloqueados"])
          /\ Len(cola'["Finalizados"]) = Len(cola["Finalizados"])
      BY <1>5, <1>8
    <3>2. /\ Len(cola'["New"]) = Len(cola["New"]) + (-1) /\ Len(cola'["Ready"]) = Len(cola["Ready"]) + 1
          /\ Len(cola'["Bloqueados"]) = Len(cola["Bloqueados"]) + 0
          /\ Len(cola'["Finalizados"]) = Len(cola["Finalizados"]) + 0
      BY <1>1, <3>1, Numeros
    <3>3. /\ sem'["procesos_en_new"] + Uno(pc'["largo"] = "grado")
               = sem["procesos_en_new"] + Uno(pc["largo"] = "grado") + (-1)
          /\ sem'["procesos_en_ready"] + Uno(pc'["corto"] = "exec")
               = sem["procesos_en_ready"] + Uno(pc["corto"] = "exec") + 1
          /\ sem'["procesos_en_blocked"] = sem["procesos_en_blocked"] + 0
          /\ sem'["procesos_en_exit"] = sem["procesos_en_exit"] + 0
      BY <1>1, <1>2, <1>10, <1>11, SonSemaforos DEF Uno, TypeOK, TipoPlanif
    <3>4. MitadesIguales
      BY <1>4, <1>11, ConsolaQuieta
    <3> QED BY <1>1, <1>12, <2>1, <3>2, <3>3, <3>4, MueveCuentas
  <2>3. CpuDeUno'
    BY <1>10, <1>11, <2>1 DEF CpuDeUno
  <2> QED BY <2>2, <2>3
<1>16. GradoConservado => GradoConservado'
  <2>1. PICK k \in Nat : k = IF pcb_en_ejecucion = Nulo THEN 0 ELSE 1
    OBVIOUS
  <2>2. PICK a \in Nat, b \in Nat : a = Len(cola["Ready"]) /\ b = Len(cola["Bloqueados"])
    BY <1>8
  <2>3. Len(cola'["Ready"]) = a + 1 /\ Len(cola'["Bloqueados"]) = b
    BY <1>8, <2>2
  <2>4. EnMemoria = a + b + k /\ EnMemoria' = (a + 1) + b + k
    BY <1>4, <2>1, <2>2, <2>3 DEF EnMemoria
  <2>5. EnMemoria' = EnMemoria + 1
    BY <2>4
  <2>6. sem["grado_de_multiprogramacion"] = sem'["grado_de_multiprogramacion"] + 1 /\ grado_max' = grado_max
    BY <1>4, <1>10
  <2>7. MitadesIguales
    BY <1>4, <1>11, ConsolaQuieta
  <2> QED BY <1>1, <1>12, <2>5, <2>6, <2>7, MueveGrado
<1> QED BY <1>1, <1>12, <1>13, <1>14, <1>15, <1>16 DEF RInv, Cuentas

\* The CPU is free, and there is who to send to it.
LEMMA PasoReadyAExec == ASSUME RInv, ~falla, ReadyAExec PROVE RInv'
<1> DEFINE p == Head(cola["Ready"])
           u == Tail(cola["Ready"])
<1>1. Cuentas /\ TypeOK /\ Hilada
  BY DEF RInv
<1>2. pc["corto"] = "exec" /\ pc' = [pc EXCEPT !["corto"] = "inicio"]
  BY DEF ReadyAExec, Ir
<1>3. cola["Ready"] \in Seq(Pids) /\ cola["Ready"] # <<>>
  <2>1. sem["procesos_en_ready"] \in Nat
    BY <1>1, SonSemaforos DEF TypeOK, TipoPlanif
  <2>2. Len(cola["Ready"]) > 0
    BY <1>1, <1>2, <2>1, MitadesNumeros DEF Cuentas, SemaforosFieles
  <2> QED BY <1>1, <2>2, Numeros, SonColas
<1>4. /\ cola' = [cola EXCEPT !["Ready"] = u]
      /\ estado' = [estado EXCEPT ![p] = "EXEC"]
      /\ pcb_en_ejecucion' = p
      /\ Post({"cpu_debe_retornar"})
      /\ cpu' = [CpuLibre EXCEPT !.fase = "corre"]
      /\ UNCHANGED <<contador, procesos_globales, memoria, grado_max, recursos, despertado, mandos,
                     interrupciones, interrupcion, falla>>
  BY <1>3 DEF ReadyAExec
<1>5. /\ p \in Pids /\ u \in Seq(Pids) /\ Len(cola["Ready"]) \in Nat
      /\ Len(u) = Len(cola["Ready"]) - 1
  BY <1>3, MensajeRecibido
<1>6. /\ EnCola("New", "NEW") /\ EnCola("Ready", "READY") /\ EnCola("Bloqueados", "BLOCKED")
      /\ IsInjective(cola["Ready"])
  BY <1>1 DEF Cuentas, Lugar, EnCola
<1>7. p \in ToSet(cola["Ready"]) /\ ToSet(u) = ToSet(cola["Ready"]) \ {p} /\ IsInjective(u)
  BY <1>3, <1>6, ElementosSaca
<1> HIDE DEF p, u
<1>8. /\ cola' \in [Colas -> Seq(Pids)]
      /\ cola'["Ready"] = u /\ Len(cola'["Ready"]) = Len(cola["Ready"]) - 1
      /\ cola'["New"] = cola["New"] /\ cola'["Bloqueados"] = cola["Bloqueados"]
      /\ cola'["Finalizados"] = cola["Finalizados"]
  BY <1>1, <1>4, <1>5, SonColas DEF TypeOK, TipoPlanif
<1>9. /\ estado' \in [Pids -> {"NO_CREADO", "NEW", "READY", "EXEC", "BLOCKED", "EXIT"}]
      /\ estado[p] = "READY" /\ estado'[p] = "EXEC" /\ \A q \in Pids \ {p} : estado'[q] = estado[q]
  BY <1>1, <1>4, <1>5, <1>6, <1>7 DEF TypeOK, TipoProcesos, EnCola
<1>10. /\ sem' \in [Semaforos -> Nat] /\ \A s \in Semaforos : sem[s] \in Nat
       /\ \A s \in Semaforos \ {"cpu_debe_retornar"} : sem'[s] = sem[s]
  BY <1>1, <1>4, SemPost
<1>11. /\ pc' \in [Hilos -> Puntos] /\ pc'["corto"] = "inicio"
       /\ pc'["largo"] = pc["largo"] /\ pc'["cde"] = pc["cde"] /\ pc'["consola"] = pc["consola"]
  BY <1>1, <1>2, PcMueve, SonHilos
<1>12. cpu' \in EstadosCpu /\ cpu'.fase = "corre"
  BY <1>4, CpuSinNadie
<1>13. cpu.fase = "libre" /\ pcb_en_ejecucion = Nulo /\ sem["cpu_libre"] = 0
  <2>1. sem["cpu_libre"] \in Nat
    BY <1>10, SonSemaforos
  <2> QED BY <1>1, <1>2, <2>1 DEF Cuentas, CpuDeUno, Uno, Hilada
<1>14. TypeOK'
  <2>1. TipoProcesos' /\ TipoPlanif' /\ TipoMaquina'
    BY <1>1, <1>4, <1>5, <1>8, <1>9, <1>10, <1>12 DEF TypeOK, TipoProcesos, TipoPlanif, TipoMaquina
  <2> QED BY <1>1, <1>4, <1>11, <2>1 DEF TypeOK, TipoRecursos, TipoHilos, recursos, mandos
<1>15. Hilada'
  BY <1>1, <1>4, <1>5, <1>11, <1>12, <1>13, NuloAssumption DEF Hilada, mandos
<1>16. Lugar'
  <2>0. Retirado' = Retirado
    BY <1>4, <1>11, ConsolaQuieta
  <2>1. Conocidos' = Conocidos /\ Conocidos \subseteq Pids
    BY <1>1, <1>4, <2>0 DEF Conocidos, mandos, TypeOK, TipoProcesos, TipoHilos
  <2>2. EnCola("Ready", "READY")'
    <3>1. \A q \in ToSet(cola["Ready"]) \ {p} : estado'[q] = "READY"
      BY <1>3, <1>6, <1>9, Elementos DEF EnCola
    <3>2. \A q \in Conocidos' \ {p} : estado'[q] = "READY" => q \in Conocidos /\ estado[q] = "READY"
      BY <1>9, <2>1
    <3> QED BY <1>5, <1>6, <1>7, <1>8, <1>9, <3>1, <3>2, ColaSale
  <2>3. EnCola("New", "NEW")' /\ EnCola("Bloqueados", "BLOCKED")'
    <3>1. ToSet(cola["New"]) \subseteq Pids /\ ToSet(cola["Bloqueados"]) \subseteq Pids
      BY <1>1, Numeros, SonColas, Elementos
    <3> QED BY <1>6, <1>8, <1>9, <2>1, <3>1 DEF EnCola
  <2> QED BY <1>4, <1>9, <2>2, <2>3 DEF Lugar
<1>17. SemaforosFieles' /\ CpuDeUno'
  <2>1. SemaforosFieles
    BY <1>1 DEF Cuentas
  <2>2. /\ sem'["procesos_en_new"] = sem["procesos_en_new"]
        /\ sem'["procesos_en_ready"] = sem["procesos_en_ready"]
        /\ sem'["procesos_en_blocked"] = sem["procesos_en_blocked"]
        /\ sem'["procesos_en_exit"] = sem["procesos_en_exit"]
        /\ sem'["cpu_libre"] = 0
        /\ sem["procesos_en_ready"] \in Nat
    BY <1>10, <1>13, SonSemaforos
  <2>3. SemaforosFieles'
    <3>1. /\ Len(cola'["New"]) = Len(cola["New"]) + 0 /\ Len(cola'["Ready"]) = Len(cola["Ready"]) + (-1)
          /\ Len(cola'["Bloqueados"]) = Len(cola["Bloqueados"]) + 0
          /\ Len(cola'["Finalizados"]) = Len(cola["Finalizados"]) + 0
      BY <1>1, <1>5, <1>8, Numeros
    <3>2. /\ sem'["procesos_en_new"] + Uno(pc'["largo"] = "grado")
               = sem["procesos_en_new"] + Uno(pc["largo"] = "grado") + 0
          /\ sem'["procesos_en_ready"] + Uno(pc'["corto"] = "exec")
               = sem["procesos_en_ready"] + Uno(pc["corto"] = "exec") + (-1)
          /\ sem'["procesos_en_blocked"] = sem["procesos_en_blocked"] + 0
          /\ sem'["procesos_en_exit"] = sem["procesos_en_exit"] + 0
      BY <1>2, <1>10, <1>11, <2>2, SonSemaforos DEF Uno
    <3>3. MitadesIguales
      BY <1>4, <1>11, ConsolaQuieta
    <3> QED BY <1>1, <1>14, <2>1, <3>1, <3>2, <3>3, MueveCuentas
  <2>4. CpuDeUno'
    BY <1>11, <1>12, <2>2 DEF CpuDeUno, Uno
  <2> QED BY <2>3, <2>4
<1>18. GradoConservado => GradoConservado'
  <2>1. PICK a \in Nat, b \in Nat : a = Len(cola["Ready"]) /\ b = Len(cola["Bloqueados"])
    BY <1>1, Numeros
  <2>2. Len(cola'["Ready"]) = a - 1 /\ Len(cola'["Bloqueados"]) = b
    BY <1>8, <2>1
  <2>3. EnMemoria = a + b + 0
    BY <1>13, <2>1 DEF EnMemoria
  <2>4. EnMemoria' = (a - 1) + b + 1
    BY <1>4, <1>5, <2>2, NuloAssumption DEF EnMemoria
  <2>5. sem'["grado_de_multiprogramacion"] = sem["grado_de_multiprogramacion"] /\ grado_max' = grado_max
    BY <1>4, <1>10, SonSemaforos
  <2>6. EnMemoria' = EnMemoria
    BY <2>3, <2>4
  <2>7. MitadesIguales
    BY <1>4, <1>11, ConsolaQuieta
  <2> QED BY <2>5, <2>6, <2>7 DEF GradoConservado, MitadesIguales
<1> QED BY <1>1, <1>14, <1>15, <1>16, <1>17, <1>18 DEF RInv, Cuentas

\* enviar_de_exec_a_...: the process that ran goes to a queue, and the CPU is
\* free.
LEMMA PasoDejaExec ==
  ASSUME RInv, ~falla, NEW motivos, NEW c, NEW e, NEW S, DejaExec(motivos, c, e, S),
         \/ /\ c = "Finalizados" /\ e = "EXIT"
            /\ S = {"procesos_en_exit", "grado_de_multiprogramacion"}
         \/ c = "Ready" /\ e = "READY" /\ S = {"procesos_en_ready"}
         \/ c = "Bloqueados" /\ e = "BLOCKED" /\ S = {"procesos_en_blocked"}
  PROVE  RInv'
<1> DEFINE p == pcb_en_ejecucion
<1>1. Cuentas /\ TypeOK /\ Hilada
  BY DEF RInv
<1>2. /\ pc["cde"] = "inicio" /\ cpu.fase = "devuelto"
      /\ EsperaYPost("cpu_debe_retornar", {"cpu_libre"} \cup S)
      /\ cola' = [cola EXCEPT ![c] = Append(@, p)]
      /\ estado' = [estado EXCEPT ![p] = e]
      /\ pcb_en_ejecucion' = Nulo
      /\ cpu' = CpuLibre
      /\ UNCHANGED <<contador, procesos_globales, memoria, grado_max, recursos, pc, despertado,
                     mandos, interrupciones, interrupcion, falla>>
  BY DEF DejaExec
<1>3. p \in Pids /\ p # Nulo
  BY <1>2, EnCpu, NuloAssumption
<1>4. c \in Colas /\ e \in {"EXIT", "READY", "BLOCKED"}
  BY SonColas
<1>5. /\ EnCola("New", "NEW") /\ EnCola("Ready", "READY") /\ EnCola("Bloqueados", "BLOCKED")
      /\ estado[p] = "EXEC"
  BY <1>1, <1>3 DEF Cuentas, Lugar
<1> HIDE DEF p
<1>6. /\ cola \in [Colas -> Seq(Pids)] /\ Len(cola[c]) \in Nat
      /\ Append(cola[c], p) \in Seq(Pids) /\ Len(Append(cola[c], p)) = Len(cola[c]) + 1
  BY <1>1, <1>3, <1>4, Enviado DEF TypeOK, TipoPlanif
<1>7. /\ cola' \in [Colas -> Seq(Pids)] /\ cola'[c] = Append(cola[c], p)
      /\ Len(cola'[c]) = Len(cola[c]) + 1
      /\ \A x \in Colas \ {c} : cola'[x] = cola[x]
  BY <1>2, <1>4, <1>6
<1>8. /\ estado' \in [Pids -> {"NO_CREADO", "NEW", "READY", "EXEC", "BLOCKED", "EXIT"}]
      /\ estado'[p] = e /\ \A q \in Pids \ {p} : estado'[q] = estado[q]
  BY <1>1, <1>2, <1>3, <1>4 DEF TypeOK, TipoProcesos
<1>9. /\ sem' \in [Semaforos -> Nat]
      /\ \A x \in Semaforos :
           /\ sem[x] \in Nat
           /\ sem'[x] = sem[x] - (IF x = "cpu_debe_retornar" THEN 1 ELSE 0)
                               + (IF x \in {"cpu_libre"} \cup S THEN 1 ELSE 0)
  BY <1>1, <1>2, SonSemaforos, SemEsperaYPost
<1>10. cpu' \in EstadosCpu /\ cpu'.fase = "libre"
  BY <1>2, CpuSinNadie
<1>11. TypeOK'
  <2>1. TipoProcesos' /\ TipoPlanif' /\ TipoMaquina'
    BY <1>1, <1>2, <1>7, <1>8, <1>9, <1>10 DEF TypeOK, TipoProcesos, TipoPlanif, TipoMaquina
  <2> QED BY <1>1, <1>2, <2>1 DEF TypeOK, TipoRecursos, TipoHilos, recursos, mandos
<1>12. Hilada'
  BY <1>1, <1>2, <1>10 DEF Hilada, mandos
<1>13. Conocidos' = Conocidos /\ Conocidos \subseteq Pids
  <2>1. Retirado' = Retirado
    BY <1>2, ConsolaQuieta
  <2> QED BY <1>1, <1>2, <2>1 DEF Conocidos, mandos, TypeOK, TipoProcesos, TipoHilos
<1>14. Lugar'
  <2>1. ASSUME NEW d \in {"New", "Ready", "Bloqueados"}, d # c, NEW f \in {"NEW", "READY", "BLOCKED"},
               f # e, EnCola(d, f)
        PROVE  EnCola(d, f)'
    <3>1. cola'[d] = cola[d] /\ ToSet(cola[d]) \subseteq Pids
      BY <1>1, <1>7, <2>1, SonColas, Numeros, Elementos
    <3>2. \A q \in ToSet(cola[d]) : estado'[q] = f
      BY <1>5, <1>8, <2>1, <3>1 DEF EnCola
    <3>3. \A q \in Conocidos' : estado'[q] = f => q \in Conocidos /\ estado[q] = f
      BY <1>8, <1>13, <2>1
    <3> QED BY <2>1, <3>1, <3>2, <3>3, ColaAjena
  <2>2. ASSUME c # "Finalizados", EnCola(c, e) PROVE EnCola(c, e)'
    <3>1. cola[c] \in Seq(Pids) /\ estado[p] # e
      BY <1>4, <1>5, <1>6
    <3>2. Conocidos' \subseteq Pids /\ Conocidos' \subseteq Conocidos \cup {p}
      BY <1>13
    <3> QED BY <1>3, <1>7, <1>8, <2>2, <3>1, <3>2, ColaEntra
  <2>3. pcb_en_ejecucion' = Nulo
    BY <1>2
  <2>4. CASE c = "Finalizados" /\ e = "EXIT"
    BY <1>5, <2>1, <2>3, <2>4 DEF Lugar
  <2>5. CASE c = "Ready" /\ e = "READY"
    BY <1>5, <2>1, <2>2, <2>3, <2>5 DEF Lugar
  <2>6. CASE c = "Bloqueados" /\ e = "BLOCKED"
    BY <1>5, <2>1, <2>2, <2>3, <2>6 DEF Lugar
  <2> QED BY <2>4, <2>5, <2>6
<1>15. /\ sem["procesos_en_new"] \in Nat /\ sem["procesos_en_ready"] \in Nat
       /\ sem["procesos_en_blocked"] \in Nat /\ sem["procesos_en_exit"] \in Nat
       /\ sem["grado_de_multiprogramacion"] \in Nat /\ sem["cpu_libre"] \in Nat
  BY <1>9, SonSemaforos
<1>16. CpuDeUno'
  <2>1. sem'["cpu_libre"] = sem["cpu_libre"] + 1
    BY <1>9, SonSemaforos
  <2> QED BY <1>1, <1>2, <1>10, <1>15, <2>1 DEF Cuentas, CpuDeUno, Uno
<1>17. /\ SemaforosFieles /\ MitadesIguales /\ pc' = pc /\ grado_max' = grado_max
       /\ Len(cola["New"]) \in Nat /\ Len(cola["Ready"]) \in Nat
       /\ Len(cola["Bloqueados"]) \in Nat /\ Len(cola["Finalizados"]) \in Nat
  BY <1>1, <1>2, ConsolaQuieta, Numeros DEF Cuentas
<1>18. PICK a \in Nat, b \in Nat : a = Len(cola["Ready"]) /\ b = Len(cola["Bloqueados"])
  BY <1>1, Numeros
<1>19. EnMemoria = a + b + 1
  BY <1>3, <1>18 DEF EnMemoria, p
<1>20. EnMemoria' = Len(cola'["Ready"]) + Len(cola'["Bloqueados"]) + 0
  BY <1>2 DEF EnMemoria
<1>21. CASE c = "Finalizados" /\ S = {"procesos_en_exit", "grado_de_multiprogramacion"}
  <2>1. /\ Len(cola'["Finalizados"]) = Len(cola["Finalizados"]) + 1
        /\ cola'["New"] = cola["New"] /\ cola'["Ready"] = cola["Ready"]
        /\ cola'["Bloqueados"] = cola["Bloqueados"]
    BY <1>7, <1>21, SonColas
  <2>2. /\ sem'["procesos_en_exit"] = sem["procesos_en_exit"] + 1
        /\ sem'["procesos_en_new"] = sem["procesos_en_new"]
        /\ sem'["procesos_en_ready"] = sem["procesos_en_ready"]
        /\ sem'["procesos_en_blocked"] = sem["procesos_en_blocked"]
        /\ sem'["grado_de_multiprogramacion"] = sem["grado_de_multiprogramacion"] + 1
    BY <1>9, <1>21, SonSemaforos
  <2>3. SemaforosFieles'
    <3>1. /\ Len(cola'["New"]) = Len(cola["New"]) + 0 /\ Len(cola'["Ready"]) = Len(cola["Ready"]) + 0
          /\ Len(cola'["Bloqueados"]) = Len(cola["Bloqueados"]) + 0
          /\ Len(cola'["Finalizados"]) = Len(cola["Finalizados"]) + 1
      BY <1>17, <2>1
    <3>2. /\ sem'["procesos_en_new"] + Uno(pc'["largo"] = "grado")
               = sem["procesos_en_new"] + Uno(pc["largo"] = "grado") + 0
          /\ sem'["procesos_en_ready"] + Uno(pc'["corto"] = "exec")
               = sem["procesos_en_ready"] + Uno(pc["corto"] = "exec") + 0
          /\ sem'["procesos_en_blocked"] = sem["procesos_en_blocked"] + 0
          /\ sem'["procesos_en_exit"] = sem["procesos_en_exit"] + 1
      BY <1>15, <1>17, <2>2 DEF Uno
    <3> QED BY <1>1, <1>11, <1>17, <3>1, <3>2, MueveCuentas
  <2>4. EnMemoria' = a + b
    BY <1>18, <1>20, <2>1
  <2>5. GradoConservado => GradoConservado'
    BY <1>1, <1>11, <1>15, <1>17, <1>19, <2>2, <2>4, MueveGrado
  <2> QED BY <1>1, <1>11, <1>12, <1>14, <1>16, <2>3, <2>5 DEF RInv, Cuentas
<1>22. CASE c = "Ready" /\ S = {"procesos_en_ready"}
  <2>1. /\ Len(cola'["Ready"]) = Len(cola["Ready"]) + 1
        /\ cola'["New"] = cola["New"] /\ cola'["Finalizados"] = cola["Finalizados"]
        /\ cola'["Bloqueados"] = cola["Bloqueados"]
    BY <1>7, <1>22, SonColas
  <2>2. /\ sem'["procesos_en_exit"] = sem["procesos_en_exit"]
        /\ sem'["procesos_en_new"] = sem["procesos_en_new"]
        /\ sem'["procesos_en_ready"] = sem["procesos_en_ready"] + 1
        /\ sem'["procesos_en_blocked"] = sem["procesos_en_blocked"]
        /\ sem'["grado_de_multiprogramacion"] = sem["grado_de_multiprogramacion"]
    BY <1>9, <1>22, SonSemaforos
  <2>3. SemaforosFieles'
    <3>1. /\ Len(cola'["New"]) = Len(cola["New"]) + 0 /\ Len(cola'["Ready"]) = Len(cola["Ready"]) + 1
          /\ Len(cola'["Bloqueados"]) = Len(cola["Bloqueados"]) + 0
          /\ Len(cola'["Finalizados"]) = Len(cola["Finalizados"]) + 0
      BY <1>17, <2>1
    <3>2. /\ sem'["procesos_en_new"] + Uno(pc'["largo"] = "grado")
               = sem["procesos_en_new"] + Uno(pc["largo"] = "grado") + 0
          /\ sem'["procesos_en_ready"] + Uno(pc'["corto"] = "exec")
               = sem["procesos_en_ready"] + Uno(pc["corto"] = "exec") + 1
          /\ sem'["procesos_en_blocked"] = sem["procesos_en_blocked"] + 0
          /\ sem'["procesos_en_exit"] = sem["procesos_en_exit"] + 0
      BY <1>15, <1>17, <2>2 DEF Uno
    <3> QED BY <1>1, <1>11, <1>17, <3>1, <3>2, MueveCuentas
  <2>4. EnMemoria' = (a + 1) + b
    BY <1>18, <1>20, <2>1
  <2>5. GradoConservado => GradoConservado'
    BY <1>1, <1>11, <1>15, <1>17, <1>19, <2>2, <2>4, MueveGrado
  <2> QED BY <1>1, <1>11, <1>12, <1>14, <1>16, <2>3, <2>5 DEF RInv, Cuentas
<1>23. CASE c = "Bloqueados" /\ S = {"procesos_en_blocked"}
  <2>1. /\ Len(cola'["Bloqueados"]) = Len(cola["Bloqueados"]) + 1
        /\ cola'["New"] = cola["New"] /\ cola'["Finalizados"] = cola["Finalizados"]
        /\ cola'["Ready"] = cola["Ready"]
    BY <1>7, <1>23, SonColas
  <2>2. /\ sem'["procesos_en_exit"] = sem["procesos_en_exit"]
        /\ sem'["procesos_en_new"] = sem["procesos_en_new"]
        /\ sem'["procesos_en_ready"] = sem["procesos_en_ready"]
        /\ sem'["procesos_en_blocked"] = sem["procesos_en_blocked"] + 1
        /\ sem'["grado_de_multiprogramacion"] = sem["grado_de_multiprogramacion"]
    BY <1>9, <1>23, SonSemaforos
  <2>3. SemaforosFieles'
    <3>1. /\ Len(cola'["New"]) = Len(cola["New"]) + 0 /\ Len(cola'["Ready"]) = Len(cola["Ready"]) + 0
          /\ Len(cola'["Bloqueados"]) = Len(cola["Bloqueados"]) + 1
          /\ Len(cola'["Finalizados"]) = Len(cola["Finalizados"]) + 0
      BY <1>17, <2>1
    <3>2. /\ sem'["procesos_en_new"] + Uno(pc'["largo"] = "grado")
               = sem["procesos_en_new"] + Uno(pc["largo"] = "grado") + 0
          /\ sem'["procesos_en_ready"] + Uno(pc'["corto"] = "exec")
               = sem["procesos_en_ready"] + Uno(pc["corto"] = "exec") + 0
          /\ sem'["procesos_en_blocked"] = sem["procesos_en_blocked"] + 1
          /\ sem'["procesos_en_exit"] = sem["procesos_en_exit"] + 0
      BY <1>15, <1>17, <2>2 DEF Uno
    <3> QED BY <1>1, <1>11, <1>17, <3>1, <3>2, MueveCuentas
  <2>4. EnMemoria' = a + (b + 1)
    BY <1>18, <1>20, <2>1
  <2>5. GradoConservado => GradoConservado'
    BY <1>1, <1>11, <1>15, <1>17, <1>19, <2>2, <2>4, MueveGrado
  <2> QED BY <1>1, <1>11, <1>12, <1>14, <1>16, <2>3, <2>5 DEF RInv, Cuentas
<1> QED BY <1>21, <1>22, <1>23

LEMMA PasoDejan ==
  ASSUME RInv, ~falla, ExecAFinalizado \/ ExecAReady \/ ExecABlock
  PROVE  RInv'
<1>1. CASE ExecAFinalizado
  BY <1>1, PasoDejaExec, Zenon DEF ExecAFinalizado
<1>2. CASE ExecAReady
  BY <1>2, PasoDejaExec, Zenon DEF ExecAReady
<1>3. CASE ExecABlock
  BY <1>3, PasoDejaExec, Zenon DEF ExecABlock
<1> QED BY <1>1, <1>2, <1>3

(***************************************************************************)
(* The invariant, and what follows from it.                                *)
(***************************************************************************)
LEMMA InicioRInv == Init => RInv
<1> SUFFICES ASSUME Init PROVE RInv
  OBVIOUS
<1>1. sem \in [Semaforos -> Nat]
  BY GradoAssumption DEF Init
<1>2. /\ sem["cpu_libre"] = 1 /\ sem["grado_de_multiprogramacion"] = GradoMax
      /\ sem["procesos_en_new"] = 0 /\ sem["procesos_en_ready"] = 0
      /\ sem["procesos_en_blocked"] = 0 /\ sem["procesos_en_exit"] = 0
  BY SonSemaforos DEF Init
<1>3. /\ cola \in [Colas -> Seq(Pids)]
      /\ \A c \in Colas : cola[c] = <<>> /\ Len(cola[c]) = 0 /\ ToSet(cola[c]) = {} /\ IsInjective(cola[c])
  BY DEF Init, ToSet, IsInjective
<1>4. cpu \in EstadosCpu /\ cpu.fase = "libre"
  BY CpuSinNadie DEF Init
<1>5. TypeOK
  <2>1. TipoProcesos
    BY DEF Init, TipoProcesos
  <2>2. TipoPlanif
    BY <1>1, <1>3, GradoAssumption DEF Init, TipoPlanif
  <2>3. TipoRecursos
    <3>1. <<>> \in Seq(Pids) /\ <<>> \in Seq(Recursos)
      OBVIOUS
    <3>2. InstanciasDe \in [Recursos -> Nat]
      BY InstanciasAssumption
    <3> QED BY <3>1, <3>2 DEF Init, TipoRecursos
  <2>4. TipoHilos
    BY CotasAssumption, SonHilos DEF Init, TipoHilos
  <2>5. TipoMaquina
    BY <1>4 DEF Init, TipoMaquina
  <2> QED BY <2>1, <2>2, <2>3, <2>4, <2>5 DEF TypeOK
<1>6. Hilada
  BY <1>4, SonHilos DEF Init, Hilada
<1>7. Lugar
  <2>1. Conocidos = {}
    BY SonHilos DEF Init, Conocidos, Retirado
  <2> QED BY <1>3, <2>1, SonColas DEF Init, Lugar, EnCola
<1>8. CpuDeUno
  BY <1>2, <1>4, SonHilos DEF Init, CpuDeUno, Uno
<1>9. SemaforosFieles
  <2>1. pc["largo"] = "inicio" /\ pc["corto"] = "inicio" /\ pc["consola"] = "inicio"
    BY SonHilos DEF Init
  <2>2. Tomada("NEW") = 0 /\ Tomada("READY") = 0 /\ Tomada("BLOCKED") = 0 /\ PorAvisar = 0
    BY <2>1 DEF Tomada, PorAvisar
  <2> QED BY <1>2, <1>3, <2>1, <2>2, SonColas DEF SemaforosFieles
<1>10. GradoConservado
  <2>1. EnMemoria = 0 /\ PorLiberar = 0 /\ grado_max = GradoMax
    BY <1>3, SonColas, SonHilos DEF Init, EnMemoria, PorLiberar
  <2> QED BY <1>2, <2>1, GradoAssumption DEF GradoConservado
<1> QED BY <1>5, <1>6, <1>7, <1>8, <1>9, <1>10 DEF RInv, Cuentas

\* A step that is not of the console leaves its locals alone, and gives nobody
\* a token of NEW.
LEMMA PasoDeOtro ==
  ASSUME TypeOK,
         PlanificadorLargo \/ PlanificadorCorto \/ Cpu \/ AtenderCpu \/ TerminarProceso
  PROVE  /\ pc'["consola"] = pc["consola"] /\ UNCHANGED mandos /\ interrupciones' = interrupciones
         /\ sem'["procesos_en_new"] <= sem["procesos_en_new"]
<1>1. sem["procesos_en_new"] \in Nat /\ pc \in [Hilos -> Puntos]
  BY SonSemaforos DEF TypeOK, TipoPlanif, TipoHilos
<1>2. CASE LargoEsperaNew
  <2>1. sem'["procesos_en_new"] = sem["procesos_en_new"] - 1
    BY <1>2, SemEspera, SonSemaforos DEF LargoEsperaNew
  <2>2. UNCHANGED <<mandos, interrupciones>> /\ pc'["consola"] = pc["consola"]
    BY <1>1, <1>2, SonHilos DEF LargoEsperaNew, Ir, maquina
  <2> QED BY <1>1, <2>1, <2>2
<1>3. CASE NewAReady
  <2>1. sem'["procesos_en_new"] = sem["procesos_en_new"]
    <3>1. CASE cola["New"] = <<>>
      <4>1. Espera("grado_de_multiprogramacion")
        BY <1>3, <3>1 DEF NewAReady
      <4> QED BY <4>1, SemEspera, SonSemaforos
    <3>2. CASE cola["New"] # <<>>
      <4>1. EsperaYPost("grado_de_multiprogramacion", {"procesos_en_ready"})
        BY <1>3, <3>2 DEF NewAReady
      <4> QED BY <1>1, <4>1, SemEsperaYPost, SonSemaforos
    <3> QED BY <3>1, <3>2
  <2>2. UNCHANGED <<mandos, interrupciones>> /\ pc'["consola"] = pc["consola"]
    BY <1>1, <1>3, SonHilos DEF NewAReady, Ir, maquina
  <2> QED BY <1>1, <2>1, <2>2
<1>4. CASE CortoEsperaCpu
  <2>1. sem'["procesos_en_new"] = sem["procesos_en_new"]
    BY <1>4, SemEspera, SonSemaforos DEF CortoEsperaCpu
  <2>2. UNCHANGED <<mandos, interrupciones>> /\ pc'["consola"] = pc["consola"]
    BY <1>1, <1>4, SonHilos DEF CortoEsperaCpu, Ir, maquina
  <2> QED BY <1>1, <2>1, <2>2
<1>5. CASE CortoEsperaReady
  <2>1. sem'["procesos_en_new"] = sem["procesos_en_new"]
    BY <1>5, SemEspera, SonSemaforos DEF CortoEsperaReady
  <2>2. UNCHANGED <<mandos, interrupciones>> /\ pc'["consola"] = pc["consola"]
    BY <1>1, <1>5, SonHilos DEF CortoEsperaReady, Ir, maquina
  <2> QED BY <1>1, <2>1, <2>2
<1>6. CASE ReadyAExec
  <2>1. sem'["procesos_en_new"] = sem["procesos_en_new"]
    <3>1. CASE cola["Ready"] = <<>>
      BY <1>6, <3>1 DEF ReadyAExec
    <3>2. CASE cola["Ready"] # <<>>
      <4>1. Post({"cpu_debe_retornar"})
        BY <1>6, <3>2 DEF ReadyAExec
      <4> QED BY <4>1, SemPost, SonSemaforos
    <3> QED BY <3>1, <3>2
  <2>2. UNCHANGED <<mandos, interrupciones>> /\ pc'["consola"] = pc["consola"]
    BY <1>1, <1>6, SonHilos DEF ReadyAExec, Ir
  <2> QED BY <1>1, <2>1, <2>2
<1>7. CASE Cpu
  <2>1. UNCHANGED <<sem, mandos, interrupciones, pc>>
    BY <1>7 DEF Cpu, CpuFetch, CpuVence, CpuDevuelve, planif
  <2> QED BY <1>1, <2>1
<1>8. CASE TerminarProceso
  <2>1. sem'["procesos_en_new"] = sem["procesos_en_new"]
    BY <1>8, SemEspera, SonSemaforos DEF TerminarProceso
  <2>2. UNCHANGED <<mandos, interrupciones, pc>>
    BY <1>8 DEF TerminarProceso, maquina
  <2> QED BY <1>1, <2>1, <2>2
<1>9. CASE EvaluarWait \/ RecursoInexistente
  <2>1. /\ EsperaYPost("cpu_debe_retornar", {"cpu_debe_retornar"})
        /\ UNCHANGED <<mandos, interrupciones, pc>>
    BY <1>9 DEF EvaluarWait, RecursoInexistente
  <2>2. sem'["procesos_en_new"] = sem["procesos_en_new"]
    BY <1>1, <2>1, SemEsperaYPost, SonSemaforos
  <2> QED BY <1>1, <2>1, <2>2
<1>10. CASE EvaluarSignal
  <2>1. /\ \/ EsperaYPost("cpu_debe_retornar", {"cpu_debe_retornar"}) /\ pc' = pc
           \/ Espera("cpu_debe_retornar") /\ pc' = [pc EXCEPT !["cde"] = "despierta"]
        /\ UNCHANGED <<mandos, interrupciones>>
    BY <1>10 DEF EvaluarSignal
  <2>2. sem'["procesos_en_new"] = sem["procesos_en_new"]
    <3>1. CASE Espera("cpu_debe_retornar")
      BY <3>1, SemEspera, SonSemaforos
    <3>2. CASE EsperaYPost("cpu_debe_retornar", {"cpu_debe_retornar"})
      BY <1>1, <3>2, SemEsperaYPost, SonSemaforos
    <3> QED BY <2>1, <3>1, <3>2
  <2>3. pc'["consola"] = pc["consola"]
    BY <1>1, <2>1, SonHilos
  <2> QED BY <1>1, <2>1, <2>2, <2>3
<1>11. CASE CdeDespierta
  <2>1. /\ EsperaYPost("procesos_en_blocked", {"procesos_en_ready"})
        /\ pc' = [pc EXCEPT !["cde"] = "responde"] /\ UNCHANGED <<mandos, interrupciones>>
    BY <1>11 DEF CdeDespierta, BlockAReady, Ir, maquina
  <2>2. sem'["procesos_en_new"] = sem["procesos_en_new"]
    BY <1>1, <2>1, SemEsperaYPost, SonSemaforos
  <2>3. pc'["consola"] = pc["consola"]
    BY <1>1, <2>1, SonHilos
  <2> QED BY <1>1, <2>1, <2>2, <2>3
<1>12. CASE CdeResponde
  <2>1. /\ Post({"cpu_debe_retornar"})
        /\ pc' = [pc EXCEPT !["cde"] = "inicio"] /\ UNCHANGED <<mandos, interrupciones>>
    BY <1>12 DEF CdeResponde, Ir
  <2>2. sem'["procesos_en_new"] = sem["procesos_en_new"]
    BY <2>1, SemPost, SonSemaforos
  <2>3. pc'["consola"] = pc["consola"]
    BY <1>1, <2>1, SonHilos
  <2> QED BY <1>1, <2>1, <2>2, <2>3
<1>13. CASE ExecAFinalizado \/ ExecAReady \/ ExecABlock
  <2>1. ASSUME NEW ms, NEW c, NEW e,
               NEW S \in {{"procesos_en_exit", "grado_de_multiprogramacion"},
                          {"procesos_en_ready"}, {"procesos_en_blocked"}},
               DejaExec(ms, c, e, S)
        PROVE  /\ UNCHANGED <<mandos, interrupciones, pc>>
               /\ sem'["procesos_en_new"] = sem["procesos_en_new"]
    <3>1. EsperaYPost("cpu_debe_retornar", {"cpu_libre"} \cup S) /\ UNCHANGED <<mandos, interrupciones, pc>>
      BY <2>1 DEF DejaExec
    <3>2. "procesos_en_new" \notin {"cpu_libre"} \cup S
      BY <2>1
    <3> QED BY <1>1, <3>1, <3>2, SemEsperaYPost, SonSemaforos
  <2>2. /\ UNCHANGED <<mandos, interrupciones, pc>>
        /\ sem'["procesos_en_new"] = sem["procesos_en_new"]
    BY <1>13, <2>1 DEF ExecAFinalizado, ExecAReady, ExecABlock
  <2> QED BY <1>1, <2>2
<1> QED BY <1>2, <1>3, <1>4, <1>5, <1>6, <1>7, <1>8, <1>9, <1>10, <1>11, <1>12, <1>13
        DEF PlanificadorLargo, PlanificadorCorto, AtenderCpu

LEMMA PasoRInv == ASSUME RInv, Servida, [Next]_vars PROVE RInv'
<1>1. CASE UNCHANGED vars
  <2>1. UNCHANGED <<estado, contador, procesos_globales, memoria, pcb_en_ejecucion, cola, sem, grado_max,
                    instancias, procesos_bloqueados, recursos_asignados, recursos_solicitados, pc,
                    despertado, pcb_a_liberar, indice, caso, grado_a_asignar, leido, ordenes, cpu,
                    interrupciones, interrupcion, falla>>
    BY <1>1 DEF vars, procesos, planif, recursos, mandos, maquina
  <2>2. TypeOK'
    BY <2>1 DEF RInv, TypeOK, TipoProcesos, TipoPlanif, TipoRecursos, TipoHilos, TipoMaquina
  <2>3. Hilada'
    BY <2>1 DEF RInv, Hilada
  <2>4. CASE falla
    BY <2>1, <2>2, <2>3, <2>4 DEF RInv
  <2>5. CASE ~falla
    <3>1. MitadesIguales /\ Conocidos' \subseteq Conocidos
      BY <2>1, ConsolaQuieta DEF Conocidos, mandos
    <3> QED BY <2>1, <2>2, <2>3, <2>5, <3>1, Marco
  <2> QED BY <2>4, <2>5
<1>2. CASE Next
  <2>1. ~falla /\ Retirando /\ Escribiendo
    BY <1>2 DEF Next, Servida
  <2>2. CASE IniciarProceso \/ FinalizarProceso \/ LiberaRecurso \/ ConsolaDespierta \/ VaciaListas
    BY <2>1, <2>2, PasoIniciarProceso, PasoFinalizarProceso, PasoLiberaRecurso,
       PasoConsolaDespierta, PasoVaciaListas
  <2>3. CASE RetiraLee \/ RetiraExec \/ RetiraEspera \/ RetiraQuita \/ FinalizaPcb \/ FinalizaAvisa
    BY <2>1, <2>3, PasoRetiraLee, PasoRetiraExec, PasoRetiraEspera, PasoRetiraQuita, PasoFinalizaPcb,
       PasoFinalizaAvisa
  <2>4. CASE CambiarGrado \/ GradoEscribe \/ GradoSuma
    BY <2>1, <2>4, PasoCambiarGrado, PasoGradoEscribe, PasoGradoSuma
  <2>5. CASE CpuInterrupt \/ Cpu
    BY <2>1, <2>5, PasoCpu
  <2>6. CASE PlanificadorLargo \/ PlanificadorCorto \/ TerminarProceso
    BY <2>1, <2>6, PasoEsperas, PasoNewAReady, PasoReadyAExec, PasoTerminarProceso
    DEF PlanificadorLargo, PlanificadorCorto
  <2>7. CASE AtenderCpu
    BY <2>1, <2>7, PasoEvaluarWait, PasoEvaluarSignal, PasoRecursoInexistente, PasoCdeDespierta,
       PasoCdeResponde, PasoDejan
    DEF AtenderCpu
  <2> QED BY <1>2, <2>2, <2>3, <2>4, <2>5, <2>6, <2>7 DEF Next, Consola, ConsolaSigue
<1> QED BY <1>1, <1>2

(***************************************************************************)
(* A command is served whole.                                              *)
(***************************************************************************)
\* The rest of the system leaves a hung console hung.
LEMMA ServidaDeOtro ==
  ASSUME RInv, RInv', Servida, ~CarreraConsola, SinOrdenPendiente,
         PlanificadorLargo \/ PlanificadorCorto \/ Cpu \/ AtenderCpu \/ TerminarProceso
  PROVE  Servida'
<1>1. /\ pc'["consola"] = pc["consola"] /\ caso' = caso
      /\ interrupciones' = {} /\ (pc["consola"] = "inicio" \/ Colgada)
      /\ sem'["procesos_en_new"] <= sem["procesos_en_new"]
  BY PasoDeOtro DEF RInv, SinOrdenPendiente, mandos
<1>2. CASE pc["consola"] = "inicio"
  BY <1>1, <1>2 DEF Servida, Quieto, Retirando, Escribiendo, Trabaja
<1>3. CASE Colgada
  <2>1. pc["consola"] = "espera" /\ caso = "NEW" /\ sem["procesos_en_new"] = 0
    BY <1>3 DEF Colgada, Servida, Retirando, TokenDe
  <2>2. sem'["procesos_en_new"] \in Nat
    BY SonSemaforos DEF RInv, TypeOK, TipoPlanif
  <2>3. sem'["procesos_en_new"] = 0
    BY <1>1, <2>1, <2>2
  <2>4. Colgada'
    BY <1>1, <2>1, <2>3 DEF Colgada, TokenDe
  <2> QED BY <1>1, <2>1, <2>4 DEF Servida, Quieto, Retirando, Escribiendo, Trabaja
<1> QED BY <1>1, <1>2, <1>3

\* The token of the queue is there, but for that of NEW.
LEMMA ServidaRetiraLee == ASSUME RInv, ~falla, Servida, RetiraLee PROVE Servida'
<1> DEFINE p == pcb_a_liberar
<1>1. /\ pc["consola"] = "retira" /\ pc' = [pc EXCEPT !["consola"] = "espera"]
      /\ caso' = estado[p] /\ estado[p] \in {"NEW", "READY", "BLOCKED"}
      /\ UNCHANGED <<estado, sem, pcb_a_liberar, cpu, interrupciones>>
  BY DEF RetiraLee, Ir, ColaDe, procesos, planif, maquina
<1>2. TypeOK /\ SemaforosFieles /\ Lugar /\ pc["cde"] = "inicio" /\ pc["corto"] # "exec"
      /\ cpu.fase \in {"libre", "corre"}
  BY <1>1 DEF RInv, Cuentas, Servida, Quieto, Trabaja, Colgada
<1>3. /\ pc'["consola"] = "espera" /\ pc'["cde"] = pc["cde"] /\ pc'["corto"] = pc["corto"]
  BY <1>1, <1>2, SonHilos, PcMueve
<1>4. p \in Conocidos
  BY <1>1 DEF Conocidos, Retirado, RInv, Hilada
<1>5. /\ sem["procesos_en_ready"] \in Nat /\ sem["procesos_en_blocked"] \in Nat
      /\ cola["Ready"] \in Seq(Pids) /\ cola["Bloqueados"] \in Seq(Pids)
  BY <1>2, SonSemaforos, Numeros
<1>6. /\ Len(cola["Ready"]) = sem["procesos_en_ready"]
      /\ Len(cola["Bloqueados"]) = sem["procesos_en_blocked"]
  <2>1. Tomada("READY") = 0 /\ Tomada("BLOCKED") = 0
    BY <1>1 DEF Tomada
  <2> QED BY <1>2, <1>5, <2>1 DEF SemaforosFieles
<1>7. ASSUME estado[p] = "READY" PROVE sem["procesos_en_ready"] > 0
  <2>1. p \in ToSet(cola["Ready"])
    BY <1>2, <1>4, <1>7 DEF Lugar, EnCola
  <2>2. cola["Ready"] # <<>>
    BY <2>1 DEF ToSet
  <2> QED BY <1>5, <1>6, <2>2
<1>8. ASSUME estado[p] = "BLOCKED" PROVE sem["procesos_en_blocked"] > 0
  <2>1. p \in ToSet(cola["Bloqueados"])
    BY <1>2, <1>4, <1>8 DEF Lugar, EnCola
  <2>2. cola["Bloqueados"] # <<>>
    BY <2>1 DEF ToSet
  <2> QED BY <1>5, <1>6, <2>2
<1>9. Colgada' => caso' = "NEW"
  BY <1>1, <1>3, <1>7, <1>8 DEF Colgada, TokenDe
<1> QED BY <1>1, <1>2, <1>3, <1>9 DEF Servida, Quieto, Retirando, Escribiendo, Trabaja

\* What is read of the degree, and what is written with it.
LEMMA ServidaGrado ==
  ASSUME RInv, ~falla, Servida, CambiarGrado \/ GradoEscribe \/ GradoSuma
  PROVE  Servida'
<1>1. /\ TypeOK /\ pc \in [Hilos -> Puntos] /\ sem \in [Semaforos -> Nat]
      /\ sem["grado_de_multiprogramacion"] \in Nat /\ grado_max \in Nat
  BY SonSemaforos DEF RInv, TypeOK, TipoHilos, TipoPlanif
<1>2. ASSUME UNCHANGED <<cpu, interrupciones>>, NEW a \in {"escribe", "suma", "inicio"},
             pc' = [pc EXCEPT !["consola"] = a]
      PROVE  Quieto' /\ Retirando' /\ pc'["consola"] = a
  <2>1. pc'["consola"] = a /\ pc'["cde"] = pc["cde"] /\ pc'["corto"] = pc["corto"]
    BY <1>1, <1>2, SonHilos
  <2> QED BY <1>2, <2>1 DEF Servida, Quieto, Retirando, Trabaja
<1>3. CASE CambiarGrado
  <2>1. PICK n \in GradosPedidos :
          /\ pc' = [pc EXCEPT !["consola"] = "escribe"]
          /\ (BajaDelGrado \/ Diferencia(n) >= 0)
          /\ grado_a_asignar' = n /\ leido' = Diferencia(n) - 1
          /\ UNCHANGED <<sem, grado_max, cpu, interrupciones>>
    BY <1>3 DEF CambiarGrado, Ir, planif, maquina
  <2>2. n \in Int
    BY GradoAssumption
  <2>3. leido' = n - grado_max + sem["grado_de_multiprogramacion"] - 1
    BY <1>1, <2>1, <2>2 DEF Diferencia
  <2>4. BajaDelGrado \/ leido' >= -1
    BY <1>1, <2>1, <2>2 DEF Diferencia
  <2> QED BY <1>2, <2>1, <2>3, <2>4 DEF Servida, Escribiendo
<1>4. CASE GradoEscribe
  <2>1. /\ pc["consola"] = "escribe" /\ pc' = [pc EXCEPT !["consola"] = "suma"]
        /\ sem' = [sem EXCEPT !["grado_de_multiprogramacion"] = leido % ModSem]
        /\ UNCHANGED <<cola, pcb_en_ejecucion, grado_max, grado_a_asignar, leido, cpu, interrupciones>>
    BY <1>4 DEF GradoEscribe, Ir, procesos, mandos, maquina
  <2>2. /\ grado_a_asignar \in GradosPedidos /\ (BajaDelGrado \/ leido >= -1)
        /\ leido = grado_a_asignar - grado_max + sem["grado_de_multiprogramacion"] - 1
    BY <2>1 DEF Servida, Escribiendo
  <2>3. sem'["grado_de_multiprogramacion"] = leido % ModSem
    BY <1>1, <2>1, SonSemaforos
  <2>4. EnMemoria' = EnMemoria
    BY <2>1 DEF EnMemoria
  <2>5. BajaDelGrado \/ leido + 1 + EnMemoria = grado_a_asignar
    <3>1. ASSUME ~BajaDelGrado PROVE leido + 1 + EnMemoria = grado_a_asignar
      <4>1. PorLiberar = 0
        BY <2>1 DEF PorLiberar
      <4>2. sem["grado_de_multiprogramacion"] + EnMemoria + 0 = grado_max
        BY <2>1, <3>1, <4>1 DEF RInv, Cuentas, GradoConservado
      <4>3. EnMemoria \in Nat /\ grado_a_asignar \in Int
        BY <1>1, <2>2, Numeros, GradoAssumption
      <4>4. PICK g \in Int, m \in Nat, s \in Nat, k \in Nat :
              /\ g = grado_a_asignar /\ m = grado_max /\ k = EnMemoria
              /\ s = sem["grado_de_multiprogramacion"]
        BY <1>1, <4>3, Zenon
      <4>5. s + k + 0 = m /\ leido = g - m + s - 1
        BY <2>2, <4>2, <4>4, Zenon
      <4>6. leido + 1 + k = g
        BY <4>5
      <4> QED BY <4>4, <4>6, Zenon
    <3> QED BY <3>1
  <2> QED BY <1>2, <2>1, <2>2, <2>3, <2>4, <2>5 DEF Servida, Escribiendo
<1>5. CASE GradoSuma
  <2>1. pc' = [pc EXCEPT !["consola"] = "inicio"] /\ UNCHANGED <<cpu, interrupciones>>
    BY <1>5 DEF GradoSuma, Ir, maquina
  <2> QED BY <1>2, <2>1 DEF Servida, Escribiendo
<1> QED BY <1>3, <1>4, <1>5

LEMMA ServidaRetira ==
  ASSUME RInv, ~falla, Servida,
         RetiraExec \/ RetiraEspera \/ RetiraQuita \/ FinalizaPcb \/ FinalizaAvisa
  PROVE  Servida'
<1>1. TypeOK /\ pc \in [Hilos -> Puntos]
  BY DEF RInv, TypeOK, TipoHilos
<1>2. ASSUME cpu' = cpu, Trabaja,
             NEW a \in {"quita", "finaliza", "avisa", "inicio"}, pc' = [pc EXCEPT !["consola"] = a]
      PROVE  Quieto' /\ Escribiendo' /\ pc'["consola"] = a
  <2>1. pc'["consola"] = a /\ pc'["cde"] = pc["cde"] /\ pc'["corto"] = pc["corto"]
    BY <1>1, <1>2, SonHilos
  <2>2. pc["cde"] = "inicio" /\ pc["corto"] # "exec" /\ cpu.fase \in {"libre", "corre"}
    BY <1>2 DEF Servida, Quieto
  <2> QED BY <1>2, <2>1, <2>2 DEF Quieto, Escribiendo
<1>3. CASE RetiraExec \/ FinalizaAvisa
  <2>1. /\ pc["consola"] \in {"retira", "avisa"} /\ pc' = [pc EXCEPT !["consola"] = "inicio"]
        /\ cpu' = cpu
    BY <1>3 DEF RetiraExec, FinalizaAvisa, Olvida, Ir
  <2>2. Trabaja
    BY <2>1 DEF Trabaja, Colgada
  <2>3. Quieto' /\ Escribiendo' /\ pc'["consola"] = "inicio"
    BY <1>2, <2>1, <2>2
  <2> QED BY <2>3 DEF Servida, Retirando
<1>4. CASE RetiraEspera
  <2>1. /\ pc["consola"] = "espera" /\ pc' = [pc EXCEPT !["consola"] = "quita"]
        /\ sem[TokenDe[caso]] > 0 /\ UNCHANGED <<estado, caso, pcb_a_liberar, cpu>>
    BY <1>4 DEF RetiraEspera, Retirar, Espera, Ir, procesos, mandos, maquina
  <2>2. Trabaja /\ ~Colgada
    BY <2>1 DEF Trabaja, Colgada
  <2>3. Quieto' /\ Escribiendo' /\ pc'["consola"] = "quita"
    BY <1>2, <2>1, <2>2
  <2>4. estado[pcb_a_liberar] = caso /\ caso \in {"NEW", "READY", "BLOCKED"}
    BY <2>1, <2>2 DEF Servida, Retirando
  <2> QED BY <2>1, <2>3, <2>4 DEF Servida, Retirando
<1>5. CASE RetiraQuita \/ FinalizaPcb
  <2>1. PICK a \in {"finaliza", "avisa"} :
          /\ pc["consola"] \in {"quita", "finaliza"} /\ pc' = [pc EXCEPT !["consola"] = a]
          /\ UNCHANGED <<estado, caso, pcb_a_liberar, cpu>>
    BY <1>5 DEF RetiraQuita, FinalizaPcb, Ir, procesos, mandos, maquina
  <2>2. Trabaja
    BY <2>1 DEF Trabaja, Colgada
  <2>3. Quieto' /\ Escribiendo' /\ pc'["consola"] = a
    BY <1>2, <2>1, <2>2
  <2>4. estado[pcb_a_liberar] = caso /\ caso \in {"NEW", "READY", "BLOCKED"}
    BY <2>1 DEF Servida, Retirando
  <2> QED BY <2>1, <2>3, <2>4 DEF Servida, Retirando
<1> QED BY <1>3, <1>4, <1>5

LEMMA ServidaLibera ==
  ASSUME RInv, ~falla, Servida, LiberaRecurso \/ ConsolaDespierta \/ VaciaListas
  PROVE  Servida'
<1>1. TypeOK /\ pc \in [Hilos -> Puntos]
  BY DEF RInv, TypeOK, TipoHilos
<1>2. /\ pc["consola"] \in {"libera", "despierta"} /\ cpu' = cpu
      /\ pc' = pc \/ \E a \in {"libera", "despierta", "retira"} : pc' = [pc EXCEPT !["consola"] = a]
  BY DEF LiberaRecurso, ConsolaDespierta, VaciaListas, BlockAReady, Ir, maquina
<1>3. /\ pc'["consola"] \in {"libera", "despierta", "retira"}
      /\ pc'["cde"] = pc["cde"] /\ pc'["corto"] = pc["corto"]
  BY <1>1, <1>2, SonHilos
<1>4. pc["cde"] = "inicio" /\ pc["corto"] # "exec" /\ cpu.fase \in {"libre", "corre"}
  BY <1>2 DEF Servida, Quieto, Trabaja, Colgada
<1> QED BY <1>2, <1>3, <1>4 DEF Servida, Quieto, Retirando, Escribiendo

LEMMA PasoServida ==
  ASSUME RInv, RInv', Servida, ~CarreraConsola, [Next]_vars
  PROVE  Servida'
<1>1. TypeOK /\ pc \in [Hilos -> Puntos]
  BY DEF RInv, TypeOK, TipoHilos
<1>2. CASE UNCHANGED vars
  <2>1. UNCHANGED <<estado, sem, grado_max, cola, pcb_en_ejecucion, pc, pcb_a_liberar, caso,
                    grado_a_asignar, leido, cpu, interrupciones>>
    BY <1>2 DEF vars, procesos, planif, mandos, maquina
  <2> QED BY <2>1 DEF Servida, Quieto, Retirando, Escribiendo, Trabaja, Colgada, EnMemoria
<1>3. CASE Next
  <2>1. ~falla
    BY <1>3 DEF Next
  <2>2. CASE CpuInterrupt
    <3>1. /\ interrupciones # {}
          /\ UNCHANGED <<estado, sem, grado_max, cola, pcb_en_ejecucion, pc, pcb_a_liberar, caso,
                         grado_a_asignar, leido, cpu>>
      BY <2>2 DEF CpuInterrupt, procesos, planif, mandos
    <3> QED BY <3>1 DEF Servida, Quieto, Retirando, Escribiendo, Trabaja, Colgada, EnMemoria
  <2>3. CASE IniciarProceso
    <3>1. pc["consola"] = "inicio" /\ UNCHANGED <<pc, cpu, interrupciones>>
      BY <2>3 DEF IniciarProceso, maquina
    <3> QED BY <3>1 DEF Servida, Quieto, Retirando, Escribiendo, Trabaja
  <2>4. CASE FinalizarProceso
    <3>1. EnReposo /\ pc' = [pc EXCEPT !["consola"] = "libera"] /\ UNCHANGED <<cpu, interrupciones>>
      BY <2>4 DEF FinalizarProceso, Ir, maquina
    <3>2. pc'["consola"] = "libera" /\ pc'["cde"] = pc["cde"] /\ pc'["corto"] = pc["corto"]
      BY <1>1, <3>1, SonHilos
    <3> QED BY <3>1, <3>2 DEF Servida, Quieto, Retirando, Escribiendo, EnReposo
  <2>5. CASE LiberaRecurso \/ ConsolaDespierta \/ VaciaListas
    BY <2>1, <2>5, ServidaLibera
  <2>6. CASE RetiraLee
    BY <2>1, <2>6, ServidaRetiraLee
  <2>7. CASE RetiraExec \/ RetiraEspera \/ RetiraQuita \/ FinalizaPcb \/ FinalizaAvisa
    BY <2>1, <2>7, ServidaRetira
  <2>8. CASE CambiarGrado \/ GradoEscribe \/ GradoSuma
    BY <2>1, <2>8, ServidaGrado
  <2>9. CASE /\ SinOrdenPendiente
             /\ PlanificadorLargo \/ PlanificadorCorto \/ Cpu \/ AtenderCpu \/ TerminarProceso
    BY <2>9, ServidaDeOtro
  <2> QED BY <1>3, <2>2, <2>3, <2>4, <2>5, <2>6, <2>7, <2>8, <2>9 DEF Next, Consola, ConsolaSigue
<1> QED BY <1>2, <1>3

LEMMA InicioServida == Init => Servida
<1> SUFFICES ASSUME Init PROVE Servida
  OBVIOUS
<1>1. pc["consola"] = "inicio" /\ interrupciones = {}
  BY SonHilos DEF Init
<1> QED BY <1>1 DEF Servida, Quieto, Retirando, Escribiendo, Trabaja

LEMMA SiempreServida == ASSUME ~CarreraConsola PROVE Spec => [](RInv /\ Servida)
<1>1. RInv /\ Servida /\ [Next]_vars => (RInv /\ Servida)'
  BY PasoRInv, PasoServida
<1> QED BY <1>1, InicioRInv, InicioServida, PTL DEF Spec

\* With commands that are served whole, every variable keeps its type,
\* BajaDelGrado or not: no instance is ever counted below zero, no list holds
\* a NULL, and the console does nothing but what its point says.
THEOREM RecursosTipados == ~CarreraConsola => (Spec => []TypeOK)
<1> SUFFICES ASSUME ~CarreraConsola PROVE Spec => []TypeOK
  OBVIOUS
<1>1. RInv /\ Servida => TypeOK
  BY DEF RInv
<1> QED BY <1>1, SiempreServida, PTL

(***************************************************************************)
(* Who sleeps, when a command of the console is served whole.              *)
(***************************************************************************)
\* An INTERRUPT that was read finds the process running.
Atenta == interrupcion => cpu.fase = "corre"

EnEspera(p) == \E r \in Recursos : p \in ToSet(procesos_bloqueados[r])

\* A process is in one queue, once.
UnaVez ==
  /\ \A r \in Recursos : IsInjective(procesos_bloqueados[r])
  /\ \A r, s \in Recursos :
       r # s => ToSet(procesos_bloqueados[r]) \cap ToSet(procesos_bloqueados[s]) = {}

Duerme(p) ==
  \/ p \in ToSet(cola["Bloqueados"]) /\ ~PorSalir(p)
  \/ p = pcb_en_ejecucion /\ cpu.motivo = "RECURSO_NO_DISPONIBLE"

Dormidos == \A p \in Pids : EnEspera(p) <=> Duerme(p)

Pedidos ==
  \A r \in Recursos : \A p \in ToSet(procesos_bloqueados[r]) : r \in ToSet(recursos_solicitados[p])

\* Who is to be woken is there, and is woken by who chose it.
Elegidos ==
  /\ \A h \in {"cde", "consola"} :
       despertado[h] # Nulo => pc[h] = "despierta" /\ despertado[h] \in ToSet(cola["Bloqueados"])
  /\ cpu.motivo = "RECURSO_NO_DISPONIBLE" => cpu.fase \in {"sale", "devuelto"}

\* Nobody waits for what is free.
Agotados == \A r \in Recursos : instancias[r] > 0 => procesos_bloqueados[r] = <<>>

Recorrido ==
  pc["consola"] \in {"libera", "despierta"} => indice <= Len(recursos_asignados[pcb_a_liberar]) + 1

FInv ==
  /\ RInv /\ SinFalla /\ Servida /\ Atenta
  /\ UnaVez /\ Dormidos /\ Pedidos /\ Elegidos /\ Agotados /\ Recorrido

(***************************************************************************)
(* What the invariant says of one state.                                   *)
(***************************************************************************)
\* The parts of the invariant, and the types the steps need.
LEMMA Partes ==
  ASSUME FInv
  PROVE  /\ RInv /\ ~falla /\ TypeOK /\ Hilada /\ Cuentas
         /\ Servida /\ Quieto /\ Retirando /\ Escribiendo /\ Atenta
         /\ UnaVez /\ Dormidos /\ Pedidos /\ Elegidos /\ Agotados /\ Recorrido
         /\ DOMAIN despertado = {"cde", "consola"}
         /\ \A r \in Recursos : procesos_bloqueados[r] \in Seq(Pids) /\ instancias[r] \in Nat
         /\ \A p \in Pids : recursos_asignados[p] \in Seq(Recursos) /\ recursos_solicitados[p] \in Seq(Recursos)
         /\ cola["Bloqueados"] \in Seq(Pids) /\ ToSet(cola["Bloqueados"]) \subseteq Pids
         /\ \A p \in ToSet(cola["Bloqueados"]) : estado[p] = "BLOCKED"
         /\ pcb_en_ejecucion # Nulo => estado[pcb_en_ejecucion] = "EXEC"
<1>1. RInv /\ ~falla /\ TypeOK /\ Hilada /\ Cuentas
  BY DEF FInv, RInv, SinFalla
<1>2. /\ Servida /\ Quieto /\ Retirando /\ Escribiendo /\ Atenta
      /\ UnaVez /\ Dormidos /\ Pedidos /\ Elegidos /\ Agotados /\ Recorrido
  BY DEF FInv, Servida
<1>3. DOMAIN despertado = {"cde", "consola"}
  BY <1>1 DEF TypeOK, TipoHilos
<1>4. /\ \A r \in Recursos : procesos_bloqueados[r] \in Seq(Pids) /\ instancias[r] \in Nat
      /\ \A p \in Pids : recursos_asignados[p] \in Seq(Recursos) /\ recursos_solicitados[p] \in Seq(Recursos)
  BY <1>1 DEF TypeOK, TipoRecursos
<1>5. cola["Bloqueados"] \in Seq(Pids) /\ ToSet(cola["Bloqueados"]) \subseteq Pids
  BY <1>1, SonColas, Numeros, Elementos
<1>6. /\ \A p \in ToSet(cola["Bloqueados"]) : estado[p] = "BLOCKED"
      /\ pcb_en_ejecucion # Nulo => estado[pcb_en_ejecucion] = "EXEC"
  BY <1>1 DEF Cuentas, Lugar, EnCola
<1> QED BY <1>1, <1>2, <1>3, <1>4, <1>5, <1>6

\* The rest of the system moves only when the console rests, or hangs.
LEMMA Quieta ==
  ASSUME FInv, ~CarreraConsola, SinOrdenPendiente
  PROVE  /\ pc["consola"] \in {"inicio", "espera"} /\ ~Dejando
         /\ interrupciones = {} /\ despertado["consola"] = Nulo
         /\ \A p \in Pids : PorSalir(p) <=> despertado["cde"] = p
<1>1. pc["consola"] = "inicio" \/ (pc["consola"] = "espera" /\ caso = "NEW")
  BY Partes DEF SinOrdenPendiente, Colgada, Retirando
<1>2. ~Dejando /\ interrupciones = {} /\ despertado["consola"] = Nulo
  BY <1>1, Partes DEF SinOrdenPendiente, Dejando, Elegidos
<1>3. \A p \in Pids : p # Nulo
  BY NuloAssumption
<1>4. DOMAIN despertado = {"cde", "consola"}
  BY Partes
<1> QED BY <1>1, <1>2, <1>3, <1>4 DEF PorSalir

\* And it goes on as it was.
LEMMA QuietaSigue ==
  ASSUME FInv, ~CarreraConsola, SinOrdenPendiente,
         PlanificadorLargo \/ PlanificadorCorto \/ Cpu \/ AtenderCpu \/ TerminarProceso
  PROVE  /\ pc'["consola"] = pc["consola"] /\ pc'["consola"] \in {"inicio", "espera"}
         /\ interrupciones' = interrupciones /\ pcb_a_liberar' = pcb_a_liberar
         /\ ~Dejando' /\ Recorrido'
<1>1. /\ pc'["consola"] = pc["consola"] /\ UNCHANGED mandos /\ interrupciones' = interrupciones
  BY Partes, PasoDeOtro
<1>2. pc["consola"] \in {"inicio", "espera"} /\ ~Dejando
  BY Quieta
<1> QED BY <1>1, <1>2 DEF mandos, Dejando, Recorrido

\* And while the console works nobody else has chosen a process.
LEMMA Sola ==
  ASSUME FInv, Trabaja
  PROVE  /\ pc["cde"] = "inicio" /\ cpu.fase \in {"libre", "corre"} /\ despertado["cde"] = Nulo
         /\ pcb_a_liberar \in Pids /\ cpu.motivo # "RECURSO_NO_DISPONIBLE"
         /\ pc["consola"] # "despierta" => despertado["consola"] = Nulo
         /\ \A p \in Pids :
              /\ Duerme(p) <=> p \in ToSet(cola["Bloqueados"]) /\ ~PorSalir(p)
              /\ PorSalir(p) <=> despertado["consola"] = p \/ (Dejando /\ pcb_a_liberar = p)
<1>1. pc["cde"] = "inicio" /\ cpu.fase \in {"libre", "corre"}
  BY Partes DEF Quieto
<1>2. /\ despertado["cde"] = Nulo /\ cpu.motivo # "RECURSO_NO_DISPONIBLE"
      /\ pc["consola"] # "despierta" => despertado["consola"] = Nulo
  BY <1>1, Partes DEF Elegidos
<1>3. pcb_a_liberar \in Pids
  BY Partes DEF Hilada, TypeOK, TipoHilos, Trabaja
<1>4. DOMAIN despertado = {"cde", "consola"} /\ \A p \in Pids : p # Nulo
  BY Partes, NuloAssumption
<1>5. \A p \in Pids : PorSalir(p) <=> despertado["consola"] = p \/ (Dejando /\ pcb_a_liberar = p)
  BY <1>2, <1>4 DEF PorSalir
<1> QED BY <1>1, <1>2, <1>3, <1>5 DEF Duerme

\* A step that neither touches the resources nor changes who sleeps.
LEMMA FielMarco ==
  ASSUME FInv, RInv', Servida', falla' = falla, recursos' = recursos,
         \A p \in Pids : Duerme(p)' <=> Duerme(p),
         Atenta', Elegidos', Recorrido'
  PROVE  FInv'
<1>1. UnaVez' /\ Pedidos' /\ Agotados'
  BY Partes DEF UnaVez, Pedidos, Agotados, recursos
<1>2. \A p \in Pids : EnEspera(p)' <=> EnEspera(p)
  BY DEF EnEspera, recursos
<1>3. Dormidos'
  BY <1>2, Partes DEF Dormidos
<1> QED BY <1>1, <1>3, Partes DEF FInv, SinFalla

\* The same, with who sleeps and who is chosen left as they are.
LEMMA FielAjeno ==
  ASSUME FInv, RInv', Servida', falla' = falla, recursos' = recursos, despertado' = despertado,
         ToSet(cola'["Bloqueados"]) = ToSet(cola["Bloqueados"]),
         Dejando' <=> Dejando, Dejando => pcb_a_liberar' = pcb_a_liberar,
         \A h \in {"cde", "consola"} : pc[h] = "despierta" => pc'[h] = "despierta",
         \/ pcb_en_ejecucion' = pcb_en_ejecucion /\ cpu'.motivo = cpu.motivo
         \/ /\ cpu.motivo # "RECURSO_NO_DISPONIBLE"
            /\ cpu'.motivo # "RECURSO_NO_DISPONIBLE",
         cpu'.motivo = "RECURSO_NO_DISPONIBLE" => cpu'.fase \in {"sale", "devuelto"},
         Atenta', Recorrido'
  PROVE  FInv'
<1>1. \A p \in Pids : PorSalir(p)' <=> PorSalir(p)
  BY DEF PorSalir
<1>2. \A p \in Pids : Duerme(p)' <=> Duerme(p)
  BY <1>1 DEF Duerme
<1>3. Elegidos'
  BY Partes DEF Elegidos
<1> QED BY <1>2, <1>3, FielMarco

(***************************************************************************)
(* The steps that leave the resources alone.                               *)
(***************************************************************************)
\* A command that begins, one that changes the degree, and the steps of
\* FINALIZAR_PROCESO that leave alone who is to leave procesosBloqueados.
LEMMA FielMandos ==
  ASSUME FInv, RInv', Servida',
         UNCHANGED <<pcb_en_ejecucion, recursos, despertado, cpu, interrupcion, falla>>,
         ToSet(cola'["Bloqueados"]) = ToSet(cola["Bloqueados"]), pc["consola"] # "despierta",
         pc'["cde"] = pc["cde"], pc'["consola"] \notin {"libera", "despierta"},
         Dejando' <=> Dejando, Dejando => pcb_a_liberar' = pcb_a_liberar
  PROVE  FInv'
<1>1. Atenta' /\ Recorrido'
  BY Partes DEF Atenta, Recorrido
<1>2. cpu'.motivo = "RECURSO_NO_DISPONIBLE" => cpu'.fase \in {"sale", "devuelto"}
  BY Partes DEF Elegidos
<1> QED BY <1>1, <1>2, FielAjeno

LEMMA FielOrdenes ==
  ASSUME FInv, ~CarreraConsola, RInv', Servida', IniciarProceso \/ FinalizarProceso
  PROVE  FInv'
<1>1. TypeOK /\ cola \in [Colas -> Seq(Pids)]
  BY Partes DEF TypeOK, TipoPlanif
<1>2. CASE IniciarProceso
  <2>1. PICK p \in Pids : cola' = [cola EXCEPT !["New"] = Append(@, p)]
    BY <1>2 DEF IniciarProceso
  <2>2. cola'["Bloqueados"] = cola["Bloqueados"]
    BY <1>1, <2>1, SonColas
  <2>3. /\ pc["consola"] = "inicio"
        /\ UNCHANGED <<pcb_en_ejecucion, recursos, pc, despertado, pcb_a_liberar, cpu, interrupcion,
                       falla>>
    BY <1>2 DEF IniciarProceso, mandos, maquina
  <2> QED BY <2>2, <2>3, FielMandos DEF Dejando
<1>3. CASE FinalizarProceso
  <2>1. PICK p \in procesos_globales :
          /\ EnReposo
          /\ pc["consola"] = "inicio" /\ pc' = [pc EXCEPT !["consola"] = "libera"]
          /\ pcb_a_liberar' = p /\ indice' = 1
    BY <1>3 DEF FinalizarProceso, Ir
  <2>2. UNCHANGED <<pcb_en_ejecucion, cola, recursos, recursos_asignados, despertado, cpu,
                    interrupciones, interrupcion, falla>>
    BY <1>3 DEF FinalizarProceso, procesos, planif, recursos, maquina
  <2>3. /\ pc'["consola"] = "libera"
        /\ \A g \in Hilos \ {"consola"} : pc'[g] = pc[g]
    BY <1>1, <2>1, SonHilos, PcMueve
  <2>4. pc["cde"] = "inicio" /\ pc'["cde"] = "inicio"
    BY <2>1, <2>3, SonHilos DEF EnReposo
  <2>5. Atenta'
    BY <2>2, Partes DEF Atenta
  <2>6. Recorrido'
    <3>1. p \in Pids
      BY <1>1 DEF TypeOK, TipoProcesos
    <3>2. Len(recursos_asignados[p]) \in Nat
      BY <3>1, Partes
    <3> QED BY <2>1, <2>2, <3>2 DEF Recorrido
  <2>7. cpu'.motivo = "RECURSO_NO_DISPONIBLE" => cpu'.fase \in {"sale", "devuelto"}
    BY <2>2, Partes DEF Elegidos
  <2>8. ~Dejando /\ ~Dejando'
    BY <2>1, <2>3 DEF Dejando
  <2> QED BY <2>1, <2>2, <2>3, <2>4, <2>5, <2>6, <2>7, <2>8, FielAjeno
<1> QED BY <1>2, <1>3

LEMMA FielGrado ==
  ASSUME FInv, RInv', Servida', CambiarGrado \/ GradoEscribe \/ GradoSuma
  PROVE  FInv'
<1>1. PICK a \in {"inicio", "escribe", "suma"} :
        /\ pc["consola"] \in {"inicio", "escribe", "suma"} /\ pc' = [pc EXCEPT !["consola"] = a]
        /\ UNCHANGED <<pcb_en_ejecucion, cola, recursos, despertado, cpu, interrupcion, falla>>
  BY DEF CambiarGrado, GradoEscribe, GradoSuma, Ir, procesos, planif, maquina
<1>2. pc'["consola"] = a /\ pc'["cde"] = pc["cde"]
  BY <1>1, SonHilos, Partes DEF TypeOK, TipoHilos
<1> QED BY <1>1, <1>2, FielMandos DEF Dejando

\* The chosen process leaves procesosBloqueados, and is chosen no more.
LEMMA FielBlockAReady ==
  ASSUME FInv, RInv', Servida', NEW h \in {"cde", "consola"}, NEW hasta, BlockAReady(h, hasta),
         recursos' = recursos, Atenta', Recorrido', maquina' = maquina,
         pcb_en_ejecucion' = pcb_en_ejecucion, pc[h] = "despierta",
         \A g \in {"cde", "consola"} \ {h} : despertado[g] = Nulo,
         ~Dejando, ~Dejando'
  PROVE  FInv'
<1> DEFINE p == despertado[h]
<1>1. /\ pc' = [pc EXCEPT ![h] = hasta]
      /\ despertado' = [despertado EXCEPT ![h] = Nulo]
      /\ falla' = ~Contains(cola["Bloqueados"], p)
      /\ cola' = [cola EXCEPT !["Bloqueados"] = RemoveFirst(@, p), !["Ready"] = Append(@, p)]
  BY DEF BlockAReady, Ir, Quitar
<1>2. p \in Pids /\ p # Nulo /\ p \in ToSet(cola["Bloqueados"])
  BY Partes, NuloAssumption DEF Hilada, Elegidos
<1> HIDE DEF p
<1>3. falla' = falla
  <2>1. Contains(cola["Bloqueados"], p)
    BY <1>2, Partes, Elementos
  <2>2. falla \in BOOLEAN /\ ~falla
    BY Partes DEF TypeOK, TipoMaquina
  <2> QED BY <1>1, <2>1, <2>2
<1>4. ToSet(cola'["Bloqueados"]) = ToSet(cola["Bloqueados"]) \ {p}
  <2>1. IsInjective(cola["Bloqueados"])
    BY Partes DEF Cuentas, Lugar, EnCola
  <2>2. cola'["Bloqueados"] = RemoveFirst(cola["Bloqueados"], p)
    BY <1>1, Partes, SonColas DEF TypeOK, TipoPlanif
  <2> QED BY <2>1, <2>2, Partes, ElementosSinPrimero
<1>5. \A g \in {"cde", "consola"} : despertado'[g] = Nulo
  BY <1>1, Partes
<1>6. DOMAIN despertado' = {"cde", "consola"}
  BY <1>1, Partes
<1>7. \A q \in Pids : Duerme(q)' <=> Duerme(q)
  <2> SUFFICES ASSUME NEW q \in Pids PROVE Duerme(q)' <=> Duerme(q)
    OBVIOUS
  <2>1. q # Nulo
    BY NuloAssumption
  <2>2. ~PorSalir(q)'
    BY <1>5, <1>6, <2>1 DEF PorSalir
  <2>3. PorSalir(q) <=> q = p
    BY <2>1, Partes DEF PorSalir, p
  <2>4. cpu' = cpu
    BY DEF maquina
  <2> QED BY <1>4, <2>2, <2>3, <2>4 DEF Duerme
<1>8. Elegidos'
  BY <1>5, Partes DEF Elegidos, maquina
<1> QED BY <1>3, <1>7, <1>8, FielMarco

LEMMA FielConsolaDespierta == ASSUME FInv, RInv', Servida', ConsolaDespierta PROVE FInv'
<1>1. /\ BlockAReady("consola", "libera") /\ pc["consola"] = "despierta"
      /\ pc' = [pc EXCEPT !["consola"] = "libera"]
      /\ UNCHANGED <<pcb_en_ejecucion, recursos, recursos_asignados, pcb_a_liberar, indice, maquina>>
  BY DEF ConsolaDespierta, BlockAReady, Ir, recursos, mandos
<1>2. despertado["cde"] = Nulo
  BY <1>1, Sola DEF Trabaja, Colgada
<1>3. pc'["consola"] = "libera"
  BY <1>1, Partes, SonHilos, PcMueve
<1>4. Atenta' /\ Recorrido'
  BY <1>1, <1>3, Partes DEF Atenta, Recorrido, maquina
<1>5. \A g \in {"cde", "consola"} \ {"consola"} : despertado[g] = Nulo
  BY <1>2
<1>6. ~Dejando /\ ~Dejando'
  BY <1>1, <1>3 DEF Dejando
<1> QED BY <1>1, <1>4, <1>5, <1>6, FielBlockAReady

LEMMA FielCdeDespierta ==
  ASSUME FInv, ~CarreraConsola, RInv', Servida', SinOrdenPendiente, CdeDespierta
  PROVE  FInv'
<1>1. /\ BlockAReady("cde", "responde") /\ pc["cde"] = "despierta"
      /\ UNCHANGED <<pcb_en_ejecucion, recursos, maquina>>
  BY DEF CdeDespierta, BlockAReady, Ir
<1>2. ~Dejando /\ despertado["consola"] = Nulo
  BY Quieta
<1>3. ~Dejando' /\ Recorrido'
  BY QuietaSigue DEF AtenderCpu
<1>4. Atenta'
  BY <1>1, Partes DEF Atenta, maquina
<1>5. \A g \in {"cde", "consola"} \ {"cde"} : despertado[g] = Nulo
  BY <1>2
<1> QED BY <1>1, <1>2, <1>3, <1>4, <1>5, FielBlockAReady

\* The process the console ends is in no queue of a resource, and stops being
\* one of procesosBloqueados if it was.
LEMMA FielOlvida ==
  ASSUME FInv, RInv', Servida', NEW p, p = pcb_a_liberar, NEW a \in {"espera", "finaliza", "inicio"},
         pc' = [pc EXCEPT !["consola"] = a], Trabaja, Dejando, ~Dejando',
         UNCHANGED <<pcb_en_ejecucion, recursos, despertado, cpu, interrupcion, falla>>,
         p \notin ToSet(cola'["Bloqueados"]),
         \A q \in Pids \ {p} : q \in ToSet(cola'["Bloqueados"]) <=> q \in ToSet(cola["Bloqueados"])
  PROVE  FInv'
<1>1. /\ despertado["cde"] = Nulo /\ despertado["consola"] = Nulo
      /\ cpu.motivo # "RECURSO_NO_DISPONIBLE"
      /\ \A x \in Pids : Duerme(x) <=> x \in ToSet(cola["Bloqueados"]) /\ ~PorSalir(x)
  BY Sola DEF Dejando
<1>2. pc'["consola"] = a
  BY Partes, SonHilos, PcMueve
<1>3. Atenta' /\ Recorrido'
  BY <1>2, Partes DEF Atenta, Recorrido
<1>4. Elegidos'
  BY <1>1 DEF Elegidos
<1>5. \A q \in Pids : Duerme(q)' <=> Duerme(q)
  <2> SUFFICES ASSUME NEW q \in Pids PROVE Duerme(q)' <=> Duerme(q)
    OBVIOUS
  <2>1. q # Nulo
    BY NuloAssumption
  <2>2. ~PorSalir(q)'
    BY <1>1, <2>1, Partes DEF PorSalir
  <2>3. PorSalir(q) <=> q = p
    BY <1>1, <2>1, Partes DEF PorSalir
  <2> QED BY <1>1, <2>2, <2>3 DEF Duerme
<1> QED BY <1>3, <1>4, <1>5, FielMarco

LEMMA FielRetiraLee == ASSUME FInv, RInv', Servida', RetiraLee PROVE FInv'
<1> DEFINE p == pcb_a_liberar
<1>1. /\ pc["consola"] = "retira" /\ pc' = [pc EXCEPT !["consola"] = "espera"]
      /\ caso' = estado[p]
      /\ UNCHANGED <<pcb_en_ejecucion, cola, recursos, despertado, pcb_a_liberar, cpu, interrupcion,
                     falla>>
  BY DEF RetiraLee, Ir, procesos, planif, maquina
<1>2. pc'["consola"] = "espera" /\ pc'["cde"] = pc["cde"] /\ Trabaja /\ Dejando
  BY <1>1, SonHilos, Partes DEF TypeOK, TipoHilos, Trabaja, Colgada, Dejando
<1>3. CASE estado[p] = "BLOCKED"
  <2>1. Dejando'
    BY <1>1, <1>2, <1>3 DEF Dejando
  <2> QED BY <1>1, <1>2, <2>1, FielMandos
<1>4. CASE estado[p] # "BLOCKED"
  <2>1. ~Dejando'
    BY <1>1, <1>2, <1>4 DEF Dejando
  <2>2. p \notin ToSet(cola["Bloqueados"])
    BY <1>4, Partes
  <2> QED BY <1>1, <1>2, <2>1, <2>2, FielOlvida
<1> QED BY <1>3, <1>4

LEMMA FielRetiraExec == ASSUME FInv, RInv', Servida', RetiraExec PROVE FInv'
<1> DEFINE p == pcb_a_liberar
<1>1. /\ estado[p] \in {"EXEC", "EXIT"} /\ pc["consola"] = "retira"
      /\ pc' = [pc EXCEPT !["consola"] = "inicio"]
      /\ UNCHANGED <<pcb_en_ejecucion, cola, recursos, despertado, cpu, interrupcion, falla>>
  BY DEF RetiraExec, Olvida, Ir
<1>2. pc'["consola"] = "inicio"
  BY <1>1, SonHilos, Partes DEF TypeOK, TipoHilos
<1>3. Trabaja /\ Dejando /\ ~Dejando'
  BY <1>1, <1>2 DEF Trabaja, Colgada, Dejando
<1>4. p \notin ToSet(cola["Bloqueados"])
  BY <1>1, Partes
<1> QED BY <1>1, <1>3, <1>4, FielOlvida

LEMMA FielRetiraQuita == ASSUME FInv, RInv', Servida', RetiraQuita PROVE FInv'
<1> DEFINE p == pcb_a_liberar
<1>1. /\ pc["consola"] = "quita" /\ pc' = [pc EXCEPT !["consola"] = "finaliza"]
      /\ cola' = [cola EXCEPT ![ColaDe[caso]] = RemoveFirst(@, p)]
      /\ UNCHANGED <<pcb_en_ejecucion, recursos, despertado, pcb_a_liberar, caso, cpu, interrupcion,
                     falla>>
  BY DEF RetiraQuita, Ir, Quitar, procesos, mandos, maquina
<1>2. /\ pc'["consola"] = "finaliza" /\ pc'["cde"] = pc["cde"] /\ Trabaja
      /\ cola \in [Colas -> Seq(Pids)]
  BY <1>1, SonHilos, Partes DEF TypeOK, TipoHilos, TipoPlanif, Trabaja, Colgada
<1>3. caso \in {"NEW", "READY", "BLOCKED"} /\ ~Dejando'
  BY <1>1, <1>2, Partes DEF Retirando, Dejando
<1>4. CASE caso = "BLOCKED"
  <2>1. cola'["Bloqueados"] = RemoveFirst(cola["Bloqueados"], p)
    BY <1>1, <1>2, <1>4, SonColas DEF ColaDe
  <2>2. IsInjective(cola["Bloqueados"])
    BY Partes DEF Cuentas, Lugar, EnCola
  <2>3. ToSet(cola'["Bloqueados"]) = ToSet(cola["Bloqueados"]) \ {p}
    BY <2>1, <2>2, Partes, ElementosSinPrimero
  <2>4. Dejando
    BY <1>1, <1>4 DEF Dejando
  <2> QED BY <1>1, <1>2, <1>3, <2>3, <2>4, FielOlvida
<1>5. CASE caso # "BLOCKED"
  <2>1. cola'["Bloqueados"] = cola["Bloqueados"]
    BY <1>1, <1>2, <1>3, <1>5, SonColas DEF ColaDe
  <2>2. ~Dejando
    BY <1>1, <1>5 DEF Dejando
  <2> QED BY <1>1, <1>2, <1>3, <2>1, <2>2, FielMandos
<1> QED BY <1>4, <1>5

LEMMA FielFinaliza ==
  ASSUME FInv, RInv', Servida', RetiraEspera \/ FinalizaPcb \/ FinalizaAvisa
  PROVE  FInv'
<1>1. PICK a \in {"quita", "avisa", "inicio"} :
        /\ pc' = [pc EXCEPT !["consola"] = a]
        /\ \/ pc["consola"] = "espera" /\ a = "quita" /\ caso' = caso /\ pcb_a_liberar' = pcb_a_liberar
           \/ pc["consola"] \in {"finaliza", "avisa"} /\ a # "quita"
        /\ cola' = cola \/ cola' = [cola EXCEPT !["Finalizados"] = Append(@, pcb_a_liberar)]
        /\ UNCHANGED <<pcb_en_ejecucion, recursos, despertado, cpu, interrupcion, falla>>
  BY DEF RetiraEspera, FinalizaPcb, FinalizaAvisa, Olvida, Ir, procesos, mandos, maquina
<1>2. pc'["consola"] = a /\ pc'["cde"] = pc["cde"]
  BY <1>1, SonHilos, Partes DEF TypeOK, TipoHilos
<1>3. cola'["Bloqueados"] = cola["Bloqueados"]
  BY <1>1, Partes, SonColas DEF TypeOK, TipoPlanif
<1>4. (Dejando' <=> Dejando) /\ (Dejando => pcb_a_liberar' = pcb_a_liberar)
  BY <1>1, <1>2 DEF Dejando
<1>5. pc["consola"] # "despierta"
  BY <1>1
<1> QED BY <1>1, <1>2, <1>3, <1>4, <1>5, FielMandos

\* The schedulers and terminar_proceso: nobody goes to sleep or wakes up.
LEMMA FielPlanificadores ==
  ASSUME FInv, ~CarreraConsola, RInv', Servida', SinOrdenPendiente,
         PlanificadorLargo \/ PlanificadorCorto \/ TerminarProceso
  PROVE  FInv'
<1>1. /\ ~Dejando /\ ~Dejando' /\ Recorrido'
      /\ TypeOK /\ cola \in [Colas -> Seq(Pids)] /\ pc \in [Hilos -> Puntos]
  BY Quieta, QuietaSigue, Partes DEF TypeOK, TipoPlanif, TipoHilos
<1>2. cpu.motivo = "RECURSO_NO_DISPONIBLE" => cpu.fase \in {"sale", "devuelto"}
  BY Partes DEF Elegidos
<1>3. ASSUME UNCHANGED <<pcb_en_ejecucion, recursos, despertado, cpu, interrupciones,
                         interrupcion, falla>>,
             pc'["cde"] = pc["cde"], pc'["consola"] = pc["consola"],
             cola'["Bloqueados"] = cola["Bloqueados"]
      PROVE  FInv'
  <2>1. Atenta'
    BY <1>3, Partes DEF Atenta
  <2> QED BY <1>1, <1>2, <1>3, <2>1, FielAjeno
<1>4. CASE LargoEsperaNew
  <2>1. /\ pc' = [pc EXCEPT !["largo"] = "grado"] /\ cola' = cola
        /\ UNCHANGED <<pcb_en_ejecucion, recursos, despertado, cpu, interrupciones,
                       interrupcion, falla>>
    BY <1>4 DEF LargoEsperaNew, Ir, procesos, maquina
  <2> QED BY <1>1, <1>3, <2>1, SonHilos
<1>5. CASE CortoEsperaCpu
  <2>1. /\ pc' = [pc EXCEPT !["corto"] = "ready"] /\ cola' = cola
        /\ UNCHANGED <<pcb_en_ejecucion, recursos, despertado, cpu, interrupciones,
                       interrupcion, falla>>
    BY <1>5 DEF CortoEsperaCpu, Ir, procesos, maquina
  <2> QED BY <1>1, <1>3, <2>1, SonHilos
<1>6. CASE CortoEsperaReady
  <2>1. /\ pc' = [pc EXCEPT !["corto"] = "exec"] /\ cola' = cola
        /\ UNCHANGED <<pcb_en_ejecucion, recursos, despertado, cpu, interrupciones,
                       interrupcion, falla>>
    BY <1>6 DEF CortoEsperaReady, Ir, procesos, maquina
  <2> QED BY <1>1, <1>3, <2>1, SonHilos
<1>7. CASE TerminarProceso
  <2>1. /\ pc' = pc /\ cola' = [cola EXCEPT !["Finalizados"] = Tail(@)]
        /\ UNCHANGED <<pcb_en_ejecucion, recursos, despertado, cpu, interrupciones,
                       interrupcion, falla>>
    BY <1>7 DEF TerminarProceso, maquina
  <2>2. cola'["Bloqueados"] = cola["Bloqueados"]
    BY <1>1, <2>1, SonColas
  <2> QED BY <1>3, <2>1, <2>2
<1>8. CASE NewAReady
  <2>1. cola["New"] # <<>>
    <3>1. pc["largo"] = "grado"
      BY <1>8 DEF NewAReady, Ir
    <3>2. sem["procesos_en_new"] \in Nat /\ SemaforosFieles
      BY <1>1, SonSemaforos, Partes DEF TypeOK, TipoPlanif, Cuentas
    <3>3. /\ Tomada("NEW") \in Nat
          /\ Len(cola["New"]) = sem["procesos_en_new"] + 1 + Tomada("NEW")
      BY <3>1, <3>2, MitadesNumeros DEF SemaforosFieles
    <3>4. Len(cola["New"]) > 0
      BY <3>2, <3>3
    <3> QED BY <3>4
  <2>2. /\ pc' = [pc EXCEPT !["largo"] = "inicio"]
        /\ cola' = [cola EXCEPT !["New"] = Tail(@), !["Ready"] = Append(@, Head(cola["New"]))]
        /\ UNCHANGED <<pcb_en_ejecucion, recursos, despertado, cpu, interrupciones,
                       interrupcion, falla>>
    BY <1>8, <2>1 DEF NewAReady, Ir, maquina
  <2>3. cola'["Bloqueados"] = cola["Bloqueados"]
    BY <1>1, <2>2, SonColas
  <2> QED BY <1>1, <1>3, <2>2, <2>3, SonHilos
<1>9. CASE ReadyAExec
  <2>1. pc["corto"] = "exec" /\ pc' = [pc EXCEPT !["corto"] = "inicio"]
    BY <1>9 DEF ReadyAExec, Ir
  <2>2. /\ sem["procesos_en_ready"] \in Nat /\ sem["cpu_libre"] \in Nat
        /\ SemaforosFieles /\ CpuDeUno
    BY <1>1, SonSemaforos, Partes DEF TypeOK, TipoPlanif, Cuentas
  <2>3. cola["Ready"] # <<>>
    <3>1. /\ Tomada("READY") \in Nat
          /\ Len(cola["Ready"]) = sem["procesos_en_ready"] + 1 + Tomada("READY")
      BY <2>1, <2>2, MitadesNumeros DEF SemaforosFieles
    <3>2. Len(cola["Ready"]) > 0
      BY <2>2, <3>1
    <3> QED BY <3>2
  <2>4. cpu.fase = "libre"
    BY <2>1, <2>2 DEF CpuDeUno, Uno
  <2>5. /\ cola' = [cola EXCEPT !["Ready"] = Tail(@)]
        /\ cpu' = [CpuLibre EXCEPT !.fase = "corre"]
        /\ UNCHANGED <<recursos, despertado, interrupciones, interrupcion, falla>>
    BY <1>9, <2>3 DEF ReadyAExec
  <2>6. cpu'.fase = "corre" /\ cpu'.motivo # "RECURSO_NO_DISPONIBLE"
    <3>1. Nulo # "RECURSO_NO_DISPONIBLE"
      BY NuloAssumption DEF Motivos
    <3> QED BY <2>5, <3>1, CpuSinNadie
  <2>7. pc'["cde"] = pc["cde"] /\ pc'["consola"] = pc["consola"]
    BY <1>1, <2>1, SonHilos
  <2>8. cola'["Bloqueados"] = cola["Bloqueados"]
    BY <1>1, <2>5, SonColas
  <2>9. cpu.motivo # "RECURSO_NO_DISPONIBLE"
    BY <1>2, <2>4
  <2>10. Atenta'
    BY <2>4, <2>5, <2>6, Partes DEF Atenta
  <2> QED BY <1>1, <2>5, <2>6, <2>7, <2>8, <2>9, <2>10, FielAjeno
<1> QED BY <1>4, <1>5, <1>6, <1>7, <1>8, <1>9 DEF PlanificadorLargo, PlanificadorCorto

\* The CPU: a process that was denied a resource keeps that motive until it is
\* back, because no INTERRUPT was read after it asked.
LEMMA FielCpuInterrupt == ASSUME FInv, RInv', Servida', CpuInterrupt PROVE FInv'
<1>1. PICK p \in interrupciones :
        /\ interrupciones' = interrupciones \ {p}
        /\ interrupcion' = (interrupcion \/ (p = pcb_en_ejecucion /\ cpu.fase \in {"corre", "pide", "sale"}))
        /\ UNCHANGED <<procesos, planif, recursos, pc, despertado, mandos, cpu, falla>>
  BY DEF CpuInterrupt
<1>2. UNCHANGED <<cola, pcb_en_ejecucion, recursos, recursos_asignados, pc, despertado,
                  pcb_a_liberar, indice, caso, cpu, falla>>
  BY <1>1 DEF procesos, planif, recursos, mandos
<1>3. Atenta' /\ Recorrido'
  BY <1>1, <1>2, Partes DEF Atenta, Recorrido, Quieto
<1>4. cpu'.motivo = "RECURSO_NO_DISPONIBLE" => cpu'.fase \in {"sale", "devuelto"}
  BY <1>2, Partes DEF Elegidos
<1> QED BY <1>2, <1>3, <1>4, FielAjeno DEF Dejando

LEMMA FielCpu ==
  ASSUME FInv, ~CarreraConsola, RInv', Servida', SinOrdenPendiente, Cpu
  PROVE  FInv'
<1>1. /\ ~Dejando /\ ~Dejando' /\ Recorrido' /\ Atenta
      /\ cpu \in EstadosCpu
  BY Quieta, QuietaSigue, Partes DEF TypeOK, TipoMaquina
<1>2. cpu.motivo = "RECURSO_NO_DISPONIBLE" => cpu.fase \in {"sale", "devuelto"}
  BY Partes DEF Elegidos
<1>3. ASSUME UNCHANGED <<pcb_en_ejecucion, cola, recursos, recursos_asignados, pc, despertado,
                         pcb_a_liberar, indice, interrupciones, falla>>,
             interrupcion' => cpu'.fase = "corre",
             cpu'.motivo = "RECURSO_NO_DISPONIBLE" => cpu'.fase \in {"sale", "devuelto"},
             \/ cpu'.motivo = cpu.motivo
             \/ /\ cpu.motivo # "RECURSO_NO_DISPONIBLE"
                /\ cpu'.motivo # "RECURSO_NO_DISPONIBLE"
      PROVE  FInv'
  <2>1. Atenta'
    BY <1>3 DEF Atenta
  <2> QED BY <1>1, <1>3, <2>1, FielAjeno
<1>4. CASE CpuFetch
  <2>1. /\ cpu.fase = "corre" /\ ~interrupcion /\ interrupcion' = interrupcion
        /\ \/ cpu' = [cpu EXCEPT !.vence = TRUE]
           \/ cpu' = [cpu EXCEPT !.fase = "sale", !.motivo = "FINALIZACION_EXIT"]
           \/ cpu' = [cpu EXCEPT !.fase = "pide", !.vence = FALSE]
        /\ UNCHANGED <<pcb_en_ejecucion, cola, recursos, recursos_asignados, pc, despertado,
                       pcb_a_liberar, indice, interrupciones, falla>>
    BY <1>4 DEF CpuFetch, planif, recursos, mandos
  <2>2. cpu'.motivo = cpu.motivo \/ cpu'.motivo = "FINALIZACION_EXIT"
    BY <1>1, <2>1 DEF EstadosCpu
  <2> QED BY <1>2, <1>3, <2>1, <2>2
<1>5. CASE CpuVence
  <2>1. /\ cpu.fase = "corre" /\ ~interrupcion /\ interrupcion' = interrupcion
        /\ cpu' = [cpu EXCEPT !.fase = "sale", !.motivo = "FIN_DE_QUANTUM"]
        /\ UNCHANGED <<pcb_en_ejecucion, cola, recursos, recursos_asignados, pc, despertado,
                       pcb_a_liberar, indice, interrupciones, falla>>
    BY <1>5 DEF CpuVence, procesos, planif, recursos, mandos
  <2>2. cpu'.motivo = "FIN_DE_QUANTUM"
    BY <1>1, <2>1 DEF EstadosCpu
  <2> QED BY <1>2, <1>3, <2>1, <2>2
<1>6. CASE CpuDevuelve
  <2>1. /\ cpu.fase = "sale" \/ (cpu.fase = "corre" /\ interrupcion)
        /\ interrupcion' = FALSE
        /\ UNCHANGED <<pcb_en_ejecucion, cola, recursos, recursos_asignados, pc, despertado,
                       pcb_a_liberar, indice, interrupciones, falla>>
    BY <1>6 DEF CpuDevuelve, procesos, planif, recursos, mandos
  <2>2. PICK m : /\ cpu' = [cpu EXCEPT !.fase = "devuelto", !.motivo = m]
                 /\ m = IF interrupcion THEN "INTERRUPCION" ELSE cpu.motivo
    BY <1>6 DEF CpuDevuelve
  <2>3. cpu'.motivo = m /\ cpu'.fase = "devuelto"
    BY <1>1, <2>2 DEF EstadosCpu
  <2>4. interrupcion => cpu.motivo # "RECURSO_NO_DISPONIBLE"
    BY <1>1, <1>2 DEF Atenta
  <2> QED BY <1>3, <2>1, <2>2, <2>3, <2>4
<1> QED BY <1>4, <1>5, <1>6 DEF Cpu

\* A request that is denied for good, and the answer that was pending.
LEMMA FielRespuestas ==
  ASSUME FInv, ~CarreraConsola, RInv', Servida', SinOrdenPendiente, RecursoInexistente \/ CdeResponde
  PROVE  FInv'
<1>1. /\ ~Dejando /\ ~Dejando' /\ Recorrido' /\ Atenta /\ RInv
      /\ pc \in [Hilos -> Puntos]
  BY Quieta, QuietaSigue, Partes DEF TypeOK, TipoHilos, AtenderCpu
<1>2. cpu.motivo = "RECURSO_NO_DISPONIBLE" => cpu.fase \in {"sale", "devuelto"}
  BY Partes DEF Elegidos
<1>3. CASE RecursoInexistente
  <2>1. /\ cpu.fase = "pide" /\ Respuesta("RECURSO_INVALIDO")
        /\ UNCHANGED <<pcb_en_ejecucion, cola, recursos, recursos_asignados, pc, despertado,
                       pcb_a_liberar, indice, interrupciones, interrupcion, falla>>
    BY <1>3 DEF RecursoInexistente, Solicitud, procesos, recursos, mandos
  <2>2. cpu'.fase = "sale" /\ cpu'.motivo = "RECURSO_INVALIDO"
    BY <1>1, <2>1, CpuRespuesta, NuloAssumption DEF RInv, Motivos
  <2>3. Atenta'
    BY <1>1, <2>1, <2>2 DEF Atenta
  <2> QED BY <1>1, <1>2, <2>1, <2>2, <2>3, FielAjeno
<1>4. CASE CdeResponde
  <2>1. /\ pc["cde"] = "responde" /\ pc' = [pc EXCEPT !["cde"] = "inicio"] /\ Respuesta(Nulo)
        /\ UNCHANGED <<pcb_en_ejecucion, cola, recursos, recursos_asignados, despertado,
                       pcb_a_liberar, indice, interrupciones, interrupcion, falla>>
    BY <1>4 DEF CdeResponde, Ir, procesos, recursos, mandos
  <2>2. cpu.fase = "pide"
    BY <2>1, Partes DEF Hilada
  <2>3. cpu'.fase = "corre" /\ cpu'.motivo = cpu.motivo
    BY <1>1, <2>1, CpuRespuesta DEF RInv
  <2>4. Atenta'
    BY <1>1, <2>1, <2>2, <2>3 DEF Atenta
  <2> QED BY <1>1, <1>2, <2>1, <2>2, <2>3, <2>4, FielAjeno
<1> QED BY <1>3, <1>4

\* The process that was denied a resource goes on waiting, now BLOCKED.
LEMMA FielDejaExec ==
  ASSUME FInv, ~CarreraConsola, RInv', Servida', SinOrdenPendiente,
         NEW motivos, NEW c \in {"Finalizados", "Ready", "Bloqueados"}, NEW e, NEW S,
         DejaExec(motivos, c, e, S), AtenderCpu,
         \A m \in motivos : m = "RECURSO_NO_DISPONIBLE" <=> c = "Bloqueados"
  PROVE  FInv'
<1> DEFINE p == pcb_en_ejecucion
<1>1. /\ ~Dejando /\ ~Dejando' /\ Recorrido' /\ despertado["consola"] = Nulo /\ Atenta
      /\ cola \in [Colas -> Seq(Pids)]
  BY Quieta, QuietaSigue, Partes DEF TypeOK, TipoPlanif
<1>2. /\ pc["cde"] = "inicio" /\ cpu.fase = "devuelto" /\ cpu.motivo \in motivos
      /\ cola' = [cola EXCEPT ![c] = Append(@, p)]
      /\ pcb_en_ejecucion' = Nulo /\ cpu' = CpuLibre
      /\ UNCHANGED <<recursos, recursos_asignados, pc, despertado, pcb_a_liberar, indice,
                     interrupciones, interrupcion, falla>>
  BY DEF DejaExec, recursos, mandos
<1>3. p \in Pids
  BY <1>2, EnCpu, Partes
<1> HIDE DEF p
<1>4. cpu'.fase = "libre" /\ cpu'.motivo # "RECURSO_NO_DISPONIBLE"
  BY <1>2, CpuSinNadie, NuloAssumption DEF Motivos
<1>5. Atenta'
  BY <1>1, <1>2 DEF Atenta
<1>6. CASE c # "Bloqueados"
  <2>1. cola'["Bloqueados"] = cola["Bloqueados"]
    BY <1>1, <1>2, <1>6, SonColas
  <2>2. cpu.motivo # "RECURSO_NO_DISPONIBLE"
    BY <1>2, <1>6
  <2> QED BY <1>1, <1>2, <1>4, <1>5, <2>1, <2>2, FielAjeno
<1>7. CASE c = "Bloqueados"
  <2>1. cpu.motivo = "RECURSO_NO_DISPONIBLE"
    BY <1>2, <1>7
  <2>2. ToSet(cola'["Bloqueados"]) = ToSet(cola["Bloqueados"]) \cup {p}
    <3>1. cola'["Bloqueados"] = Append(cola["Bloqueados"], p)
      BY <1>1, <1>2, <1>7, SonColas
    <3> QED BY <1>3, <3>1, Partes, ElementosAgrega
  <2>3. \A x \in Pids : ~PorSalir(x) /\ ~PorSalir(x)'
    <3>1. despertado["cde"] = Nulo /\ DOMAIN despertado = {"cde", "consola"}
      BY <1>2, Partes DEF Elegidos
    <3>2. \A x \in Pids : x # Nulo
      BY NuloAssumption
    <3> QED BY <1>1, <1>2, <3>1, <3>2 DEF PorSalir
  <2>4. \A x \in Pids : Duerme(x)' <=> Duerme(x)
    BY <1>2, <1>4, <2>1, <2>2, <2>3 DEF Duerme, p
  <2>5. Elegidos'
    BY <1>2, <1>4, <2>2, Partes DEF Elegidos
  <2> QED BY <1>1, <1>2, <1>5, <2>4, <2>5, FielMarco
<1> QED BY <1>6, <1>7

LEMMA FielDejan ==
  ASSUME FInv, ~CarreraConsola, RInv', Servida', SinOrdenPendiente,
         ExecAFinalizado \/ ExecAReady \/ ExecABlock
  PROVE  FInv'
<1>1. CASE ExecAFinalizado
  <2>1. DejaExec({"FINALIZACION_EXIT", "INTERRUPCION", "RECURSO_INVALIDO"}, "Finalizados", "EXIT",
                 {"procesos_en_exit", "grado_de_multiprogramacion"})
    BY <1>1 DEF ExecAFinalizado
  <2> QED BY <2>1, FielDejaExec DEF AtenderCpu
<1>2. CASE ExecAReady
  <2>1. DejaExec({"FIN_DE_QUANTUM"}, "Ready", "READY", {"procesos_en_ready"})
    BY <1>2 DEF ExecAReady
  <2> QED BY <2>1, FielDejaExec DEF AtenderCpu
<1>3. CASE ExecABlock
  <2>1. DejaExec({"RECURSO_NO_DISPONIBLE"}, "Bloqueados", "BLOCKED", {"procesos_en_blocked"})
    BY <1>3 DEF ExecABlock
  <2> QED BY <2>1, FielDejaExec DEF AtenderCpu
<1> QED BY <1>1, <1>2, <1>3

(***************************************************************************)
(* The steps that move resources.                                          *)
(***************************************************************************)
\* A resource is handed to who waits first: it waits no more, and nobody else
\* in the queues changes.
LEMMA Entregado ==
  ASSUME FInv, NEW r \in Recursos, AlguienEspera(r), NEW q, q = Siguiente(r),
         procesos_bloqueados' = [procesos_bloqueados EXCEPT ![r] = Quitar(@, q)]
  PROVE  /\ q \in Pids /\ q # Nulo /\ EnEspera(q) /\ Duerme(q) /\ instancias[r] = 0
         /\ q = Head(procesos_bloqueados[r]) /\ procesos_bloqueados[r] # <<>>
         /\ procesos_bloqueados' = [procesos_bloqueados EXCEPT ![r] = Tail(@)]
         /\ UnaVez'
         /\ \A x \in Pids : EnEspera(x)' <=> EnEspera(x) /\ x # q
         /\ \A s \in Recursos : ToSet(procesos_bloqueados'[s]) = ToSet(procesos_bloqueados[s]) \ {q}
         /\ \A s \in Recursos : procesos_bloqueados[s] = <<>> => procesos_bloqueados'[s] = <<>>
<1>1. /\ procesos_bloqueados[r] \in Seq(Pids) /\ procesos_bloqueados[r] # <<>>
      /\ q = Head(procesos_bloqueados[r])
  BY Partes DEF AlguienEspera, Siguiente
<1>2. /\ q \in ToSet(procesos_bloqueados[r])
      /\ RemoveFirst(procesos_bloqueados[r], q) = Tail(procesos_bloqueados[r])
  BY <1>1, QuitarElPrimero
<1>3. q \in Pids /\ q # Nulo
  BY <1>1, <1>2, Elementos, NuloAssumption
<1>4. EnEspera(q) /\ Duerme(q)
  BY <1>2, <1>3, Partes DEF EnEspera, Dormidos
<1>5. instancias[r] = 0
  BY <1>1, Partes DEF Agotados
<1>6. procesos_bloqueados \in [Recursos -> Seq(Pids)]
  BY Partes DEF TypeOK, TipoRecursos
<1>7. /\ procesos_bloqueados'[r] = Tail(procesos_bloqueados[r])
      /\ \A s \in Recursos \ {r} : procesos_bloqueados'[s] = procesos_bloqueados[s]
      /\ procesos_bloqueados' = [procesos_bloqueados EXCEPT ![r] = Tail(@)]
  BY <1>2, <1>6 DEF Quitar
<1>8. UnaVez
  BY Partes
<1>9. /\ ToSet(procesos_bloqueados'[r]) = ToSet(procesos_bloqueados[r]) \ {q}
      /\ IsInjective(procesos_bloqueados'[r])
  <2>1. IsInjective(procesos_bloqueados[r])
    BY <1>8 DEF UnaVez
  <2> QED BY <1>1, <1>7, <2>1, ElementosSaca
<1>10. \A s \in Recursos : ToSet(procesos_bloqueados'[s]) = ToSet(procesos_bloqueados[s]) \ {q}
  <2>1. \A s \in Recursos \ {r} : q \notin ToSet(procesos_bloqueados[s])
    BY <1>2, <1>8 DEF UnaVez
  <2> QED BY <1>7, <1>9, <2>1
<1>11. UnaVez'
  BY <1>7, <1>8, <1>9, <1>10 DEF UnaVez
<1>12. \A x \in Pids : EnEspera(x)' <=> EnEspera(x) /\ x # q
  BY <1>10 DEF EnEspera
<1>13. \A s \in Recursos : procesos_bloqueados[s] = <<>> => procesos_bloqueados'[s] = <<>>
  BY <1>1, <1>7
<1> QED BY <1>1, <1>3, <1>4, <1>5, <1>7, <1>10, <1>11, <1>12, <1>13

LEMMA FielLiberaRecurso == ASSUME FInv, RInv', Servida', LiberaRecurso PROVE FInv'
<1> DEFINE p == pcb_a_liberar
           r == recursos_asignados[p][indice]
           q == Siguiente(r)
<1>1. /\ pc["consola"] = "libera" /\ indice <= Len(recursos_asignados[p])
      /\ indice' = indice + 1
      /\ UNCHANGED <<procesos, planif, recursos_solicitados, pcb_a_liberar, caso, grado_a_asignar,
                     leido, ordenes, maquina, falla>>
      /\ \/ /\ ~AlguienEspera(r)
            /\ instancias' = [instancias EXCEPT ![r] = @ + 1]
            /\ UNCHANGED <<procesos_bloqueados, recursos_asignados, despertado, pc>>
         \/ /\ AlguienEspera(r)
            /\ procesos_bloqueados' = [procesos_bloqueados EXCEPT ![r] = Quitar(@, q)]
            /\ recursos_asignados' = [recursos_asignados EXCEPT ![q] = Append(@, r)]
            /\ despertado' = [despertado EXCEPT !["consola"] = q]
            /\ pc' = [pc EXCEPT !["consola"] = "despierta"]
            /\ instancias' = instancias
  BY DEF LiberaRecurso, Cedida
<1>2. /\ pc["cde"] = "inicio" /\ cpu.fase \in {"libre", "corre"} /\ p \in Pids
      /\ despertado["cde"] = Nulo /\ despertado["consola"] = Nulo
      /\ cpu.motivo # "RECURSO_NO_DISPONIBLE"
      /\ \A x \in Pids : Duerme(x) <=> x \in ToSet(cola["Bloqueados"]) /\ ~PorSalir(x)
  BY <1>1, Sola DEF Trabaja, Colgada
<1>3. indice \in Nat \ {0} /\ Len(recursos_asignados[p]) \in Nat
  BY <1>1, <1>2, Partes DEF Hilada, TypeOK, TipoHilos
<1>4. r \in Recursos
  <2>1. recursos_asignados[p] \in Seq(Recursos) /\ indice \in 1..Len(recursos_asignados[p])
    BY <1>1, <1>2, <1>3, Partes
  <2> QED BY <2>1
<1> HIDE DEF p, r, q
<1>5. /\ cola' = cola /\ pcb_en_ejecucion' = pcb_en_ejecucion /\ cpu' = cpu
      /\ interrupciones' = interrupciones /\ interrupcion' = interrupcion
      /\ falla' = falla /\ pcb_a_liberar' = pcb_a_liberar
      /\ recursos_solicitados' = recursos_solicitados
  BY <1>1 DEF procesos, planif, maquina
<1>6. CASE /\ ~AlguienEspera(r)
           /\ instancias' = [instancias EXCEPT ![r] = @ + 1]
           /\ UNCHANGED <<procesos_bloqueados, recursos_asignados, despertado, pc>>
  <2>1. Atenta' /\ UnaVez' /\ Pedidos' /\ Elegidos'
    BY <1>5, <1>6, Partes DEF Atenta, UnaVez, Pedidos, Elegidos
  <2>2. Agotados'
    <3>1. instancias \in [Recursos -> Nat]
      BY Partes DEF TypeOK, TipoRecursos
    <3> QED BY <1>4, <1>6, <3>1, Partes DEF Agotados, AlguienEspera
  <2>3. Recorrido'
    BY <1>1, <1>3, <1>5, <1>6 DEF Recorrido, p
  <2>4. \A x \in Pids : (EnEspera(x)' <=> EnEspera(x)) /\ (Duerme(x)' <=> Duerme(x))
    <3>1. Dejando' <=> Dejando
      BY <1>1, <1>6 DEF Dejando
    <3> QED BY <1>5, <1>6, <3>1 DEF EnEspera, Duerme, PorSalir
  <2>5. Dormidos'
    BY <2>4, Partes DEF Dormidos
  <2> QED BY <1>5, <2>1, <2>2, <2>3, <2>5, Partes DEF FInv, SinFalla
<1>7. CASE /\ AlguienEspera(r)
           /\ procesos_bloqueados' = [procesos_bloqueados EXCEPT ![r] = Quitar(@, q)]
           /\ recursos_asignados' = [recursos_asignados EXCEPT ![q] = Append(@, r)]
           /\ despertado' = [despertado EXCEPT !["consola"] = q]
           /\ pc' = [pc EXCEPT !["consola"] = "despierta"]
           /\ instancias' = instancias
  <2>1. /\ q \in Pids /\ q # Nulo /\ Duerme(q) /\ UnaVez'
        /\ \A x \in Pids : EnEspera(x)' <=> EnEspera(x) /\ x # q
        /\ \A s \in Recursos : ToSet(procesos_bloqueados'[s]) = ToSet(procesos_bloqueados[s]) \ {q}
        /\ \A s \in Recursos : procesos_bloqueados[s] = <<>> => procesos_bloqueados'[s] = <<>>
    BY <1>4, <1>7, Entregado DEF q
  <2>2. /\ pc'["consola"] = "despierta" /\ pc'["cde"] = "inicio"
    BY <1>2, <1>7, Partes, SonHilos, PcMueve
  <2>3. /\ despertado'["consola"] = q /\ despertado'["cde"] = Nulo
        /\ DOMAIN despertado' = {"cde", "consola"} /\ DOMAIN despertado = {"cde", "consola"}
    BY <1>2, <1>7, Partes
  <2>4. Atenta'
    BY <1>5, Partes DEF Atenta
  <2>5. Pedidos' /\ Agotados'
    BY <1>5, <1>7, <2>1, Partes, ZenonT(30) DEF Pedidos, Agotados
  <2>6. Elegidos'
    BY <1>2, <1>5, <2>1, <2>2, <2>3 DEF Elegidos
  <2>7. Recorrido'
    <3>1. Len(recursos_asignados[p]) <= Len(recursos_asignados'[p])
      <4>1. \A x \in Pids : recursos_asignados[x] \in Seq(Recursos)
        BY Partes
      <4>2. Len(Append(recursos_asignados[p], r)) = Len(recursos_asignados[p]) + 1
        BY <1>2, <1>4, <4>1, Enviado
      <4>3. CASE q = p
        BY <1>2, <1>3, <1>7, <2>1, <4>2, <4>3, Partes DEF TypeOK, TipoRecursos
      <4>4. CASE q # p
        BY <1>2, <1>3, <1>7, <2>1, <4>4, Partes DEF TypeOK, TipoRecursos
      <4> QED BY <4>3, <4>4
    <3>2. recursos_asignados' \in [Pids -> Seq(Recursos)]
      BY DEF RInv, TypeOK, TipoRecursos
    <3>3. Len(recursos_asignados'[p]) \in Nat
      BY <1>2, <3>2
    <3> QED BY <1>1, <1>3, <1>5, <3>1, <3>3 DEF Recorrido, p
  <2>8. \A x \in Pids : PorSalir(x)' <=> x = q
    <3>1. \A x \in Pids : x # Nulo
      BY NuloAssumption
    <3> QED BY <2>2, <2>3, <3>1 DEF PorSalir, Dejando
  <2>9. \A x \in Pids : ~PorSalir(x)
    <3>1. \A x \in Pids : x # Nulo
      BY NuloAssumption
    <3> QED BY <1>1, <1>2, <2>3, <3>1 DEF PorSalir, Dejando
  <2>10. \A x \in Pids : Duerme(x)' <=> Duerme(x) /\ x # q
    BY <1>2, <1>5, <2>8, <2>9 DEF Duerme
  <2>11. Dormidos'
    BY <2>1, <2>10, Partes DEF Dormidos
  <2> QED BY <1>5, <2>1, <2>4, <2>5, <2>6, <2>7, <2>11, Partes DEF FInv, SinFalla
<1> QED BY <1>1, <1>6, <1>7

\* The process that is being ended is in no queue afterwards: those it waits in
\* are among those of what it asked for.
LEMMA Dejados ==
  ASSUME FInv, NEW p \in Pids, procesos_bloqueados' = DejarSolicitados(p)
  PROVE  /\ procesos_bloqueados' = [r \in Recursos |-> RemoveFirst(procesos_bloqueados[r], p)]
         /\ UnaVez'
         /\ \A r \in Recursos : ToSet(procesos_bloqueados'[r]) = ToSet(procesos_bloqueados[r]) \ {p}
         /\ \A r \in Recursos : procesos_bloqueados[r] = <<>> => procesos_bloqueados'[r] = <<>>
<1>1. \A r \in Recursos : procesos_bloqueados'[r] = RemoveFirst(procesos_bloqueados[r], p)
  <2> SUFFICES ASSUME NEW r \in Recursos
               PROVE  procesos_bloqueados'[r] = RemoveFirst(procesos_bloqueados[r], p)
    OBVIOUS
  <2>1. CASE Contains(recursos_solicitados[p], r)
    BY <2>1 DEF DejarSolicitados, Quitar
  <2>2. CASE ~Contains(recursos_solicitados[p], r)
    <3>1. r \notin ToSet(recursos_solicitados[p])
      BY <2>2, Partes, Elementos
    <3>2. p \notin ToSet(procesos_bloqueados[r])
      BY <3>1, Partes DEF Pedidos
    <3>3. RemoveFirst(procesos_bloqueados[r], p) = procesos_bloqueados[r]
      BY <3>2, Partes, NadaQueQuitar
    <3> QED BY <2>2, <3>3 DEF DejarSolicitados
  <2> QED BY <2>1, <2>2
<1>2. procesos_bloqueados' = [r \in Recursos |-> RemoveFirst(procesos_bloqueados[r], p)]
  <2>1. procesos_bloqueados' = [r \in Recursos |-> procesos_bloqueados'[r]]
    BY DEF DejarSolicitados
  <2> QED BY <1>1, <2>1
<1>3. UnaVez
  BY Partes
<1>4. \A r \in Recursos : /\ ToSet(procesos_bloqueados'[r]) = ToSet(procesos_bloqueados[r]) \ {p}
                          /\ IsInjective(procesos_bloqueados'[r])
  BY <1>1, <1>3, Partes, ElementosSinPrimero DEF UnaVez
<1>5. UnaVez'
  BY <1>3, <1>4 DEF UnaVez
<1>6. ASSUME NEW r \in Recursos, procesos_bloqueados[r] = <<>>
      PROVE  procesos_bloqueados'[r] = <<>>
  <2>1. p \notin ToSet(procesos_bloqueados[r])
    BY <1>6, Partes, Elementos
  <2> QED BY <1>1, <1>6, <2>1, Partes, NadaQueQuitar
<1> QED BY <1>2, <1>4, <1>5, <1>6

LEMMA FielVaciaListas == ASSUME FInv, RInv', Servida', VaciaListas PROVE FInv'
<1> DEFINE p == pcb_a_liberar
<1>1. /\ pc["consola"] = "libera" /\ pc' = [pc EXCEPT !["consola"] = "retira"]
      /\ recursos_solicitados' = [recursos_solicitados EXCEPT ![p] = <<>>]
      /\ procesos_bloqueados' = DejarSolicitados(p)
      /\ UNCHANGED <<pcb_en_ejecucion, cola, instancias, despertado, pcb_a_liberar, indice, cpu,
                     interrupciones, interrupcion, falla>>
  BY DEF VaciaListas, Ir, procesos, planif, mandos, maquina
<1>2. /\ pc["cde"] = "inicio" /\ cpu.fase \in {"libre", "corre"} /\ p \in Pids
      /\ despertado["cde"] = Nulo /\ despertado["consola"] = Nulo
      /\ cpu.motivo # "RECURSO_NO_DISPONIBLE"
  BY <1>1, Sola DEF Trabaja, Colgada
<1>3. /\ UnaVez'
      /\ \A r \in Recursos : ToSet(procesos_bloqueados'[r]) = ToSet(procesos_bloqueados[r]) \ {p}
      /\ \A r \in Recursos : procesos_bloqueados[r] = <<>> => procesos_bloqueados'[r] = <<>>
  BY <1>1, <1>2, Dejados
<1>4. pc'["consola"] = "retira" /\ pc'["cde"] = "inicio"
  BY <1>1, <1>2, Partes, SonHilos, PcMueve
<1>5. Atenta' /\ Recorrido'
  BY <1>1, <1>2, <1>4, Partes DEF Atenta, Recorrido
<1>6. Pedidos'
  <2>1. \A x \in Pids \ {p} : recursos_solicitados'[x] = recursos_solicitados[x]
    BY <1>1
  <2>2. \A r \in Recursos : ToSet(procesos_bloqueados[r]) \subseteq Pids
    BY Partes, Elementos
  <2> QED BY <1>3, <2>1, <2>2, Partes DEF Pedidos
<1>7. Agotados' /\ Elegidos'
  BY <1>1, <1>2, <1>3, Partes DEF Agotados, Elegidos
<1>8. \A x \in Pids : EnEspera(x)' <=> EnEspera(x) /\ x # p
  BY <1>3 DEF EnEspera
<1>9. \A x \in Pids : Duerme(x)' <=> Duerme(x) /\ x # p
  <2>1. \A x \in Pids : x # Nulo
    BY NuloAssumption
  <2>2. DOMAIN despertado = {"cde", "consola"}
    BY Partes
  <2>3. \A x \in Pids : ~PorSalir(x) /\ (PorSalir(x)' <=> x = p)
    BY <1>1, <1>2, <1>4, <2>1, <2>2 DEF PorSalir, Dejando
  <2> QED BY <1>1, <1>2, <2>3 DEF Duerme
<1>10. Dormidos'
  BY <1>8, <1>9, Partes DEF Dormidos
<1> QED BY <1>1, <1>3, <1>5, <1>6, <1>7, <1>10, Partes DEF FInv, SinFalla

\* What the steps of the thread that serves the CPU start from.
LEMMA Atendido ==
  ASSUME FInv, ~CarreraConsola, SinOrdenPendiente, NEW op, Solicitud(op), AtenderCpu
  PROVE  /\ pc["cde"] = "inicio" /\ cpu.fase = "pide" /\ pcb_en_ejecucion \in Pids
         /\ ~Dejando /\ ~Dejando' /\ Recorrido' /\ ~interrupcion
         /\ despertado["cde"] = Nulo /\ despertado["consola"] = Nulo
         /\ cpu.motivo # "RECURSO_NO_DISPONIBLE"
         /\ \A x \in Pids : ~PorSalir(x) /\ (Duerme(x) <=> x \in ToSet(cola["Bloqueados"]))
         /\ ~EnEspera(pcb_en_ejecucion) /\ pcb_en_ejecucion \notin ToSet(cola["Bloqueados"])
<1>1. pc["cde"] = "inicio" /\ cpu.fase = "pide"
  BY DEF Solicitud
<1>2. ~Dejando /\ ~Dejando' /\ Recorrido' /\ despertado["consola"] = Nulo
  BY Quieta, QuietaSigue
<1>3. ~interrupcion /\ despertado["cde"] = Nulo /\ cpu.motivo # "RECURSO_NO_DISPONIBLE"
  BY <1>1, Partes DEF Atenta, Elegidos
<1>4. pcb_en_ejecucion \in Pids /\ pcb_en_ejecucion # Nulo
  BY <1>1, EnCpu, Partes, NuloAssumption
<1>5. \A x \in Pids : x # Nulo
  BY NuloAssumption
<1>6. \A x \in Pids : ~PorSalir(x)
  BY <1>2, <1>3, <1>5, Partes DEF PorSalir
<1>7. \A x \in Pids : Duerme(x) <=> x \in ToSet(cola["Bloqueados"])
  BY <1>3, <1>6 DEF Duerme
<1>8. pcb_en_ejecucion \notin ToSet(cola["Bloqueados"])
  BY <1>4, Partes
<1>9. ~EnEspera(pcb_en_ejecucion)
  BY <1>4, <1>7, <1>8, Partes DEF Dormidos
<1> QED BY <1>1, <1>2, <1>3, <1>4, <1>6, <1>7, <1>8, <1>9

LEMMA FielEvaluarWait ==
  ASSUME FInv, ~CarreraConsola, RInv', Servida', SinOrdenPendiente, EvaluarWait
  PROVE  FInv'
<1> DEFINE p == pcb_en_ejecucion
           r == UltimaInstruccion(p).recurso
<1>1. /\ pc["cde"] = "inicio" /\ cpu.fase = "pide" /\ p \in Pids
      /\ ~Dejando /\ ~Dejando' /\ Recorrido' /\ ~interrupcion
      /\ despertado["cde"] = Nulo /\ despertado["consola"] = Nulo
      /\ cpu.motivo # "RECURSO_NO_DISPONIBLE"
      /\ \A x \in Pids : ~PorSalir(x) /\ (Duerme(x) <=> x \in ToSet(cola["Bloqueados"]))
      /\ ~EnEspera(p) /\ p \notin ToSet(cola["Bloqueados"])
  BY Atendido DEF EvaluarWait, AtenderCpu
<1>2. r \in Recursos
  BY DEF EvaluarWait
<1>3. /\ UNCHANGED <<cola, pcb_en_ejecucion, pc, despertado, pcb_a_liberar, indice, interrupciones,
                     interrupcion, falla>>
      /\ \/ /\ instancias[r] > 0
            /\ instancias' = [instancias EXCEPT ![r] = @ - 1]
            /\ Respuesta(Nulo)
            /\ UNCHANGED <<procesos_bloqueados, recursos_solicitados>>
         \/ /\ instancias' = [instancias EXCEPT ![r] = 0]
            /\ procesos_bloqueados' = [procesos_bloqueados EXCEPT ![r] = Append(@, p)]
            /\ recursos_solicitados' = [recursos_solicitados EXCEPT ![p] = Append(@, r)]
            /\ Respuesta("RECURSO_NO_DISPONIBLE")
  BY DEF EvaluarWait, procesos, mandos, TrasNegar
<1> HIDE DEF r
<1>4. \A x \in Pids : PorSalir(x)' <=> PorSalir(x)
  BY <1>1, <1>3 DEF PorSalir
<1>5. Atenta'
  BY <1>1, <1>3 DEF Atenta
<1>6. instancias \in [Recursos -> Nat]
  BY Partes DEF TypeOK, TipoRecursos
<1>7. CASE /\ instancias[r] > 0
           /\ instancias' = [instancias EXCEPT ![r] = @ - 1]
           /\ Respuesta(Nulo)
           /\ UNCHANGED <<procesos_bloqueados, recursos_solicitados>>
  <2>1. cpu'.motivo = cpu.motivo
    BY <1>7, Partes, CpuRespuesta
  <2>2. UnaVez' /\ Pedidos'
    BY <1>7, Partes DEF UnaVez, Pedidos
  <2>3. Elegidos'
    BY <1>1, <1>3, <2>1 DEF Elegidos
  <2>4. Agotados'
    BY <1>2, <1>6, <1>7, Partes DEF Agotados
  <2>5. \A x \in Pids : (EnEspera(x)' <=> EnEspera(x)) /\ (Duerme(x)' <=> Duerme(x))
    BY <1>3, <1>4, <1>7, <2>1 DEF EnEspera, Duerme
  <2>6. Dormidos'
    BY <2>5, Partes DEF Dormidos
  <2> QED BY <1>1, <1>3, <1>5, <2>2, <2>3, <2>4, <2>6, Partes DEF FInv, SinFalla
<1>8. CASE /\ instancias' = [instancias EXCEPT ![r] = 0]
           /\ procesos_bloqueados' = [procesos_bloqueados EXCEPT ![r] = Append(@, p)]
           /\ recursos_solicitados' = [recursos_solicitados EXCEPT ![p] = Append(@, r)]
           /\ Respuesta("RECURSO_NO_DISPONIBLE")
  <2>1. cpu'.motivo = "RECURSO_NO_DISPONIBLE" /\ cpu'.fase = "sale"
    BY <1>8, Partes, CpuRespuesta, NuloAssumption DEF Motivos
  <2>2. UnaVez /\ procesos_bloqueados \in [Recursos -> Seq(Pids)]
    BY Partes DEF TypeOK, TipoRecursos
  <2>3. \A s \in Recursos : p \notin ToSet(procesos_bloqueados[s])
    BY <1>1 DEF EnEspera
  <2>4. /\ procesos_bloqueados'[r] = Append(procesos_bloqueados[r], p)
        /\ \A s \in Recursos \ {r} : procesos_bloqueados'[s] = procesos_bloqueados[s]
    BY <1>2, <1>8, <2>2
  <2>5. /\ ToSet(procesos_bloqueados'[r]) = ToSet(procesos_bloqueados[r]) \cup {p}
        /\ IsInjective(procesos_bloqueados'[r])
    <3>1. IsInjective(procesos_bloqueados[r]) /\ procesos_bloqueados[r] \in Seq(Pids)
      BY <1>2, <2>2 DEF UnaVez
    <3> QED BY <1>1, <1>2, <2>3, <2>4, <3>1, ElementosAgrega
  <2>6. UnaVez'
    <3>1. \A s \in Recursos : IsInjective(procesos_bloqueados'[s])
      BY <2>2, <2>4, <2>5 DEF UnaVez
    <3>2. \A s, t \in Recursos :
            s # t => ToSet(procesos_bloqueados'[s]) \cap ToSet(procesos_bloqueados'[t]) = {}
      <4>1. \A s \in Recursos : \A x \in ToSet(procesos_bloqueados'[s]) :
              x \in ToSet(procesos_bloqueados[s]) \/ (x = p /\ s = r)
        BY <2>4, <2>5
      <4> SUFFICES ASSUME NEW s \in Recursos, NEW t \in Recursos, s # t,
                          NEW x, x \in ToSet(procesos_bloqueados'[s]),
                          x \in ToSet(procesos_bloqueados'[t])
                   PROVE  FALSE
        OBVIOUS
      <4>2. CASE x = p
        <5>1. s = r /\ t = r
          BY <2>3, <4>1, <4>2
        <5> QED BY <5>1
      <4>3. CASE x # p
        <5>1. x \in ToSet(procesos_bloqueados[s]) /\ x \in ToSet(procesos_bloqueados[t])
          BY <4>1, <4>3
        <5> QED BY <2>2, <5>1 DEF UnaVez
      <4> QED BY <4>2, <4>3
    <3> QED BY <3>1, <3>2 DEF UnaVez
  <2>7. Pedidos'
    <3>1. recursos_solicitados \in [Pids -> Seq(Recursos)]
      BY Partes DEF TypeOK, TipoRecursos
    <3>2. /\ recursos_solicitados'[p] = Append(recursos_solicitados[p], r)
          /\ \A x \in Pids \ {p} : recursos_solicitados'[x] = recursos_solicitados[x]
      BY <1>1, <1>8, <3>1
    <3>3. r \in ToSet(recursos_solicitados'[p])
      BY <1>1, <1>2, <3>1, <3>2, ElementosAgrega
    <3>4. \A s \in Recursos : ToSet(procesos_bloqueados[s]) \subseteq Pids
      BY Partes, Elementos
    <3>5. ASSUME NEW s \in Recursos, NEW x \in ToSet(procesos_bloqueados'[s])
          PROVE  s \in ToSet(recursos_solicitados'[x])
      <4>1. CASE x = p
        <5>1. s = r
          BY <2>3, <2>4, <3>5, <4>1
        <5> QED BY <3>3, <4>1, <5>1
      <4>2. CASE x # p
        <5>1. x \in ToSet(procesos_bloqueados[s])
          BY <2>4, <2>5, <3>5, <4>2
        <5> QED BY <3>2, <3>4, <4>2, <5>1, Partes DEF Pedidos
      <4> QED BY <4>1, <4>2
    <3> QED BY <3>5 DEF Pedidos
  <2>8. Elegidos'
    BY <1>1, <1>3, <2>1 DEF Elegidos
  <2>9. Agotados'
    BY <1>2, <1>6, <1>8, <2>4, Partes DEF Agotados
  <2>10. \A x \in Pids : EnEspera(x)' <=> EnEspera(x) \/ x = p
    BY <1>2, <2>4, <2>5 DEF EnEspera
  <2>11. \A x \in Pids : Duerme(x)' <=> Duerme(x) \/ x = p
    BY <1>1, <1>3, <1>4, <2>1 DEF Duerme
  <2>12. Dormidos'
    BY <2>10, <2>11, Partes DEF Dormidos
  <2> QED BY <1>1, <1>3, <1>5, <2>6, <2>7, <2>8, <2>9, <2>12, Partes DEF FInv, SinFalla
<1> QED BY <1>3, <1>7, <1>8

LEMMA FielEvaluarSignal ==
  ASSUME FInv, ~CarreraConsola, RInv', Servida', SinOrdenPendiente, EvaluarSignal
  PROVE  FInv'
<1> DEFINE p == pcb_en_ejecucion
           r == UltimaInstruccion(p).recurso
           q == Siguiente(r)
<1>1. /\ pc["cde"] = "inicio" /\ cpu.fase = "pide" /\ p \in Pids
      /\ ~Dejando /\ ~Dejando' /\ Recorrido' /\ ~interrupcion
      /\ despertado["cde"] = Nulo /\ despertado["consola"] = Nulo
      /\ cpu.motivo # "RECURSO_NO_DISPONIBLE"
      /\ \A x \in Pids : ~PorSalir(x) /\ (Duerme(x) <=> x \in ToSet(cola["Bloqueados"]))
  BY Atendido DEF EvaluarSignal, AtenderCpu
<1>2. r \in Recursos
  BY DEF EvaluarSignal
<1>3. /\ UNCHANGED <<cola, pcb_en_ejecucion, pcb_a_liberar, indice, interrupciones, interrupcion, falla>>
      /\ \/ /\ ~AlguienEspera(r)
            /\ instancias' = [instancias EXCEPT ![r] = @ + 1]
            /\ Respuesta(Nulo)
            /\ UNCHANGED <<procesos_bloqueados, recursos_solicitados, despertado, pc>>
         \/ /\ AlguienEspera(r)
            /\ procesos_bloqueados' = [procesos_bloqueados EXCEPT ![r] = Quitar(@, q)]
            /\ recursos_solicitados' = [recursos_solicitados EXCEPT ![q] = Quitar(@, r)]
            /\ despertado' = [despertado EXCEPT !["cde"] = q]
            /\ pc' = [pc EXCEPT !["cde"] = "despierta"]
            /\ instancias' = instancias
            /\ UNCHANGED cpu
  BY DEF EvaluarSignal, procesos, mandos, Cedida
<1> HIDE DEF r, q
<1>4. CASE /\ ~AlguienEspera(r)
           /\ instancias' = [instancias EXCEPT ![r] = @ + 1]
           /\ Respuesta(Nulo)
           /\ UNCHANGED <<procesos_bloqueados, recursos_solicitados, despertado, pc>>
  <2>1. cpu'.motivo = cpu.motivo
    BY <1>4, Partes, CpuRespuesta
  <2>2. UnaVez' /\ Pedidos'
    BY <1>4, Partes DEF UnaVez, Pedidos
  <2>3. Elegidos' /\ Atenta'
    BY <1>1, <1>3, <1>4, <2>1 DEF Elegidos, Atenta
  <2>4. Agotados'
    <3>1. instancias \in [Recursos -> Nat]
      BY Partes DEF TypeOK, TipoRecursos
    <3> QED BY <1>2, <1>4, <3>1, Partes DEF Agotados, AlguienEspera
  <2>5. \A x \in Pids : (EnEspera(x)' <=> EnEspera(x)) /\ (Duerme(x)' <=> Duerme(x))
    BY <1>1, <1>3, <1>4, <2>1 DEF EnEspera, Duerme, PorSalir
  <2>6. Dormidos'
    BY <2>5, Partes DEF Dormidos
  <2> QED BY <1>1, <1>3, <2>2, <2>3, <2>4, <2>6, Partes DEF FInv, SinFalla
<1>5. CASE /\ AlguienEspera(r)
           /\ procesos_bloqueados' = [procesos_bloqueados EXCEPT ![r] = Quitar(@, q)]
           /\ recursos_solicitados' = [recursos_solicitados EXCEPT ![q] = Quitar(@, r)]
           /\ despertado' = [despertado EXCEPT !["cde"] = q]
           /\ pc' = [pc EXCEPT !["cde"] = "despierta"]
           /\ instancias' = instancias
           /\ UNCHANGED cpu
  <2>1. /\ q \in Pids /\ q # Nulo /\ Duerme(q) /\ UnaVez'
        /\ \A x \in Pids : EnEspera(x)' <=> EnEspera(x) /\ x # q
        /\ \A s \in Recursos : ToSet(procesos_bloqueados'[s]) = ToSet(procesos_bloqueados[s]) \ {q}
        /\ \A s \in Recursos : procesos_bloqueados[s] = <<>> => procesos_bloqueados'[s] = <<>>
    BY <1>2, <1>5, Entregado DEF q
  <2>2. pc'["cde"] = "despierta"
    BY <1>1, <1>5, Partes, SonHilos, PcMueve
  <2>3. /\ despertado'["cde"] = q /\ despertado'["consola"] = Nulo
        /\ DOMAIN despertado' = {"cde", "consola"}
    BY <1>1, <1>5, Partes
  <2>4. Atenta'
    BY <1>1, <1>3 DEF Atenta
  <2>5. Pedidos'
    <3>1. \A x \in Pids \ {q} : recursos_solicitados'[x] = recursos_solicitados[x]
      BY <1>5
    <3>2. \A s \in Recursos : ToSet(procesos_bloqueados[s]) \subseteq Pids
      BY Partes, Elementos
    <3> QED BY <2>1, <3>1, <3>2, Partes DEF Pedidos
  <2>6. Agotados'
    BY <1>5, <2>1, Partes DEF Agotados
  <2>7. Elegidos'
    BY <1>1, <1>3, <1>5, <2>1, <2>2, <2>3 DEF Elegidos
  <2>8. \A x \in Pids : PorSalir(x)' <=> x = q
    <3>1. \A x \in Pids : x # Nulo
      BY NuloAssumption
    <3> QED BY <1>1, <2>3, <3>1 DEF PorSalir
  <2>9. \A x \in Pids : Duerme(x)' <=> Duerme(x) /\ x # q
    BY <1>1, <1>3, <1>5, <2>8 DEF Duerme
  <2>10. Dormidos'
    BY <2>1, <2>9, Partes DEF Dormidos
  <2> QED BY <1>1, <1>3, <2>1, <2>4, <2>5, <2>6, <2>7, <2>10, Partes DEF FInv, SinFalla
<1> QED BY <1>3, <1>4, <1>5

(***************************************************************************)
(* The invariant holds.                                                    *)
(***************************************************************************)
LEMMA InicioFInv == Init => FInv
<1> SUFFICES ASSUME Init PROVE FInv
  OBVIOUS
<1>1. RInv /\ SinFalla
  BY InicioRInv DEF Init, SinFalla
<1>2. \A r \in Recursos : /\ procesos_bloqueados[r] = <<>> /\ ToSet(procesos_bloqueados[r]) = {}
                          /\ IsInjective(procesos_bloqueados[r])
  BY DEF Init, ToSet, IsInjective
<1>3. cola["Bloqueados"] = <<>> /\ ToSet(cola["Bloqueados"]) = {}
  BY SonColas DEF Init, ToSet
<1>4. cpu.fase = "libre" /\ cpu.motivo # "RECURSO_NO_DISPONIBLE"
  BY CpuSinNadie, NuloAssumption DEF Init, Motivos
<1>5. pc["consola"] = "inicio" /\ pc["cde"] = "inicio"
  BY SonHilos DEF Init
<1>6. Servida /\ Atenta /\ Recorrido
  BY <1>5, InicioServida DEF Init, Atenta, Recorrido
<1>7. UnaVez /\ Pedidos /\ Agotados
  BY <1>2 DEF UnaVez, Pedidos, Agotados
<1>8. Elegidos
  BY <1>4 DEF Init, Elegidos
<1>9. Dormidos
  BY <1>2, <1>3, <1>4 DEF Dormidos, EnEspera, Duerme
<1> QED BY <1>1, <1>6, <1>7, <1>8, <1>9 DEF FInv

LEMMA PasoFInv == ASSUME ~CarreraConsola PROVE FInv /\ [Next]_vars => FInv'
<1> SUFFICES ASSUME FInv, [Next]_vars PROVE FInv'
  OBVIOUS
<1>1. RInv' /\ Servida'
  BY PasoRInv, PasoServida, Partes
<1>2. CASE UNCHANGED vars
  <2>1. UNCHANGED <<pcb_en_ejecucion, cola, recursos, recursos_asignados, pc, despertado,
                    pcb_a_liberar, indice, caso, cpu, interrupcion, falla>>
    BY <1>2 DEF vars, procesos, planif, recursos, mandos, maquina
  <2>2. Atenta' /\ Recorrido'
    BY <2>1, Partes DEF Atenta, Recorrido
  <2>3. cpu'.motivo = "RECURSO_NO_DISPONIBLE" => cpu'.fase \in {"sale", "devuelto"}
    BY <2>1, Partes DEF Elegidos
  <2> QED BY <1>1, <2>1, <2>2, <2>3, FielAjeno DEF Dejando
<1>3. CASE Next
  <2>1. CASE IniciarProceso \/ FinalizarProceso \/ LiberaRecurso \/ ConsolaDespierta \/ VaciaListas
    BY <1>1, <2>1, FielOrdenes, FielLiberaRecurso, FielConsolaDespierta, FielVaciaListas
  <2>2. CASE RetiraLee \/ RetiraExec \/ RetiraEspera \/ RetiraQuita \/ FinalizaPcb \/ FinalizaAvisa
    BY <1>1, <2>2, FielRetiraLee, FielRetiraExec, FielRetiraQuita, FielFinaliza
  <2>3. CASE CambiarGrado \/ GradoEscribe \/ GradoSuma
    BY <1>1, <2>3, FielGrado
  <2>4. CASE CpuInterrupt
    BY <1>1, <2>4, FielCpuInterrupt
  <2>5. ASSUME SinOrdenPendiente, PlanificadorLargo \/ PlanificadorCorto \/ TerminarProceso
        PROVE  FInv'
    BY <1>1, <2>5, FielPlanificadores
  <2>6. ASSUME SinOrdenPendiente, Cpu PROVE FInv'
    BY <1>1, <2>6, FielCpu
  <2>7. ASSUME SinOrdenPendiente, AtenderCpu PROVE FInv'
    BY <1>1, <2>7, FielEvaluarWait, FielEvaluarSignal, FielRespuestas, FielCdeDespierta, FielDejan
    DEF AtenderCpu
  <2> QED BY <1>3, <2>1, <2>2, <2>3, <2>4, <2>5, <2>6, <2>7 DEF Next, Consola, ConsolaSigue
<1> QED BY <1>2, <1>3

LEMMA SiempreFInv == ASSUME ~CarreraConsola PROVE Spec => []FInv
<1>1. FInv /\ [Next]_vars => FInv'
  BY PasoFInv
<1> QED BY <1>1, InicioFInv, PTL DEF Spec

\* When commands are served whole, no NULL PCB is ever used: whoever a resource
\* is handed to is in procesosBloqueados when it is woken, even if the process
\* that gave it back, or the one that waited, was being ended by the console.
THEOREM NingunaFalla == ~CarreraConsola => (Spec => []SinFalla)
<1> SUFFICES ASSUME ~CarreraConsola PROVE Spec => []SinFalla
  OBVIOUS
<1>1. FInv => SinFalla
  BY DEF FInv
<1> QED BY <1>1, SiempreFInv, PTL

(***************************************************************************)
(* What the invariant says of the queues of the resources.                 *)
(***************************************************************************)
LEMMA PidsFinitos == IsFiniteSet(Pids) /\ Cardinality(Pids) = Len(Programas)
<1>1. PICK n \in Nat : n = Len(Programas) /\ Pids = 1..n
  BY ProgramasAssumption
<1>2. IsFiniteSet(1..n) /\ Cardinality(1..n) = n
  BY FS_Interval
<1> QED BY <1>1, <1>2

\* The queue of a resource fits where Esperas looks.
LEMMA ColaCorta ==
  ASSUME FInv, NEW r \in Recursos
  PROVE  Len(procesos_bloqueados[r]) <= Len(Programas)
<1>1. IsFiniteSet(Pids) /\ Cardinality(Pids) = Len(Programas)
  BY PidsFinitos
<1>2. procesos_bloqueados[r] \in Seq(Pids) /\ IsInjective(procesos_bloqueados[r])
  BY Partes DEF UnaVez
<1> QED BY <1>1, <1>2, InyectivaCorta

LEMMA EsperaDeFInv == FInv => EsperaFiel
<1> SUFFICES ASSUME FInv, NEW p \in Pids
             PROVE  /\ Cardinality(Esperas(p)) <= 1
                    /\ Esperas(p) # {} <=>
                         \/ Contains(cola["Bloqueados"], p) /\ ~PorSalir(p)
                         \/ p = pcb_en_ejecucion /\ cpu.motivo = "RECURSO_NO_DISPONIBLE"
                    /\ \A e \in Esperas(p) : /\ Contains(recursos_solicitados[p], e[1])
                                             /\ instancias[e[1]] = 0
  BY DEF EsperaFiel
<1>1. \A r \in Recursos : /\ Len(procesos_bloqueados[r]) \in Nat
                          /\ DOMAIN procesos_bloqueados[r] = 1..Len(procesos_bloqueados[r])
                          /\ Len(procesos_bloqueados[r]) <= Len(Programas)
  BY Partes, ColaCorta
<1>2. Len(Programas) \in Nat
  BY ProgramasAssumption
<1>3. \A e \in Esperas(p) : /\ e = <<e[1], e[2]>> /\ e[1] \in Recursos
                            /\ e[2] \in DOMAIN procesos_bloqueados[e[1]]
                            /\ procesos_bloqueados[e[1]][e[2]] = p
                            /\ p \in ToSet(procesos_bloqueados[e[1]])
  BY <1>1, Partes, Elementos DEF Esperas
<1>4. ASSUME NEW r \in Recursos, p \in ToSet(procesos_bloqueados[r])
      PROVE  Esperas(p) # {}
  <2>1. PICK k \in 1..Len(procesos_bloqueados[r]) : procesos_bloqueados[r][k] = p
    BY <1>4, Partes, Elementos
  <2>2. k \in 1..Len(Programas) /\ k \in DOMAIN procesos_bloqueados[r]
    BY <1>1, <1>2, <2>1
  <2>3. <<r, k>> \in Esperas(p)
    BY <2>1, <2>2 DEF Esperas
  <2> QED BY <2>3
<1>5. Esperas(p) # {} <=> EnEspera(p)
  BY <1>3, <1>4 DEF EnEspera
<1>6. \A d, e \in Esperas(p) : d = e
  <2> SUFFICES ASSUME NEW d \in Esperas(p), NEW e \in Esperas(p) PROVE d = e
    OBVIOUS
  <2>1. d[1] = e[1]
    BY <1>3, Partes DEF UnaVez
  <2>2. d[2] = e[2]
    BY <1>3, <2>1, Partes DEF UnaVez, IsInjective
  <2> QED BY <1>3, <2>1, <2>2
<1>7. Cardinality(Esperas(p)) <= 1
  <2>1. CASE Esperas(p) = {}
    BY <2>1, FS_EmptySet
  <2>2. CASE Esperas(p) # {}
    <3>1. PICK e : e \in Esperas(p)
      BY <2>2
    <3>2. Esperas(p) = {e}
      BY <1>6, <3>1
    <3>3. Cardinality({e}) = 1
      BY FS_Singleton
    <3> QED BY <3>2, <3>3
  <2> QED BY <2>1, <2>2
<1>8. Contains(cola["Bloqueados"], p) <=> p \in ToSet(cola["Bloqueados"])
  BY Partes, Elementos
<1>9. EnEspera(p) <=> Duerme(p)
  BY Partes DEF Dormidos
<1>10. \A e \in Esperas(p) : Contains(recursos_solicitados[p], e[1])
  <2> SUFFICES ASSUME NEW e \in Esperas(p) PROVE Contains(recursos_solicitados[p], e[1])
    OBVIOUS
  <2>1. e[1] \in ToSet(recursos_solicitados[p])
    BY <1>3, Partes DEF Pedidos
  <2> QED BY <2>1, Partes, Elementos
<1>11. \A e \in Esperas(p) : instancias[e[1]] = 0
  <2> SUFFICES ASSUME NEW e \in Esperas(p) PROVE instancias[e[1]] = 0
    OBVIOUS
  <2>1. instancias[e[1]] \in Nat /\ procesos_bloqueados[e[1]] # <<>>
    BY <1>3, Partes
  <2> QED BY <1>3, <2>1, Partes DEF Agotados
<1> QED BY <1>5, <1>7, <1>8, <1>9, <1>10, <1>11 DEF Duerme

\* Nobody sleeps for nothing and nobody is woken twice: from its WAIT to the
\* hand-over, and no longer, a process is in exactly one queue of one resource,
\* that has no free instance, the list of what it asked for says so, and no
\* queue keeps a dead process.
THEOREM NadieDuermeDeMas == ~CarreraConsola => (Spec => []EsperaFiel)
<1> SUFFICES ASSUME ~CarreraConsola PROVE Spec => []EsperaFiel
  OBVIOUS
<1>1. FInv => EsperaFiel
  BY EsperaDeFInv
<1> QED BY <1>1, SiempreFInv, PTL

\* What every wait gives up a sem_post gives back: the semaphores count what is
\* in the queues, also when the console takes a process out of the middle.
THEOREM TokensSiempreFieles == ~CarreraConsola => (Spec => []SemaforosFieles)
<1> SUFFICES ASSUME ~CarreraConsola PROVE Spec => []SemaforosFieles
  OBVIOUS
<1>1. FInv => SemaforosFieles
  BY Partes DEF Cuentas
<1> QED BY <1>1, SiempreFInv, PTL

\* Without console races and with MULTIPROGRAMACION never below what is in use,
\* free places and processes in memory always add up to the degree asked for
\* last: FINALIZAR_PROCESO neither loses a place nor makes one.
THEOREM LugaresSiempreConservados ==
  ~CarreraConsola /\ ~BajaDelGrado => (Spec => []GradoConservado)
<1> SUFFICES ASSUME ~CarreraConsola, ~BajaDelGrado PROVE Spec => []GradoConservado
  OBVIOUS
<1>1. FInv => GradoConservado
  BY Partes DEF Cuentas
<1> QED BY <1>1, SiempreFInv, PTL

(***************************************************************************)
(* Who has what.                                                           *)
(***************************************************************************)
\* With a the lists of the processes and d where each one is looked at from:
\* how many instances each process has, and how many of r they all have.
Listas == [Pids -> Seq(Recursos)]
Inicios == [Pids -> Nat \ {0}]
Cuenta(a, d) == [p \in Pids |-> [r \in Recursos |-> Cardinality(Veces(a[p], d[p], r))]]
Total(a, d, r) == Cardinality(UNION {{p} \X Veces(a[p], d[p], r) : p \in Pids})

\* The total moves as the one list that changes.
LEMMA TotalDeUno ==
  ASSUME NEW a \in Listas, NEW b \in Listas, NEW d \in Inicios, NEW e \in Inicios,
         NEW p \in Pids, \A x \in Pids \ {p} : b[x] = a[x] /\ e[x] = d[x], NEW r
  PROVE  /\ Total(a, d, r) \in Nat /\ Total(b, e, r) \in Nat
         /\ Total(b, e, r) + Cardinality(Veces(a[p], d[p], r)) =
              Total(a, d, r) + Cardinality(Veces(b[p], e[p], r))
<1> DEFINE R == UNION {{x} \X Veces(a[x], d[x], r) : x \in Pids \ {p}}
           A == {p} \X Veces(a[p], d[p], r)
           B == {p} \X Veces(b[p], e[p], r)
<1>1. /\ \A x \in Pids : IsFiniteSet(Veces(a[x], d[x], r))
      /\ IsFiniteSet(Veces(b[p], e[p], r))
      /\ Cardinality(Veces(a[p], d[p], r)) \in Nat /\ Cardinality(Veces(b[p], e[p], r)) \in Nat
  BY VecesFinitas DEF Listas, Inicios
<1>2. /\ IsFiniteSet(A) /\ Cardinality(A) = Cardinality(Veces(a[p], d[p], r))
      /\ IsFiniteSet(B) /\ Cardinality(B) = Cardinality(Veces(b[p], e[p], r))
  <2>1. IsFiniteSet({p}) /\ Cardinality({p}) = 1
    BY FS_Singleton
  <2>2. /\ IsFiniteSet(A) /\ Cardinality(A) = 1 * Cardinality(Veces(a[p], d[p], r))
        /\ IsFiniteSet(B) /\ Cardinality(B) = 1 * Cardinality(Veces(b[p], e[p], r))
    BY <1>1, <2>1, FS_Product
  <2> QED BY <1>1, <2>2
<1>3. IsFiniteSet(R) /\ Cardinality(R) \in Nat
  <2> DEFINE g == [x \in Pids \ {p} |-> {x} \X Veces(a[x], d[x], r)]
             S == {{x} \X Veces(a[x], d[x], r) : x \in Pids \ {p}}
  <2>1. IsFiniteSet(Pids \ {p})
    BY PidsFinitos, FS_RemoveElement
  <2>2. g \in Surjection(Pids \ {p}, S)
    BY DEF Surjection
  <2>3. IsFiniteSet(S)
    BY <2>1, <2>2, FS_Surjection
  <2>4. ASSUME NEW x \in Pids \ {p} PROVE IsFiniteSet({x} \X Veces(a[x], d[x], r))
    <3>1. IsFiniteSet({x}) /\ IsFiniteSet(Veces(a[x], d[x], r))
      BY <1>1, FS_Singleton
    <3> QED BY <3>1, FS_Product
  <2>5. IsFiniteSet(R)
    BY <2>3, <2>4, FS_UNION
  <2> QED BY <2>5, FS_CardinalityType
<1>4. /\ UNION {{x} \X Veces(a[x], d[x], r) : x \in Pids} = R \cup A /\ R \cap A = {}
      /\ UNION {{x} \X Veces(b[x], e[x], r) : x \in Pids} = R \cup B /\ R \cap B = {}
  OBVIOUS
<1> HIDE DEF R, A, B
<1>5. /\ Total(a, d, r) = Cardinality(R) + Cardinality(A)
      /\ Total(b, e, r) = Cardinality(R) + Cardinality(B)
  <2>1. Cardinality({}) = 0 /\ Cardinality(A) \in Nat /\ Cardinality(B) \in Nat
    BY <1>1, <1>2, FS_EmptySet
  <2>2. /\ Cardinality(R \cup A) = Cardinality(R) + Cardinality(A) - Cardinality(R \cap A)
        /\ Cardinality(R \cup B) = Cardinality(R) + Cardinality(B) - Cardinality(R \cap B)
    BY <1>2, <1>3, FS_Union
  <2>3. Total(a, d, r) = Cardinality(R \cup A) /\ Total(b, e, r) = Cardinality(R \cup B)
    BY <1>4 DEF Total
  <2>4. Cardinality(R \cap A) = 0 /\ Cardinality(R \cap B) = 0
    BY <1>4, <2>1
  <2> QED BY <1>3, <2>1, <2>2, <2>3, <2>4
<1> QED BY <1>1, <1>2, <1>3, <1>5

\* From lists a and starts d to b and e, nothing changes but p's instances of r,
\* by k: what that is of the positions, and of the counts.
SoloDe(a, d, b, e, p, r, k) ==
  /\ a \in Listas /\ b \in Listas /\ d \in Inicios /\ e \in Inicios
  /\ p \in Pids /\ r \in Recursos /\ k \in Int
  /\ \A x \in Pids \ {p} : b[x] = a[x] /\ e[x] = d[x]
  /\ \A s \in Recursos :
       Cardinality(Veces(b[p], e[p], s)) =
         Cardinality(Veces(a[p], d[p], s)) + (IF r = s THEN k ELSE 0)

Cambia(a, d, b, e, p, r, k) ==
  /\ b \in Listas /\ e \in Inicios
  /\ Cuenta(b, e) = [Cuenta(a, d) EXCEPT ![p][r] = @ + k]
  /\ \A s \in Recursos :
       /\ Total(a, d, s) \in Nat /\ Total(b, e, s) \in Nat
       /\ Total(b, e, s) = Total(a, d, s) + (IF r = s THEN k ELSE 0)

LEMMA CuentaDeUno ==
  ASSUME NEW a, NEW d, NEW b, NEW e, NEW p, NEW r, NEW k, SoloDe(a, d, b, e, p, r, k)
  PROVE  Cambia(a, d, b, e, p, r, k)
<1>0. /\ a \in Listas /\ b \in Listas /\ d \in Inicios /\ e \in Inicios
      /\ p \in Pids /\ r \in Recursos /\ k \in Int
      /\ \A x \in Pids \ {p} : b[x] = a[x] /\ e[x] = d[x]
      /\ \A s \in Recursos :
           Cardinality(Veces(b[p], e[p], s)) =
             Cardinality(Veces(a[p], d[p], s)) + (IF r = s THEN k ELSE 0)
  BY DEF SoloDe
<1>1. \A x \in Pids, s \in Recursos :
        Cuenta(b, e)[x][s] = [Cuenta(a, d) EXCEPT ![p][r] = @ + k][x][s]
  <2> SUFFICES ASSUME NEW x \in Pids, NEW s \in Recursos
               PROVE  Cuenta(b, e)[x][s] = [Cuenta(a, d) EXCEPT ![p][r] = @ + k][x][s]
    OBVIOUS
  <2>1. Cardinality(Veces(a[p], d[p], s)) \in Nat
    BY <1>0, VecesFinitas DEF Listas, Inicios
  <2>2. CASE x # p
    BY <1>0, <2>2 DEF Cuenta
  <2>3. CASE x = p /\ s # r
    BY <1>0, <2>1, <2>3 DEF Cuenta
  <2>4. CASE x = p /\ s = r
    BY <1>0, <2>4 DEF Cuenta
  <2> QED BY <2>2, <2>3, <2>4
<1>2. Cuenta(b, e) = [Cuenta(a, d) EXCEPT ![p][r] = @ + k]
  <2> DEFINE f == Cuenta(b, e)
             g == [Cuenta(a, d) EXCEPT ![p][r] = @ + k]
  <2>1. /\ f = [x \in Pids |-> f[x]] /\ \A x \in Pids : f[x] = [s \in Recursos |-> f[x][s]]
    BY DEF Cuenta
  <2>2. g = [x \in Pids |-> g[x]] /\ \A x \in Pids : g[x] = [s \in Recursos |-> g[x][s]]
    BY DEF Cuenta
  <2> HIDE DEF f, g
  <2>3. \A x \in Pids, s \in Recursos : f[x][s] = g[x][s]
    BY <1>1 DEF f, g
  <2>4. ASSUME NEW x \in Pids PROVE f[x] = g[x]
    BY <2>1, <2>2, <2>3
  <2>5. f = g
    BY <2>1, <2>2, <2>4
  <2> QED BY <2>5 DEF f, g
<1>3. ASSUME NEW s \in Recursos
      PROVE  /\ Total(a, d, s) \in Nat /\ Total(b, e, s) \in Nat
             /\ Total(b, e, s) = Total(a, d, s) + (IF r = s THEN k ELSE 0)
  <2>1. Cardinality(Veces(a[p], d[p], s)) \in Nat
    BY <1>0, VecesFinitas DEF Listas, Inicios
  <2>2. /\ Total(a, d, s) \in Nat /\ Total(b, e, s) \in Nat
        /\ Total(b, e, s) + Cardinality(Veces(a[p], d[p], s)) =
             Total(a, d, s) + Cardinality(Veces(b[p], e[p], s))
    BY <1>0, TotalDeUno
  <2> QED BY <1>0, <2>1, <2>2
<1> QED BY <1>0, <1>2, <1>3 DEF Cambia

\* An instance of r for p.
LEMMA CuentaMas ==
  ASSUME NEW a \in Listas, NEW d \in Inicios, NEW p \in Pids, NEW r \in Recursos,
         d[p] <= Len(a[p]) + 1, NEW b, b = [a EXCEPT ![p] = Append(@, r)]
  PROVE  Cambia(a, d, b, d, p, r, 1)
<1>1. /\ b \in Listas /\ b[p] = Append(a[p], r) /\ a[p] \in Seq(Recursos) /\ d[p] \in Nat \ {0}
      /\ \A x \in Pids \ {p} : b[x] = a[x]
  <2>1. a[p] \in Seq(Recursos) /\ d[p] \in Nat \ {0}
    BY DEF Listas, Inicios
  <2>2. Append(a[p], r) \in Seq(Recursos)
    BY <2>1, AppendProperties
  <2>3. b \in Listas /\ b[p] = Append(a[p], r) /\ \A x \in Pids \ {p} : b[x] = a[x]
    BY <2>2 DEF Listas
  <2> QED BY <2>1, <2>3
<1>2. \A s \in Recursos :
        Cardinality(Veces(b[p], d[p], s)) =
          Cardinality(Veces(a[p], d[p], s)) + (IF r = s THEN 1 ELSE 0)
  BY <1>1, VecesAgrega, SMTT(30)
<1>3. SoloDe(a, d, b, d, p, r, 1)
  BY <1>1, <1>2 DEF SoloDe
<1> QED BY <1>3, CuentaDeUno

\* SIGNAL: p has an instance of r less.
LEMMA CuentaMenos ==
  ASSUME NEW a \in Listas, NEW d \in Inicios, NEW p \in Pids, NEW r \in Recursos,
         d[p] = 1, r \in ToSet(a[p]), NEW b, b = [a EXCEPT ![p] = RemoveFirst(@, r)]
  PROVE  Cambia(a, d, b, d, p, r, -1) /\ Cuenta(a, d)[p][r] \in Nat \ {0}
<1>1. a[p] \in Seq(Recursos)
  BY DEF Listas
<1>2. RemoveFirst(a[p], r) \in Seq(Recursos)
  BY <1>1, ElementosSinPrimero
<1>3. /\ b \in Listas /\ b[p] = RemoveFirst(a[p], r)
      /\ \A x \in Pids \ {p} : b[x] = a[x]
  BY <1>2 DEF Listas
<1>4. \A s \in Recursos : Cardinality(Veces(a[p], 1, s)) \in Nat
  BY <1>1, VecesFinitas
<1>5. \A s \in Recursos :
        Cardinality(Veces(b[p], 1, s)) = Cardinality(Veces(a[p], 1, s)) - (IF r = s THEN 1 ELSE 0)
  BY <1>1, <1>3, VecesSaca
<1>6. SoloDe(a, d, b, d, p, r, -1)
  BY <1>3, <1>4, <1>5 DEF SoloDe
<1>7. Veces(a[p], 1, r) # {}
  BY <1>1, Elementos DEF Veces
<1>8. Cuenta(a, d)[p][r] \in Nat \ {0}
  BY <1>1, <1>4, <1>7, VecesFinitas DEF Cuenta
<1> QED BY <1>6, <1>8, CuentaDeUno

\* One turn of liberar_recursos_pcb: p has given back what is at d[p].
LEMMA CuentaAvanza ==
  ASSUME NEW a \in Listas, NEW d \in Inicios, NEW p \in Pids, NEW r \in Recursos,
         d[p] <= Len(a[p]), r = a[p][d[p]], NEW e, e = [d EXCEPT ![p] = @ + 1]
  PROVE  Cambia(a, d, a, e, p, r, -1) /\ Cuenta(a, d)[p][r] \in Nat \ {0}
<1>1. a[p] \in Seq(Recursos) /\ d[p] \in Nat \ {0} /\ Len(a[p]) \in Nat
  BY DEF Listas, Inicios
<1>2. e \in Inicios /\ e[p] = d[p] + 1 /\ \A x \in Pids \ {p} : e[x] = d[x]
  BY DEF Inicios
<1>3. \A s \in Recursos : Cardinality(Veces(a[p], d[p], s)) \in Nat
  BY <1>1, VecesFinitas
<1>4. \A s \in Recursos :
        Cardinality(Veces(a[p], d[p] + 1, s)) =
          Cardinality(Veces(a[p], d[p], s)) - (IF r = s THEN 1 ELSE 0)
  BY <1>1, VecesAvanza
<1>5. SoloDe(a, d, a, e, p, r, -1)
  BY <1>2, <1>3, <1>4 DEF SoloDe
<1>6. d[p] \in Veces(a[p], d[p], r)
  BY <1>1 DEF Veces
<1>7. Cuenta(a, d)[p][r] \in Nat \ {0}
  BY <1>1, <1>3, <1>6, VecesFinitas DEF Cuenta
<1> QED BY <1>5, <1>7, CuentaDeUno

(***************************************************************************)
(* WAIT, SIGNAL and the end of a process are steps of RecursoFifo.         *)
(***************************************************************************)
Inicio == [p \in Pids |-> Desde(p)]
Tiene == [p \in Pids |-> [r \in Recursos |-> Cardinality(Tenencias(p, r))]]

LEMMA TieneEs ==
  /\ Tiene = Cuenta(recursos_asignados, Inicio)
  /\ Tiene' = Cuenta(recursos_asignados', Inicio')
  /\ \A r : Cardinality(UNION {{p} \X Tenencias(p, r) : p \in Pids}) = Total(recursos_asignados, Inicio, r)
<1>1. \A p \in Pids : Inicio[p] = Desde(p) /\ Inicio'[p] = Desde(p)'
  BY DEF Inicio
<1>2. /\ \A p \in Pids : \A r : Tenencias(p, r) = Veces(recursos_asignados[p], Inicio[p], r)
      /\ \A p \in Pids : \A r : Tenencias(p, r)' = Veces(recursos_asignados'[p], Inicio'[p], r)
  BY <1>1 DEF Tenencias, Veces
<1>3. Tiene = Cuenta(recursos_asignados, Inicio)
  BY <1>2 DEF Tiene, Cuenta
<1>4. Tiene' = Cuenta(recursos_asignados', Inicio')
  BY <1>2 DEF Tiene, Cuenta
<1>5. \A r : {{p} \X Tenencias(p, r) : p \in Pids} =
               {{p} \X Veces(recursos_asignados[p], Inicio[p], r) : p \in Pids}
  BY <1>2
<1> QED BY <1>3, <1>4, <1>5 DEF Total

LEMMA Repartido ==
  ASSUME FInv
  PROVE  recursos_asignados \in Listas /\ Inicio \in Inicios
<1>1. recursos_asignados \in Listas
  BY Partes DEF TypeOK, TipoRecursos, Listas
<1>2. ASSUME NEW p \in Pids PROVE Desde(p) \in Nat \ {0}
  <2>1. CASE pc["consola"] \in {"libera", "despierta"}
    <3>1. indice \in Nat /\ indice > 0
      BY <2>1, Partes DEF Hilada, TypeOK, TipoHilos
    <3> QED BY <3>1 DEF Desde
  <2> QED BY <2>1 DEF Desde
<1> QED BY <1>1, <1>2 DEF Inicio, Inicios

\* The names RecursoFifo gives to the operators of the library.
LEMMA FifoSecuencias ==
  /\ \A s, x : Fifo!Contains(s, x) <=> Contains(s, x)
  /\ \A s, x : Fifo!RemoveFirst(s, x) = RemoveFirst(s, x)
<1>1. \A s, x : Fifo!Contains(s, x) <=> Contains(s, x)
  BY DEF Fifo!Contains, Contains
<1>2. \A s, k : Fifo!RemoveAt(s, k) = RemoveAt(s, k)
  BY DEF Fifo!RemoveAt, RemoveAt
<1>3. \A S : Fifo!Min(S) = Min(S)
  BY DEF Fifo!Min, Min
<1>4. \A s, x : Fifo!RemoveFirst(s, x) = RemoveFirst(s, x)
  BY <1>2, <1>3 DEF Fifo!RemoveFirst, RemoveFirst, Fifo!SelectInSeq, SelectInSeq
<1> QED BY <1>1, <1>4

\* What is to be shown of a step.
Suma(r) == instancias[r] + Total(recursos_asignados, Inicio, r)

Reparte ==
  /\ [Fifo!Next]_(Fifo!vars)
  /\ \A r \in Recursos : Suma(r)' = Suma(r)

\* A step that touches neither the instances nor the queues.
LEMMA ReparteIgual ==
  ASSUME instancias' = instancias, procesos_bloqueados' = procesos_bloqueados,
         recursos_asignados' = recursos_asignados, \A p \in Pids : Desde(p)' = Desde(p)
  PROVE  Reparte
<1>1. Inicio' = Inicio
  BY DEF Inicio
<1>2. Tiene' = Tiene
  BY <1>1, TieneEs
<1> QED BY <1>1, <1>2 DEF Reparte, Suma, Fifo!vars, Tiene

LEMMA ReparteTomar ==
  ASSUME FInv, NEW p \in Pids, NEW r \in Recursos, instancias[r] > 0,
         instancias' = [instancias EXCEPT ![r] = @ - 1],
         procesos_bloqueados' = procesos_bloqueados,
         Cambia(recursos_asignados, Inicio, recursos_asignados', Inicio', p, r, 1)
  PROVE  Reparte
<1>1. instancias \in [Recursos -> Nat] /\ procesos_bloqueados[r] = <<>>
  BY Partes DEF TypeOK, TipoRecursos, Agotados
<1>2. Tiene' = [Tiene EXCEPT ![p][r] = @ + 1]
  BY TieneEs DEF Cambia
<1>3. Fifo!Tomar(p, r)
  BY <1>1, <1>2 DEF Fifo!Tomar, Tiene
<1>4. Fifo!Next
  BY <1>3 DEF Fifo!Next
<1>5. \A s \in Recursos : Suma(s)' = Suma(s)
  BY <1>1 DEF Suma, Cambia
<1> QED BY <1>4, <1>5 DEF Reparte

LEMMA ReparteEsperar ==
  ASSUME FInv, NEW p \in Pids, NEW r \in Recursos, instancias[r] = 0, ~EnEspera(p),
         instancias' = instancias,
         procesos_bloqueados' = [procesos_bloqueados EXCEPT ![r] = Append(@, p)],
         recursos_asignados' = recursos_asignados, Inicio' = Inicio
  PROVE  Reparte
<1>1. \A s \in Recursos : ~Fifo!Contains(procesos_bloqueados[s], p)
  BY Partes, Elementos, FifoSecuencias DEF EnEspera
<1>2. Tiene' = Tiene
  BY TieneEs
<1>3. Fifo!Esperar(p, r)
  BY <1>1, <1>2 DEF Fifo!Esperar, Tiene
<1>4. Fifo!Next
  BY <1>3 DEF Fifo!Next
<1> QED BY <1>4 DEF Reparte, Suma

LEMMA ReparteSoltar ==
  ASSUME FInv, NEW p \in Pids, NEW r \in Recursos, ~AlguienEspera(r),
         instancias' = [instancias EXCEPT ![r] = @ + 1],
         procesos_bloqueados' = procesos_bloqueados,
         Cuenta(recursos_asignados, Inicio)[p][r] \in Nat \ {0},
         Cambia(recursos_asignados, Inicio, recursos_asignados', Inicio', p, r, -1)
  PROVE  Reparte
<1>1. instancias \in [Recursos -> Nat] /\ procesos_bloqueados[r] = <<>>
  BY Partes DEF TypeOK, TipoRecursos, AlguienEspera
<1>2. Tiene' = [Tiene EXCEPT ![p][r] = @ - 1] /\ Tiene[p][r] > 0
  <2>1. PICK c : c = Cuenta(recursos_asignados, Inicio)
    OBVIOUS
  <2>2. Tiene = c /\ Tiene' = [c EXCEPT ![p][r] = @ + (-1)] /\ c[p][r] \in Nat \ {0}
    BY <2>1, TieneEs DEF Cambia
  <2>3. c[p][r] + (-1) = c[p][r] - 1
    BY <2>2
  <2>4. Tiene' = [c EXCEPT ![p][r] = @ - 1]
    BY <2>2, <2>3
  <2>5. Tiene' = [Tiene EXCEPT ![p][r] = @ - 1]
    BY <2>2, <2>4, Zenon
  <2>6. Tiene[p][r] > 0
    BY <2>2
  <2> QED BY <2>5, <2>6
<1>3. Fifo!Soltar(p, r)
  BY <1>1, <1>2 DEF Fifo!Soltar, Tiene
<1>4. Fifo!Next
  BY <1>3 DEF Fifo!Next
<1>5. ASSUME NEW s \in Recursos PROVE Suma(s)' = Suma(s)
  <2>1. instancias[s] \in Nat /\ instancias'[s] = instancias[s] + (IF r = s THEN 1 ELSE 0)
    BY <1>1
  <2>2. PICK n \in Nat, k \in Nat : /\ n = Total(recursos_asignados, Inicio, s)
                                    /\ k = Total(recursos_asignados', Inicio', s)
                                    /\ k = n + (IF r = s THEN -1 ELSE 0)
    BY DEF Cambia
  <2> QED BY <2>1, <2>2 DEF Suma
<1> QED BY <1>4, <1>5 DEF Reparte

\* The hand-over, in two halves: p has one less, and then q has one more.
LEMMA ReparteCeder ==
  ASSUME FInv, NEW p \in Pids, NEW r \in Recursos, AlguienEspera(r),
         NEW q \in Pids, q = Siguiente(r),
         instancias' = instancias,
         procesos_bloqueados' = [procesos_bloqueados EXCEPT ![r] = Quitar(@, q)],
         Cuenta(recursos_asignados, Inicio)[p][r] \in Nat \ {0},
         NEW a, NEW d,
         Cambia(recursos_asignados, Inicio, a, d, p, r, -1),
         Cambia(a, d, recursos_asignados', Inicio', q, r, 1)
  PROVE  Reparte
<1>1. /\ q = Head(procesos_bloqueados[r]) /\ procesos_bloqueados[r] # <<>>
      /\ procesos_bloqueados' = [procesos_bloqueados EXCEPT ![r] = Tail(@)]
  BY Entregado
<1>2. /\ Tiene[p][r] > 0
      /\ Tiene' = [[Tiene EXCEPT ![p][r] = @ - 1] EXCEPT ![q][r] = @ + 1]
  <2>1. PICK c : c = Cuenta(recursos_asignados, Inicio)
    OBVIOUS
  <2>2. /\ Tiene = c /\ Cuenta(a, d) = [c EXCEPT ![p][r] = @ + (-1)]
        /\ c[p][r] \in Nat \ {0}
    BY <2>1, TieneEs DEF Cambia
  <2>3. Cuenta(a, d) = [c EXCEPT ![p][r] = @ - 1]
    BY <2>2
  <2>4. Tiene' = [Cuenta(a, d) EXCEPT ![q][r] = @ + 1]
    BY TieneEs DEF Cambia
  <2> QED BY <2>2, <2>3, <2>4
<1>3. Tiene' = [x \in Pids |-> [Tiene[x] EXCEPT ![r] = @ - (IF x = p THEN 1 ELSE 0)
                                                        + (IF x = q THEN 1 ELSE 0)]]
  <2>1. \A x \in Pids : Tiene[x] \in [Recursos -> Nat] /\ Tiene[x][r] \in Nat
    <3>1. \A x \in Pids, s \in Recursos : Cardinality(Veces(recursos_asignados[x], Inicio[x], s)) \in Nat
      BY Repartido, VecesFinitas DEF Listas, Inicios
    <3> QED BY <3>1, TieneEs DEF Cuenta
  <2>2. Tiene = [x \in Pids |-> Tiene[x]]
    BY DEF Tiene
  <2>3. \A x \in Pids : [[Tiene EXCEPT ![p][r] = @ - 1] EXCEPT ![q][r] = @ + 1][x] =
                          [Tiene[x] EXCEPT ![r] = @ - (IF x = p THEN 1 ELSE 0)
                                                    + (IF x = q THEN 1 ELSE 0)]
    <3> SUFFICES ASSUME NEW x \in Pids
                 PROVE  [[Tiene EXCEPT ![p][r] = @ - 1] EXCEPT ![q][r] = @ + 1][x] =
                          [Tiene[x] EXCEPT ![r] = @ - (IF x = p THEN 1 ELSE 0)
                                                    + (IF x = q THEN 1 ELSE 0)]
      OBVIOUS
    <3>1. CASE x = p /\ x = q
      BY <2>1, <2>2, <3>1
    <3>2. CASE x = p /\ x # q
      <4>1. Tiene[x][r] - (IF x = p THEN 1 ELSE 0) + (IF x = q THEN 1 ELSE 0) = Tiene[x][r] - 1
        BY <2>1, <3>2
      <4>2. [[Tiene EXCEPT ![p][r] = @ - 1] EXCEPT ![q][r] = @ + 1][x] =
              [Tiene[x] EXCEPT ![r] = Tiene[x][r] - 1]
        BY <2>2, <3>2
      <4> QED BY <4>1, <4>2
    <3>3. CASE x # p /\ x = q
      BY <2>1, <2>2, <3>3
    <3>4. CASE x # p /\ x # q
      BY <2>1, <2>2, <3>4
    <3> QED BY <3>1, <3>2, <3>3, <3>4
  <2> QED BY <1>2, <2>2, <2>3
<1>4. Fifo!Ceder(p, r)
  <2>1. Tiene' = [x \in Pids |-> [Tiene[x] EXCEPT ![r] =
                    @ - (IF x = p THEN 1 ELSE 0)
                      + (IF x = Head(procesos_bloqueados[r]) THEN 1 ELSE 0)]]
    BY <1>1, <1>3, Zenon
  <2> QED BY <1>1, <1>2, <2>1 DEF Fifo!Ceder, Tiene
<1>5. Fifo!Next
  BY <1>4 DEF Fifo!Next
<1>6. \A s \in Recursos : Suma(s)' = Suma(s)
  <2> SUFFICES ASSUME NEW s \in Recursos PROVE Suma(s)' = Suma(s)
    OBVIOUS
  <2>1. /\ Total(recursos_asignados, Inicio, s) \in Nat
        /\ Total(a, d, s) = Total(recursos_asignados, Inicio, s) + (IF r = s THEN -1 ELSE 0)
        /\ Total(recursos_asignados', Inicio', s) = Total(a, d, s) + (IF r = s THEN 1 ELSE 0)
    BY DEF Cambia
  <2>2. Total(recursos_asignados', Inicio', s) = Total(recursos_asignados, Inicio, s)
    BY <2>1
  <2> QED BY <2>2 DEF Suma
<1> QED BY <1>5, <1>6 DEF Reparte

(***************************************************************************)
(* The steps.                                                              *)
(***************************************************************************)
\* Where the process that a thread serves is looked at from.
LEMMA ReparteWait ==
  ASSUME FInv, ~CarreraConsola, SinOrdenPendiente, EvaluarWait
  PROVE  Reparte
<1> DEFINE p == pcb_en_ejecucion
           r == UltimaInstruccion(p).recurso
<1>1. /\ p \in Pids /\ ~EnEspera(p) /\ pc["consola"] \in {"inicio", "espera"}
      /\ r \in Recursos /\ UNCHANGED <<pc, pcb_a_liberar, indice>>
      /\ \/ /\ instancias[r] > 0
            /\ instancias' = [instancias EXCEPT ![r] = @ - 1]
            /\ recursos_asignados' = [recursos_asignados EXCEPT ![p] = Append(@, r)]
            /\ UNCHANGED procesos_bloqueados
         \/ /\ ~(instancias[r] > 0)
            /\ instancias' = [instancias EXCEPT ![r] = 0]
            /\ procesos_bloqueados' = [procesos_bloqueados EXCEPT ![r] = Append(@, p)]
            /\ UNCHANGED recursos_asignados
  BY Atendido, Quieta DEF EvaluarWait, TrasNegar, mandos, AtenderCpu
<1> HIDE DEF p, r
<1>2. Inicio' = Inicio /\ Inicio[p] = 1
  BY <1>1 DEF Inicio, Desde
<1>3. recursos_asignados \in Listas /\ Inicio \in Inicios
  BY Repartido
<1>4. instancias \in [Recursos -> Nat]
  BY Partes DEF TypeOK, TipoRecursos
<1>5. CASE /\ instancias[r] > 0
           /\ instancias' = [instancias EXCEPT ![r] = @ - 1]
           /\ recursos_asignados' = [recursos_asignados EXCEPT ![p] = Append(@, r)]
           /\ UNCHANGED procesos_bloqueados
  <2>1. Inicio[p] <= Len(recursos_asignados[p]) + 1
    BY <1>1, <1>2, Partes
  <2>2. Cambia(recursos_asignados, Inicio, recursos_asignados', Inicio, p, r, 1)
    BY <1>1, <1>3, <1>5, <2>1, CuentaMas
  <2> QED BY <1>1, <1>2, <1>5, <2>2, ReparteTomar
<1>6. CASE /\ ~(instancias[r] > 0)
           /\ instancias' = [instancias EXCEPT ![r] = 0]
           /\ procesos_bloqueados' = [procesos_bloqueados EXCEPT ![r] = Append(@, p)]
           /\ UNCHANGED recursos_asignados
  <2>1. instancias[r] = 0 /\ instancias' = instancias
    BY <1>1, <1>4, <1>6
  <2> QED BY <1>1, <1>2, <1>6, <2>1, ReparteEsperar
<1> QED BY <1>1, <1>5, <1>6

LEMMA ReparteSignal ==
  ASSUME FInv, ~CarreraConsola, SinOrdenPendiente, EvaluarSignal
  PROVE  Reparte
<1> DEFINE p == pcb_en_ejecucion
           r == UltimaInstruccion(p).recurso
           q == Siguiente(r)
           a == [recursos_asignados EXCEPT ![p] = RemoveFirst(@, r)]
<1>1. /\ p \in Pids /\ pc["consola"] \in {"inicio", "espera"} /\ r \in Recursos
      /\ Contains(recursos_asignados[p], r)
      /\ UNCHANGED <<pcb_a_liberar, indice>>
      /\ \/ /\ ~AlguienEspera(r)
            /\ instancias' = [instancias EXCEPT ![r] = @ + 1]
            /\ recursos_asignados' = a
            /\ UNCHANGED <<procesos_bloqueados, pc>>
         \/ /\ AlguienEspera(r)
            /\ procesos_bloqueados' = [procesos_bloqueados EXCEPT ![r] = Quitar(@, q)]
            /\ recursos_asignados' =
                 [x \in Pids |-> LET l == IF x = p THEN RemoveFirst(recursos_asignados[p], r)
                                          ELSE recursos_asignados[x]
                                 IN IF x = q THEN Append(l, r) ELSE l]
            /\ pc' = [pc EXCEPT !["cde"] = "despierta"]
            /\ instancias' = instancias
  <2>1. Solicitud("SIGNAL") /\ p \in Pids /\ pc["consola"] \in {"inicio", "espera"}
    BY Atendido, Quieta DEF EvaluarSignal, AtenderCpu
  <2>2. recursos_asignados \in [Pids -> Seq(Recursos)]
    BY Partes DEF TypeOK, TipoRecursos
  <2> QED BY <2>1, <2>2 DEF EvaluarSignal, Quitar, Cedida, mandos
<1> HIDE DEF p, r, q
<1>2. recursos_asignados \in Listas /\ Inicio \in Inicios
  BY Repartido
<1>3. Inicio' = Inicio /\ Inicio[p] = 1
  <2>1. pc' = pc \/ pc' = [pc EXCEPT !["cde"] = "despierta"]
    BY <1>1
  <2>2. pc'["consola"] = pc["consola"]
    BY <2>1, Partes, SonHilos DEF TypeOK, TipoHilos
  <2> QED BY <1>1, <2>2 DEF Inicio, Desde
<1>4. r \in ToSet(recursos_asignados[p])
  BY <1>1, Partes, Elementos
<1>5. /\ Cambia(recursos_asignados, Inicio, a, Inicio, p, r, -1)
      /\ Cuenta(recursos_asignados, Inicio)[p][r] \in Nat \ {0}
  BY <1>1, <1>2, <1>3, <1>4, CuentaMenos
<1>6. CASE /\ ~AlguienEspera(r)
           /\ instancias' = [instancias EXCEPT ![r] = @ + 1]
           /\ recursos_asignados' = a
           /\ UNCHANGED <<procesos_bloqueados, pc>>
  BY <1>1, <1>3, <1>5, <1>6, ReparteSoltar
<1>7. CASE /\ AlguienEspera(r)
           /\ procesos_bloqueados' = [procesos_bloqueados EXCEPT ![r] = Quitar(@, q)]
           /\ recursos_asignados' =
                [x \in Pids |-> LET l == IF x = p THEN RemoveFirst(recursos_asignados[p], r)
                                         ELSE recursos_asignados[x]
                                IN IF x = q THEN Append(l, r) ELSE l]
           /\ pc' = [pc EXCEPT !["cde"] = "despierta"]
           /\ instancias' = instancias
  <2>1. q \in Pids
    BY <1>1, <1>7, Entregado DEF q
  <2>2. a \in Listas
    BY <1>5 DEF Cambia
  <2>3. recursos_asignados' = [a EXCEPT ![q] = Append(@, r)]
    BY <1>1, <1>2, <1>7, <2>1 DEF Listas
  <2> HIDE DEF a
  <2>4. Inicio[q] <= Len(a[q]) + 1
    <3>1. Inicio[q] = 1 /\ Len(a[q]) \in Nat
      BY <1>1, <2>1, <2>2 DEF Inicio, Desde, Listas
    <3> QED BY <3>1
  <2>5. Cambia(a, Inicio, recursos_asignados', Inicio, q, r, 1)
    BY <1>1, <1>2, <2>1, <2>2, <2>3, <2>4, CuentaMas
  <2> QED BY <1>1, <1>3, <1>5, <1>7, <2>1, <2>5, ReparteCeder DEF q
<1> QED BY <1>1, <1>6, <1>7

\* One turn of liberar_recursos_pcb: the process the console ends gives back
\* one instance, or hands it over, to itself if it waits for another.
LEMMA ReparteLibera == ASSUME FInv, LiberaRecurso PROVE Reparte
<1> DEFINE p == pcb_a_liberar
           r == recursos_asignados[p][indice]
           q == Siguiente(r)
           d == [Inicio EXCEPT ![p] = @ + 1]
<1>1. /\ pc["consola"] = "libera" /\ indice <= Len(recursos_asignados[p])
      /\ indice' = indice + 1 /\ pcb_a_liberar' = p
      /\ \/ /\ ~AlguienEspera(r)
            /\ instancias' = [instancias EXCEPT ![r] = @ + 1]
            /\ UNCHANGED <<procesos_bloqueados, recursos_asignados, pc>>
         \/ /\ AlguienEspera(r)
            /\ procesos_bloqueados' = [procesos_bloqueados EXCEPT ![r] = Quitar(@, q)]
            /\ recursos_asignados' = [recursos_asignados EXCEPT ![q] = Append(@, r)]
            /\ pc' = [pc EXCEPT !["consola"] = "despierta"]
            /\ instancias' = instancias
  BY DEF LiberaRecurso, Cedida
<1>2. /\ p \in Pids /\ indice \in Nat \ {0} /\ Len(recursos_asignados[p]) \in Nat
  BY <1>1, Sola, Partes DEF Hilada, TypeOK, TipoHilos, Trabaja, Colgada
<1>3. recursos_asignados \in Listas /\ Inicio \in Inicios
  BY Repartido
<1>4. r \in Recursos
  <2>1. recursos_asignados[p] \in Seq(Recursos) /\ indice \in 1..Len(recursos_asignados[p])
    BY <1>1, <1>2, Partes
  <2> QED BY <2>1
<1>5. Inicio[p] = indice /\ \A x \in Pids \ {p} : Inicio[x] = 1
  BY <1>1, <1>2 DEF Inicio, Desde
<1>6. Inicio' = d
  <2>1. pc'["consola"] \in {"libera", "despierta"}
    <3>1. pc' = pc \/ pc' = [pc EXCEPT !["consola"] = "despierta"]
      BY <1>1
    <3> QED BY <1>1, <3>1, Partes, SonHilos, PcMueve
  <2>2. \A x \in Pids : Desde(x)' = IF x = p THEN indice + 1 ELSE 1
    BY <1>1, <2>1 DEF Desde
  <2>3. \A x \in Pids : d[x] = IF x = p THEN indice + 1 ELSE 1
    BY <1>3, <1>5 DEF Inicios
  <2>4. d = [x \in Pids |-> d[x]]
    BY <1>3 DEF Inicios
  <2> QED BY <2>2, <2>3, <2>4 DEF Inicio
<1>7. r = recursos_asignados[p][Inicio[p]] /\ Inicio[p] <= Len(recursos_asignados[p])
  BY <1>1, <1>5
<1> HIDE DEF p, r, q
<1>8. /\ Cambia(recursos_asignados, Inicio, recursos_asignados, d, p, r, -1)
      /\ Cuenta(recursos_asignados, Inicio)[p][r] \in Nat \ {0}
  BY <1>2, <1>3, <1>4, <1>7, CuentaAvanza
<1>9. CASE /\ ~AlguienEspera(r)
           /\ instancias' = [instancias EXCEPT ![r] = @ + 1]
           /\ UNCHANGED <<procesos_bloqueados, recursos_asignados, pc>>
  BY <1>2, <1>4, <1>6, <1>8, <1>9, ReparteSoltar
<1>10. CASE /\ AlguienEspera(r)
            /\ procesos_bloqueados' = [procesos_bloqueados EXCEPT ![r] = Quitar(@, q)]
            /\ recursos_asignados' = [recursos_asignados EXCEPT ![q] = Append(@, r)]
            /\ pc' = [pc EXCEPT !["consola"] = "despierta"]
            /\ instancias' = instancias
  <2>1. q \in Pids
    BY <1>4, <1>10, Entregado DEF q
  <2>2. d \in Inicios
    BY <1>8 DEF Cambia
  <2>3. d[q] <= Len(recursos_asignados[q]) + 1
    <3>1. Len(recursos_asignados[q]) \in Nat
      BY <2>1, Partes
    <3>2. CASE q = p
      BY <1>1, <1>2, <1>3, <1>5, <3>1, <3>2 DEF Inicios, p
    <3>3. CASE q # p
      BY <1>3, <1>5, <2>1, <3>1, <3>3 DEF Inicios
    <3> QED BY <3>2, <3>3
  <2> HIDE DEF d
  <2>4. Cambia(recursos_asignados, d, recursos_asignados', d, q, r, 1)
    BY <1>3, <1>4, <1>10, <2>1, <2>2, <2>3, CuentaMas
  <2> QED BY <1>2, <1>4, <1>6, <1>8, <1>10, <2>1, <2>4, ReparteCeder DEF q
<1> QED BY <1>1, <1>9, <1>10 DEF r, q

\* The lists are emptied when nothing of them is left to give back.
LEMMA ReparteVacia == ASSUME FInv, VaciaListas PROVE Reparte
<1> DEFINE p == pcb_a_liberar
<1>1. /\ pc["consola"] = "libera" /\ pc' = [pc EXCEPT !["consola"] = "retira"]
      /\ indice > Len(recursos_asignados[p])
      /\ recursos_asignados' = [recursos_asignados EXCEPT ![p] = <<>>]
      /\ procesos_bloqueados' = DejarSolicitados(p)
      /\ UNCHANGED <<instancias, pcb_a_liberar, indice>>
  BY DEF VaciaListas, Ir, mandos
<1>2. p \in Pids /\ indice \in Nat
  BY <1>1, Sola, Partes DEF TypeOK, TipoHilos, Trabaja, Colgada
<1>3. procesos_bloqueados' = [r \in Recursos |-> RemoveFirst(procesos_bloqueados[r], p)]
  BY <1>1, <1>2, Dejados
<1>4. recursos_asignados \in Listas /\ Inicio \in Inicios
  BY Repartido
<1>5. /\ Inicio[p] = indice /\ \A x \in Pids : Inicio'[x] = 1
      /\ \A x \in Pids \ {p} : Inicio[x] = 1
  <2>1. pc'["consola"] = "retira"
    BY <1>1, Partes, SonHilos, PcMueve
  <2> QED BY <1>1, <1>2, <2>1 DEF Inicio, Desde
<1>6. ASSUME NEW x \in Pids, NEW r \in Recursos
      PROVE  /\ Veces(recursos_asignados'[x], Inicio'[x], r) = Veces(recursos_asignados[x], Inicio[x], r)
             /\ x = p => Veces(recursos_asignados[x], Inicio[x], r) = {}
  <2>1. CASE x # p
    BY <1>1, <1>4, <1>5, <2>1 DEF Listas
  <2>2. CASE x = p
    <3>1. recursos_asignados'[x] = <<>> /\ Len(<<>>) = 0 /\ <<>> \in Seq(Recursos)
      BY <1>1, <1>4, <2>2 DEF Listas
    <3>2. Veces(recursos_asignados'[x], Inicio'[x], r) = {}
      <4>1. Veces(<<>>, 1, r) = {}
        BY <3>1 DEF Veces
      <4> QED BY <1>5, <3>1, <4>1
    <3>3. Veces(recursos_asignados[x], Inicio[x], r) = {}
      BY <1>1, <1>2, <1>5, <2>2, Partes, VecesFinitas
    <3> QED BY <3>2, <3>3
  <2> QED BY <2>1, <2>2
<1>7. Tiene' = Tiene /\ Tiene[p] = [r \in Recursos |-> 0]
  BY <1>2, <1>6, TieneEs, FS_EmptySet DEF Cuenta
<1>8. \A r \in Recursos : Fifo!RemoveFirst(procesos_bloqueados[r], p) = RemoveFirst(procesos_bloqueados[r], p)
  BY FifoSecuencias
<1>9. Fifo!Abandonar(p)
  BY <1>1, <1>2, <1>3, <1>7, <1>8 DEF Fifo!Abandonar, Tiene
<1>10. Fifo!Next
  BY <1>2, <1>9 DEF Fifo!Next
<1>11. \A r \in Recursos : Total(recursos_asignados', Inicio', r) = Total(recursos_asignados, Inicio, r)
  BY <1>6 DEF Total
<1>12. \A r \in Recursos : Suma(r)' = Suma(r)
  BY <1>1, <1>11 DEF Suma
<1> QED BY <1>10, <1>12 DEF Reparte

\* No other step touches the instances, the queues or the lists, and none but
\* those changes from where a list is looked at.
LEMMA ReparteResto ==
  ASSUME FInv,
         \/ IniciarProceso \/ FinalizarProceso \/ ConsolaDespierta
         \/ RetiraLee \/ RetiraExec \/ RetiraEspera \/ RetiraQuita \/ FinalizaPcb \/ FinalizaAvisa
         \/ CambiarGrado \/ GradoEscribe \/ GradoSuma \/ CpuInterrupt
         \/ PlanificadorLargo \/ PlanificadorCorto \/ Cpu \/ TerminarProceso
         \/ RecursoInexistente \/ CdeDespierta \/ CdeResponde
         \/ ExecAFinalizado \/ ExecAReady \/ ExecABlock
         \/ UNCHANGED vars
  PROVE  Reparte
<1>1. recursos' = recursos
  <2>1. CASE \/ IniciarProceso \/ FinalizarProceso \/ ConsolaDespierta
             \/ RetiraLee \/ RetiraExec \/ RetiraEspera \/ RetiraQuita \/ FinalizaPcb \/ FinalizaAvisa
             \/ CambiarGrado \/ GradoEscribe \/ GradoSuma \/ CpuInterrupt \/ UNCHANGED vars
    BY <2>1 DEF IniciarProceso, FinalizarProceso, ConsolaDespierta, RetiraLee, RetiraExec, RetiraEspera,
                RetiraQuita, FinalizaPcb, FinalizaAvisa, Olvida, CambiarGrado, GradoEscribe,
                GradoSuma, CpuInterrupt, vars
  <2>2. CASE \/ PlanificadorLargo \/ PlanificadorCorto \/ Cpu \/ TerminarProceso
             \/ RecursoInexistente \/ CdeDespierta \/ CdeResponde
             \/ ExecAFinalizado \/ ExecAReady \/ ExecABlock
    BY <2>2 DEF PlanificadorLargo, LargoEsperaNew, NewAReady, PlanificadorCorto, CortoEsperaCpu,
                CortoEsperaReady, ReadyAExec, Cpu, CpuFetch, CpuVence, CpuDevuelve, TerminarProceso,
                RecursoInexistente, CdeDespierta, CdeResponde, ExecAFinalizado, ExecAReady,
                ExecABlock, DejaExec
  <2> QED BY <2>1, <2>2
<1>2. \A p \in Pids : Desde(p)' = Desde(p)
  <2>1. CASE FinalizarProceso
    <3>1. /\ pc["consola"] = "inicio" /\ pc' = [pc EXCEPT !["consola"] = "libera"] /\ indice' = 1
      BY <2>1 DEF FinalizarProceso, Ir
    <3> QED BY <3>1 DEF Desde
  <2>2. CASE ConsolaDespierta
    <3>1. /\ pc["consola"] = "despierta" /\ pc' = [pc EXCEPT !["consola"] = "libera"]
          /\ UNCHANGED mandos
      BY <2>2 DEF ConsolaDespierta, BlockAReady, Ir
    <3>2. pc'["consola"] = "libera"
      BY <3>1, Partes, SonHilos, PcMueve
    <3> QED BY <3>1, <3>2 DEF Desde, mandos
  <2>3. CASE \/ RetiraLee \/ RetiraExec \/ RetiraEspera \/ RetiraQuita \/ FinalizaPcb \/ FinalizaAvisa
             \/ CambiarGrado \/ GradoEscribe \/ GradoSuma
    <3>1. PICK a \in {"espera", "quita", "finaliza", "avisa", "escribe", "suma", "inicio"} :
            pc["consola"] \notin {"libera", "despierta"} /\ pc' = [pc EXCEPT !["consola"] = a]
      BY <2>3 DEF RetiraLee, RetiraExec, RetiraEspera, RetiraQuita, FinalizaPcb, FinalizaAvisa,
                  Olvida, CambiarGrado, GradoEscribe, GradoSuma, Ir
    <3>2. pc'["consola"] = a
      BY <3>1, Partes, SonHilos DEF TypeOK, TipoHilos
    <3> QED BY <3>1, <3>2 DEF Desde
  <2>4. CASE IniciarProceso \/ CpuInterrupt \/ UNCHANGED vars
    <3>1. UNCHANGED <<pc, pcb_a_liberar, indice>>
      BY <2>4 DEF IniciarProceso, CpuInterrupt, vars, mandos
    <3> QED BY <3>1 DEF Desde
  <2>5. CASE \/ PlanificadorLargo \/ PlanificadorCorto \/ Cpu \/ TerminarProceso
             \/ RecursoInexistente \/ CdeDespierta \/ CdeResponde
             \/ ExecAFinalizado \/ ExecAReady \/ ExecABlock
    BY <2>5, Partes, PasoDeOtro DEF AtenderCpu, Desde, mandos
  <2> QED BY <2>1, <2>2, <2>3, <2>4, <2>5
<1> QED BY <1>1, <1>2, ReparteIgual DEF recursos

LEMMA PasoReparte == ASSUME FInv, ~CarreraConsola, [Next]_vars PROVE Reparte
<1>1. CASE UNCHANGED vars
  BY <1>1, ReparteResto
<1>2. CASE Next
  <2>1. CASE Consola \/ CpuInterrupt
    BY <2>1, ReparteResto, ReparteLibera, ReparteVacia DEF Consola, ConsolaSigue
  <2>2. ASSUME SinOrdenPendiente,
               PlanificadorLargo \/ PlanificadorCorto \/ Cpu \/ AtenderCpu \/ TerminarProceso
        PROVE  Reparte
    BY <2>2, ReparteResto, ReparteWait, ReparteSignal DEF AtenderCpu
  <2> QED BY <1>2, <2>1, <2>2 DEF Next
<1> QED BY <1>1, <1>2

LEMMA InicioReparte == Init => Fifo!Init /\ \A r \in Recursos : Suma(r) = InstanciasDe[r]
<1> SUFFICES ASSUME Init PROVE Fifo!Init /\ \A r \in Recursos : Suma(r) = InstanciasDe[r]
  OBVIOUS
<1>1. \A p \in Pids, r \in Recursos : Tenencias(p, r) = {}
  <2>1. \A p \in Pids : recursos_asignados[p] = <<>>
    BY DEF Init
  <2>2. Len(<<>>) = 0
    OBVIOUS
  <2>3. pc["consola"] = "inicio"
    BY SonHilos DEF Init
  <2>4. \A p \in Pids : Desde(p) = 1
    BY <2>3 DEF Desde
  <2> QED BY <2>1, <2>2, <2>4 DEF Tenencias
<1>2. Tiene = [p \in Pids |-> [r \in Recursos |-> 0]]
  BY <1>1, FS_EmptySet DEF Tiene
<1>3. Fifo!Init
  BY <1>2, InstanciasAssumption DEF Init, Fifo!Init, Tiene
<1>4. \A r \in Recursos : UNION {{p} \X Tenencias(p, r) : p \in Pids} = {}
  BY <1>1
<1>5. \A r \in Recursos : Total(recursos_asignados, Inicio, r) = 0
  BY <1>4, TieneEs, FS_EmptySet
<1>6. \A r \in Recursos : Suma(r) = InstanciasDe[r]
  BY <1>5, InstanciasAssumption DEF Init, Suma
<1> QED BY <1>3, <1>6

\* WAIT, SIGNAL, the hand-over and the end of a process by the console neither
\* make nor lose an instance: the free ones and those the processes hold are
\* always the ones of INSTANCIAS_RECURSOS.
THEOREM NingunaInstanciaPerdida == ~CarreraConsola => (Spec => []InstanciasConservadas)
<1> SUFFICES ASSUME ~CarreraConsola PROVE Spec => []InstanciasConservadas
  OBVIOUS
<1> DEFINE J == \A r \in Recursos : Suma(r) = InstanciasDe[r]
<1>1. Init => J
  BY InicioReparte
<1>2. FInv /\ J /\ [Next]_vars => J'
  <2> SUFFICES ASSUME FInv, J, [Next]_vars PROVE J'
    OBVIOUS
  <2>1. \A r \in Recursos : Suma(r)' = Suma(r)
    BY PasoReparte DEF Reparte
  <2> QED BY <2>1
<1>3. J => InstanciasConservadas
  BY TieneEs DEF InstanciasConservadas, Suma
<1> HIDE DEF J
<1> QED BY <1>1, <1>2, <1>3, SiempreFInv, PTL DEF Spec

\* The resources of the Kernel implement RecursoFifo: each is a counting
\* semaphore whose instances go to who waits first, one that nobody may take
\* past a process that waits, and who is ended leaves every queue.
THEOREM RecursosSonSemaforos == ~CarreraConsola => (Spec => CumpleFifo)
<1> SUFFICES ASSUME ~CarreraConsola PROVE Spec => CumpleFifo
  OBVIOUS
<1>1. Init => Fifo!Init
  BY InicioReparte
<1>2. FInv /\ [Next]_vars => [Fifo!Next]_(Fifo!vars)
  <2> SUFFICES ASSUME FInv, [Next]_vars PROVE [Fifo!Next]_(Fifo!vars)
    OBVIOUS
  <2>1. Reparte
    BY PasoReparte
  <2> QED BY <2>1 DEF Reparte
<1> QED BY <1>1, <1>2, SiempreFInv, PTL DEF Spec, CumpleFifo, Fifo!Spec
=============================================================================
